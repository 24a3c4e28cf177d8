-------------------------- MODULE ProjectionProofs --------------------------
(***************************************************************************)
(* Theorems about the projection, for every value of the constants.        *)
(***************************************************************************)
EXTENDS Projection, TLAPS

USE KindAssumption, StatusAssumption, EnvelopeAssumption, BoundAssumption

-----------------------------------------------------------------------------
(* What an event type makes a handler do: save the payload or set a status. *)
LEMMA EffectType ==
    \A type \in EventTypes : Handler[type] \in {Upsert, "ACTIVE", "INACTIVE"}
<1>1. Kind \in {"company", "department", "location", "grade", "jobTitle"}
  BY DEF Handlers
<1>2. CASE Kind = "company"
  BY <1>2 DEF EventTypes, Handler, Handlers, CompanyHandler
<1>3. CASE Kind = "department"
  BY <1>3 DEF EventTypes, Handler, Handlers, DepartmentHandler
<1>4. CASE Kind = "location"
  BY <1>4 DEF EventTypes, Handler, Handlers, LocationHandler
<1>5. CASE Kind = "grade"
  BY <1>5 DEF EventTypes, Handler, Handlers, GradeHandler
<1>6. CASE Kind = "jobTitle"
  BY <1>6 DEF EventTypes, Handler, Handlers, JobTitleHandler
<1>7. QED BY <1>1, <1>2, <1>3, <1>4, <1>5, <1>6

(* created and updated events save the payload, the others set a status.    *)
LEMMA StatusTypeEffect ==
    /\ {"created", "updated"} \subseteq EventTypes
    /\ Handler["created"] = Upsert /\ Handler["updated"] = Upsert
    /\ \A type \in StatusTypes : Handler[type] \in {"ACTIVE", "INACTIVE"}
<1>1. Kind \in {"company", "department", "location", "grade", "jobTitle"}
  BY DEF Handlers
<1>2. CASE Kind = "company"
  BY <1>2 DEF StatusTypes, EventTypes, Handler, Handlers, CompanyHandler
<1>3. CASE Kind = "department"
  BY <1>3 DEF StatusTypes, EventTypes, Handler, Handlers, DepartmentHandler
<1>4. CASE Kind = "location"
  BY <1>4 DEF StatusTypes, EventTypes, Handler, Handlers, LocationHandler
<1>5. CASE Kind = "grade"
  BY <1>5 DEF StatusTypes, EventTypes, Handler, Handlers, GradeHandler
<1>6. CASE Kind = "jobTitle"
  BY <1>6 DEF StatusTypes, EventTypes, Handler, Handlers, JobTitleHandler
<1>7. QED BY <1>1, <1>2, <1>3, <1>4, <1>5, <1>6

-----------------------------------------------------------------------------
(* Type correctness.  It needs that a busy replica handles a published      *)
(* event: the handler's effect and payload are looked up in hist.           *)

Labels == {"idle", "check", "reread", "load", "write", "ack"}

JobsTyped ==
    /\ pc \in [Workers -> Labels]
    /\ event \in [Workers -> Nat]
    /\ entity \in [Workers -> Row]
    /\ loaded \in [Workers -> Row]
    /\ tries \in [Workers -> 0 .. FailedCount - 1]
    /\ assigned \in [Workers -> BOOLEAN]
    /\ overtaken \subseteq Workers /\ peak \in Nat /\ torn \in BOOLEAN

HandlesPublished == \A w \in Workers : pc[w] # "idle" => event[w] \in Published

TypeInv == TypeOK /\ HandlesPublished

LEMMA AbsentIsRow == Absent \in Row
BY DEF Absent, Row

LEMMA PayloadIsRow ==
  ASSUME TypeOK, NEW v \in Published
  PROVE  /\ v \in Nat
         /\ hist[v] \in Event
         /\ Payload(v) \in Row
         /\ Effect(v) \in {Upsert, "ACTIVE", "INACTIVE"}
<1>1. v \in Nat /\ hist[v] \in Event
  BY DEF TypeOK, Published
<1>2. hist[v].type \in EventTypes /\ hist[v].attrs \in Nat /\ hist[v].status \in Statuses
  BY <1>1 DEF Event
<1>3. Effect(v) \in {Upsert, "ACTIVE", "INACTIVE"}
  BY <1>2, EffectType DEF Effect
<1>4. QED BY <1>1, <1>2, <1>3 DEF Payload, Row

(* Publishing appends one event and leaves the earlier ones alone.          *)
LEMMA PublishAppends ==
  ASSUME TypeOK, Setting
  PROVE  /\ hist' \in Seq(Event)
         /\ Len(hist') = Len(hist) + 1
         /\ \A v \in Published : hist'[v] = hist[v]
         /\ Published \subseteq Published'
         /\ UNCHANGED <<row, jobVars, settled, dlq, envVars, pastVars>>
<1>1. ASSUME NEW type \in EventTypes, NEW attrs \in Nat, NEW s \in Statuses,
             Publish(type, attrs, s)
      PROVE  /\ hist' \in Seq(Event)
             /\ Len(hist') = Len(hist) + 1
             /\ \A v \in Published : hist'[v] = hist[v]
             /\ UNCHANGED <<row, jobVars, settled, dlq, envVars, pastVars>>
  <2>1. PICK ok \in Envelopes :
          hist' = Append(hist, [type |-> type, attrs |-> attrs, status |-> s, ok |-> ok])
    BY <1>1 DEF Publish
  <2>2. [type |-> type, attrs |-> attrs, status |-> s, ok |-> ok] \in Event
    BY DEF Event
  <2>3. UNCHANGED <<row, jobVars, settled, dlq, envVars, pastVars>>
    BY <1>1 DEF Publish
  <2>4. QED BY <2>1, <2>2, <2>3 DEF TypeOK, Published
<1>2. CASE SettingCreates
  BY <1>1, <1>2, StatusTypeEffect DEF SettingCreates, Published, TypeOK
<1>3. CASE SettingUpdates
  BY <1>1, <1>3, StatusTypeEffect DEF SettingUpdates, Published, TypeOK
<1>4. CASE SettingChangesStatus
  <2>1. PICK type \in StatusTypes : Publish(type, hist[Len(hist)].attrs, Handler[type])
    BY <1>4 DEF SettingChangesStatus
  <2>2. hist[Len(hist)] \in Event
    BY <1>4 DEF SettingChangesStatus, TypeOK
  <2>3. type \in EventTypes /\ hist[Len(hist)].attrs \in Nat /\ Handler[type] \in Statuses
    BY <2>2, StatusTypeEffect DEF Event, StatusTypes
  <2>4. QED BY <1>1, <2>1, <2>3 DEF Published, TypeOK
<1>5. QED BY <1>2, <1>3, <1>4 DEF Setting

(* A handler invocation that begins, of a published event or of none, keeps *)
(* the replicas' variables typed.                                           *)
LEMMA BeginKeepsType ==
  ASSUME TypeInv, hist' = hist, NEW w \in Workers,
         NEW label \in Labels, NEW v \in Nat, NEW failed \in 0 .. FailedCount - 1,
         NEW owned \in BOOLEAN,
         Begin(w, label, v, failed, owned),
         label # "idle" => v \in Published
  PROVE  JobsTyped' /\ HandlesPublished'
<1>1. JobsTyped'
  BY AbsentIsRow DEF Begin, Goto, TypeInv, TypeOK, JobsTyped, Labels
<1>2. HandlesPublished'
  BY DEF Begin, Goto, TypeInv, TypeOK, HandlesPublished, Published, Labels
<1>3. QED BY <1>1, <1>2

LEMMA FinishKeepsType ==
  ASSUME TypeInv, hist' = hist, NEW w \in Workers, Finish(w)
  PROVE  JobsTyped' /\ HandlesPublished'
BY BeginKeepsType, "idle" \in Labels, 0 \in 0 .. FailedCount - 1 DEF Finish, Labels

(* A step inside a handler moves pc and leaves the handled event alone.     *)
LEMMA GotoKeepsType ==
  ASSUME TypeInv, hist' = hist, NEW w \in Workers, pc[w] # "idle",
         NEW label \in Labels, Goto(w, label), UNCHANGED held
  PROVE  /\ pc' \in [Workers -> Labels]
         /\ event' \in [Workers -> Nat]
         /\ HandlesPublished'
BY DEF Goto, TypeInv, TypeOK, HandlesPublished, Published, Labels, held

(* A throwing handler is retried from its start or given up.                *)
LEMMA ThrowKeepsType ==
  ASSUME TypeInv, NEW w \in Workers, pc[w] # "idle", HandlerThrows(w), hist' = hist
  PROVE  /\ JobsTyped'
         /\ settled' \subseteq Published
         /\ dlq' \subseteq Published
         /\ HandlesPublished'
<1>1. event[w] \in Published /\ event[w] \in Nat /\ tries[w] \in Nat /\ assigned[w] \in BOOLEAN
  BY DEF TypeInv, TypeOK, HandlesPublished
<1>2. CASE tries[w] + 1 < FailedCount
  <2>1. tries[w] + 1 \in 0 .. FailedCount - 1 /\ "check" \in Labels
    BY <1>1, <1>2 DEF Labels
  <2>2. Restart(w) /\ UNCHANGED <<settled, dlq>>
    BY <1>2 DEF HandlerThrows
  <2>3. JobsTyped' /\ HandlesPublished'
    BY <1>1, <2>1, <2>2, BeginKeepsType DEF Restart
  <2>4. QED BY <2>2, <2>3 DEF TypeInv, TypeOK
<1>3. CASE ~(tries[w] + 1 < FailedCount)
  <2>1. Finish(w)
    BY <1>3 DEF HandlerThrows
  <2>2. dlq' = dlq \cup {event[w]} /\ settled' \subseteq settled \cup {event[w]}
    BY <1>3 DEF HandlerThrows
  <2>3. QED BY <1>1, <2>1, <2>2, FinishKeepsType DEF TypeInv, TypeOK
<1>4. QED BY <1>2, <1>3

LEMMA InitTypeInv == Init => TypeInv
<1> SUFFICES ASSUME Init PROVE TypeInv
  OBVIOUS
<1>1. torn \in BOOLEAN
  BY Zenon DEF Init
<1>2. overtaken \subseteq Workers /\ peak \in Nat
  BY DEF Init
<1>3. /\ hist \in Seq(Event) /\ row \in Row
      /\ pc \in [Workers -> {"idle", "check", "reread", "load", "write", "ack"}]
      /\ event \in [Workers -> Nat]
      /\ entity \in [Workers -> Row] /\ loaded \in [Workers -> Row]
      /\ tries \in [Workers -> 0 .. FailedCount - 1]
      /\ settled \subseteq Published /\ dlq \subseteq Published
      /\ faults \in 0 .. MaxFaults /\ crashes \in 0 .. MaxCrashes
      /\ rebalances \in 0 .. MaxRebalances
      /\ HandlesPublished
  BY AbsentIsRow DEF Init, HandlesPublished
<1>4. assigned \in [Workers -> BOOLEAN]
  BY DEF Init
<1>5. QED BY <1>1, <1>2, <1>3, <1>4 DEF TypeInv, TypeOK

LEMMA TypeInvStep == TypeInv /\ [Next]_vars => TypeInv'
<1> SUFFICES ASSUME TypeInv, [Next]_vars PROVE TypeInv'
  OBVIOUS
<1> USE DEF envVars, jobVars, pastVars
<1>1. CASE Setting
  <2>1. Published \subseteq Published'
    BY <1>1, PublishAppends DEF TypeInv
  <2>2. QED BY <1>1, <2>1, PublishAppends DEF TypeInv, TypeOK, HandlesPublished
<1>2. ASSUME NEW w \in Workers, Handle(w) \/ Disturb(w)
      PROVE  TypeInv'
  <2>0. hist' = hist
    BY <1>2 DEF Handle, Disturb, Deliver, StaleCheck, UpsertProjection, UpdateStatus,
        SaveLoads, SaveWrites, InsertFails, Ack, DatabaseFault, Crash, Rebalance
  <2>a. Published' = Published
    BY <2>0 DEF Published
  <2>1. CASE Deliver(w)
    <3>1. PICK v \in Published : Start(w, v)
      BY <2>1 DEF Deliver
    <3>2. v \in Nat /\ "check" \in Labels /\ 0 \in 0 .. FailedCount - 1
      BY DEF Published, Labels
    <3>3. JobsTyped' /\ HandlesPublished'
      BY <2>0, <3>1, <3>2, BeginKeepsType DEF Start
    <3>4. QED BY <2>0, <2>a, <2>1, <3>3 DEF Deliver, TypeInv, TypeOK, JobsTyped, Labels
  <2>2. CASE StaleCheck(w)
    <3>1. Return(w) \/ Proceed(w)
      BY <2>2 DEF StaleCheck
    <3>2. QED BY <2>0, <2>a, <2>2, <3>1, GotoKeepsType
              DEF StaleCheck, Return, Proceed, held, Labels, TypeInv, TypeOK
  <2>3. CASE UpsertProjection(w)
    <3>1. Payload(event[w]) \in Row
      BY <2>3, PayloadIsRow DEF UpsertProjection, TypeInv, HandlesPublished
    <3>2. QED BY <2>0, <2>a, <2>3, <3>1, GotoKeepsType
              DEF UpsertProjection, Save, held, Labels, TypeInv, TypeOK
  <2>4. CASE UpdateStatus(w)
    <3> DEFINE e == [row EXCEPT !.status = Effect(event[w]), !.version = event[w]]
    <3>1. e \in Row
      BY <2>4, PayloadIsRow DEF UpdateStatus, TypeInv, TypeOK, HandlesPublished, Row
    <3>2. Return(w) \/ Save(w, e)
      BY <2>4 DEF UpdateStatus
    <3> HIDE DEF e
    <3>3. QED BY <2>0, <2>a, <2>4, <3>1, <3>2, GotoKeepsType
              DEF UpdateStatus, Save, Return, held, Labels, TypeInv, TypeOK
  <2>5. CASE SaveLoads(w)
    BY <2>0, <2>a, <2>5 DEF SaveLoads, Goto, TypeInv, TypeOK, HandlesPublished
  <2>6. CASE SaveWrites(w)
    <3>1. Saved(entity[w], loaded[w], row) \in Row
      BY <1>2 DEF Saved, TypeInv, TypeOK, Row
    <3>2. overtaken' \subseteq Workers /\ peak' \in Nat /\ torn' \in BOOLEAN
      <4>1. CASE row' = row
        BY <2>6, <4>1 DEF SaveWrites, Remember, TypeInv, TypeOK
      <4>2. CASE row' # row
        <5>1. row'.version \in Nat
          BY <2>6, <3>1 DEF SaveWrites, Row
        <5>2. overtaken' \subseteq Workers /\ peak' \in Nat
          BY <2>6, <4>2, <5>1 DEF SaveWrites, Remember, TypeInv, TypeOK
        <5>3. torn' \in BOOLEAN
          BY <2>6, <4>2 DEF SaveWrites, Remember, TypeInv, TypeOK
        <5>4. QED BY <5>2, <5>3
      <4>3. QED BY <4>1, <4>2
    <3>3. QED BY <2>0, <2>a, <2>6, <3>1, <3>2, GotoKeepsType
              DEF SaveWrites, Return, held, Labels, TypeInv, TypeOK
  <2>7. CASE InsertFails(w)
    BY <2>0, <2>a, <2>7, ThrowKeepsType
       DEF InsertFails, InsertConflict, TypeInv, TypeOK, JobsTyped, Labels
  <2>8. CASE Ack(w)
    BY <2>0, <2>a, <2>8, FinishKeepsType
       DEF Ack, TypeInv, TypeOK, HandlesPublished, JobsTyped, Labels
  <2>9. CASE DatabaseFault(w)
    BY <2>0, <2>a, <2>9, ThrowKeepsType
       DEF DatabaseFault, TypeInv, TypeOK, JobsTyped, Labels
  <2>10. CASE Crash(w)
    BY <2>0, <2>a, <2>10, FinishKeepsType
       DEF Crash, TypeInv, TypeOK, JobsTyped, Labels
  <2>11. CASE Rebalance(w)
    BY <2>0, <2>a, <2>11 DEF Rebalance, TypeInv, TypeOK, HandlesPublished
  <2>12. QED BY <1>2, <2>1, <2>2, <2>3, <2>4, <2>5, <2>6, <2>7, <2>8, <2>9, <2>10, <2>11
             DEF Handle, Disturb
<1>3. CASE UNCHANGED vars
  BY <1>3 DEF vars, TypeInv, TypeOK, HandlesPublished, Published
<1>4. QED BY <1>1, <1>2, <1>3 DEF Next

LEMMA TypeInvHolds == Spec => []TypeInv
BY InitTypeInv, TypeInvStep, PTL DEF Spec

(* Every variable keeps its type, for any number of replicas and any faults. *)
THEOREM TypeCorrect == Spec => []TypeOK
BY TypeInvHolds, PTL DEF TypeInv

-----------------------------------------------------------------------------
(* A status event carries the status its handler writes.                    *)
StatusEventsAgree ==
    \A v \in Published : Effect(v) # Upsert => hist[v].status = Effect(v)

(* Setting publishes status events with the status their handler sets.      *)
LEMMA PublishAgrees ==
  ASSUME TypeInv, StatusEventsAgree, Setting
  PROVE  StatusEventsAgree'
<1>1. /\ hist' \in Seq(Event) /\ Len(hist') = Len(hist) + 1
      /\ \A v \in Published : hist'[v] = hist[v]
  BY PublishAppends DEF TypeInv
<1>2. ASSUME NEW type, NEW attrs, NEW s, Publish(type, attrs, s),
             Handler[type] # Upsert => s = Handler[type]
      PROVE  LET e == hist'[Len(hist) + 1] IN
             Handler[e.type] # Upsert => e.status = Handler[e.type]
  <2>1. PICK ok \in Envelopes :
          hist' = Append(hist, [type |-> type, attrs |-> attrs, status |-> s, ok |-> ok])
    BY <1>2 DEF Publish
  <2>2. hist'[Len(hist) + 1] = [type |-> type, attrs |-> attrs, status |-> s, ok |-> ok]
    BY <2>1 DEF TypeInv, TypeOK
  <2>3. QED BY <1>2, <2>2
<1>3. LET e == hist'[Len(hist) + 1] IN
      Handler[e.type] # Upsert => e.status = Handler[e.type]
  BY <1>2, StatusTypeEffect DEF Setting, SettingCreates, SettingUpdates, SettingChangesStatus
<1>4. Published' = Published \cup {Len(hist) + 1}
  BY <1>1 DEF Published, TypeInv, TypeOK
<1>5. QED BY <1>1, <1>3, <1>4 DEF StatusEventsAgree, Effect

-----------------------------------------------------------------------------
(* What the steps of one replica do to its own handler and to the shared    *)
(* state, one replica at a time instead of one function at a time.          *)

OthersKept(w) ==
    \A u \in Workers \ {w} :
        /\ pc'[u] = pc[u] /\ event'[u] = event[u] /\ tries'[u] = tries[u]
        /\ assigned'[u] = assigned[u]
        /\ entity'[u] = entity[u] /\ loaded'[u] = loaded[u]

SameMessage(w) ==
    event'[w] = event[w] /\ tries'[w] = tries[w] /\ assigned'[w] = assigned[w]

Quiet == UNCHANGED <<row, settled, dlq, envVars>>

Unseen == UNCHANGED pastVars

Forgets(w) == overtaken' = overtaken \ {w} /\ UNCHANGED <<peak, torn>>

Commits(w) ==
    settled' = IF assigned[w] THEN settled \cup {event[w]} ELSE settled

Ends(w) == pc'[w] = "idle" /\ event'[w] = 0 /\ tries'[w] = 0 /\ assigned'[w] = TRUE

Starts(w) ==
    /\ Forgets(w)
    /\ pc[w] = "idle" /\ pc'[w] = "check" /\ Quiet
    /\ event'[w] \in Published /\ IsHead(event'[w])
    /\ \A u \in Workers : assigned[u] => event[u] # event'[w]
    /\ tries'[w] = 0 /\ assigned'[w] = TRUE

Skips(w) ==
    /\ Unseen
    /\ pc[w] = "check" /\ pc'[w] = "ack" /\ SameMessage(w) /\ Quiet
    /\ ~hist[event[w]].ok \/ Stale(event[w])

Passes(w) ==
    /\ Unseen
    /\ pc[w] = "check" /\ pc'[w] = "reread" /\ SameMessage(w) /\ Quiet
    /\ hist[event[w]].ok /\ ~Stale(event[w])

FindsNoRow(w) ==
    /\ Unseen
    /\ pc[w] = "reread" /\ pc'[w] = "ack" /\ SameMessage(w) /\ Quiet
    /\ Effect(event[w]) # Upsert /\ ~Exists(row)

SavesPayload(w) ==
    /\ Unseen
    /\ pc[w] = "reread" /\ pc'[w] = "load" /\ SameMessage(w) /\ Quiet
    /\ Effect(event[w]) = Upsert
    /\ entity'[w] = Payload(event[w])

SavesStatus(w) ==
    /\ Unseen
    /\ pc[w] = "reread" /\ pc'[w] = "load" /\ SameMessage(w) /\ Quiet
    /\ Effect(event[w]) # Upsert /\ Exists(row)
    /\ entity'[w].attrs = row.attrs /\ entity'[w].status = Effect(event[w])
    /\ entity'[w].version = event[w]

Loads(w) ==
    /\ Unseen
    /\ pc[w] = "load" /\ pc'[w] = "write" /\ SameMessage(w) /\ Quiet
    /\ entity'[w] = entity[w] /\ loaded'[w] = row

Writes(w) ==
    /\ Remember(w)
    /\ pc[w] = "write" /\ pc'[w] = "ack" /\ SameMessage(w)
    /\ ~InsertConflict(w)
    /\ row' = Saved(entity[w], loaded[w], row)
    /\ UNCHANGED <<settled, dlq, envVars>>

Acks(w) ==
    /\ Forgets(w)
    /\ pc[w] = "ack" /\ Ends(w) /\ Commits(w)
    /\ UNCHANGED <<row, dlq, envVars>>

Throws(w) ==
    /\ Forgets(w)
    /\ pc[w] \in {"check", "reread", "load", "write"}
    /\ UNCHANGED <<row, rebalances>>
    /\ \/ InsertConflict(w) /\ UNCHANGED faults
       \/ faults < MaxFaults /\ faults' = faults + 1
    /\ \/ /\ tries[w] + 1 < FailedCount
          /\ pc'[w] = "check" /\ tries'[w] = tries[w] + 1
          /\ event'[w] = event[w] /\ assigned'[w] = assigned[w]
          /\ UNCHANGED <<settled, dlq>>
       \/ /\ tries[w] + 1 >= FailedCount
          /\ Ends(w) /\ dlq' = dlq \cup {event[w]} /\ Commits(w)

Dies(w) ==
    /\ Forgets(w)
    /\ pc[w] # "idle" /\ Ends(w)
    /\ UNCHANGED <<row, settled, dlq, faults, rebalances>>

LosesPartition(w) ==
    /\ Unseen
    /\ pc[w] # "idle" /\ pc'[w] = pc[w]
    /\ event'[w] = event[w] /\ tries'[w] = tries[w]
    /\ entity'[w] = entity[w] /\ loaded'[w] = loaded[w]
    /\ rebalances < MaxRebalances /\ rebalances' = rebalances + 1
    /\ UNCHANGED <<row, settled, dlq, faults>>

(* Every step of a replica is one of these, and leaves the others alone.    *)
LEMMA Moves ==
  ASSUME TypeInv, NEW w \in Workers, Handle(w) \/ Disturb(w)
  PROVE  /\ hist' = hist
         /\ OthersKept(w)
         /\ \/ Starts(w) \/ Skips(w) \/ Passes(w) \/ FindsNoRow(w)
            \/ SavesPayload(w) \/ SavesStatus(w) \/ Loads(w) \/ Writes(w)
            \/ Acks(w) \/ Throws(w) \/ Dies(w) \/ LosesPartition(w)
<1> USE DEF envVars, jobVars, pastVars, held, Goto, Unseen, Forgets
<1>1. /\ pc \in [Workers -> Labels] /\ event \in [Workers -> Nat]
      /\ entity \in [Workers -> Row] /\ loaded \in [Workers -> Row]
      /\ tries \in [Workers -> 0 .. FailedCount - 1]
      /\ assigned \in [Workers -> BOOLEAN]
      /\ row \in Row
  BY DEF TypeInv, TypeOK, Labels
<1>2. ASSUME NEW label, NEW v, NEW failed, NEW owned, Begin(w, label, v, failed, owned)
      PROVE  /\ OthersKept(w) /\ pc'[w] = label /\ event'[w] = v
             /\ tries'[w] = failed /\ assigned'[w] = owned /\ Forgets(w)
  BY <1>1, <1>2 DEF Begin, OthersKept
<1>3. ASSUME Finish(w)
      PROVE  OthersKept(w) /\ Ends(w) /\ Forgets(w)
  BY <1>1, <1>3 DEF Finish, Begin, OthersKept, Ends
<1>4. ASSUME NEW label, Goto(w, label), UNCHANGED held, UNCHANGED entity
      PROVE  /\ OthersKept(w) /\ SameMessage(w) /\ pc'[w] = label
  BY <1>1, <1>4 DEF OthersKept, SameMessage
<1>5. ASSUME NEW e, Save(w, e)
      PROVE  /\ OthersKept(w) /\ SameMessage(w) /\ pc'[w] = "load"
             /\ entity'[w] = e
  BY <1>1, <1>5 DEF OthersKept, SameMessage, Save
<1>6. ASSUME HandlerThrows(w)
      PROVE  /\ OthersKept(w) /\ Forgets(w)
             /\ \/ /\ tries[w] + 1 < FailedCount
                   /\ pc'[w] = "check" /\ tries'[w] = tries[w] + 1
                   /\ event'[w] = event[w] /\ assigned'[w] = assigned[w]
                   /\ UNCHANGED <<settled, dlq>>
                \/ /\ tries[w] + 1 >= FailedCount
                   /\ Ends(w) /\ dlq' = dlq \cup {event[w]} /\ Commits(w)
  <2>1. CASE tries[w] + 1 < FailedCount
    BY <1>2, <1>6, <2>1 DEF HandlerThrows, Restart
  <2>2. CASE ~(tries[w] + 1 < FailedCount)
    <3>1. tries[w] + 1 >= FailedCount
      BY <1>1, <2>2
    <3>2. QED BY <1>3, <1>6, <2>2, <3>1 DEF HandlerThrows, Commits
  <2>3. QED BY <2>1, <2>2
<1>7. CASE Deliver(w)
  <2>1. PICK v \in Published :
          /\ IsHead(v) /\ Start(w, v)
          /\ \A u \in Workers : assigned[u] => event[u] # v
    BY <1>7 DEF Deliver
  <2>2. OthersKept(w) /\ pc'[w] = "check" /\ event'[w] = v /\ tries'[w] = 0
        /\ assigned'[w] = TRUE /\ Forgets(w)
    BY <1>2, <2>1 DEF Start
  <2>3. Starts(w)
    BY <1>7, <2>1, <2>2 DEF Deliver, Starts, Quiet
  <2>4. QED BY <1>7, <2>2, <2>3 DEF Deliver
<1>8. CASE StaleCheck(w)
  <2>1. CASE ~hist[event[w]].ok \/ Stale(event[w])
    BY <1>4, <1>8, <2>1 DEF StaleCheck, Return, Skips, Quiet
  <2>2. CASE ~(~hist[event[w]].ok \/ Stale(event[w]))
    BY <1>4, <1>8, <2>2 DEF StaleCheck, Proceed, Passes, Quiet
  <2>3. QED BY <2>1, <2>2
<1>9. CASE UpsertProjection(w)
  BY <1>5, <1>9 DEF UpsertProjection, SavesPayload, Quiet
<1>10. CASE UpdateStatus(w)
  <2>1. CASE Exists(row)
    <3> DEFINE e == [row EXCEPT !.status = Effect(event[w]), !.version = event[w]]
    <3>1. e.attrs = row.attrs /\ e.status = Effect(event[w]) /\ e.version = event[w]
      BY <1>1 DEF Row
    <3>2. Save(w, e)
      BY <1>10, <2>1 DEF UpdateStatus
    <3> HIDE DEF e
    <3>3. QED BY <1>5, <1>10, <2>1, <3>1, <3>2 DEF UpdateStatus, SavesStatus, Quiet
  <2>2. CASE ~Exists(row)
    BY <1>4, <1>10, <2>2 DEF UpdateStatus, Return, FindsNoRow, Quiet
  <2>3. QED BY <2>1, <2>2
<1>11. CASE SaveLoads(w)
  BY <1>1, <1>11 DEF SaveLoads, Loads, SameMessage, OthersKept, Quiet
<1>12. CASE SaveWrites(w)
  BY <1>4, <1>12 DEF SaveWrites, Return, Writes
<1>13. CASE InsertFails(w)
  BY <1>6, <1>13 DEF InsertFails, InsertConflict, Throws
<1>14. CASE Ack(w)
  BY <1>3, <1>14 DEF Ack, Acks, Commits
<1>15. CASE DatabaseFault(w)
  BY <1>6, <1>15 DEF DatabaseFault, Throws
<1>16. CASE Crash(w)
  BY <1>3, <1>16 DEF Crash, Dies
<1>17. CASE Rebalance(w)
  BY <1>1, <1>17 DEF Rebalance, LosesPartition, OthersKept
<1>18. QED BY <1>7, <1>8, <1>9, <1>10, <1>11, <1>12, <1>13, <1>14, <1>15, <1>16, <1>17
           DEF Handle, Disturb

-----------------------------------------------------------------------------
(* Only created and updated events change the attributes, which are named   *)
(* by the version that changed them: they never get older.                  *)
AttrsAge ==
    \A v \in Published :
        /\ hist[v].attrs \in 1 .. v
        /\ IF Effect(v) = Upsert THEN hist[v].attrs = v
           ELSE v > 1 /\ hist[v].attrs = hist[v - 1].attrs
        /\ \A u \in 1 .. v : hist[u].attrs <= hist[v].attrs

LEMMA PublishAges ==
  ASSUME TypeInv, AttrsAge, Setting
  PROVE  AttrsAge'
<1> DEFINE n == Len(hist) + 1
<1>1. /\ hist' \in Seq(Event) /\ Len(hist') = n
      /\ \A v \in Published : hist'[v] = hist[v]
      /\ Len(hist) \in Nat /\ Published = 1 .. Len(hist)
  BY PublishAppends DEF TypeInv, TypeOK, Published
<1>2. ASSUME NEW type, NEW attrs, NEW s, Publish(type, attrs, s)
      PROVE  hist'[n].type = type /\ hist'[n].attrs = attrs
  <2>1. PICK ok \in Envelopes :
          hist' = Append(hist, [type |-> type, attrs |-> attrs, status |-> s, ok |-> ok])
    BY <1>2 DEF Publish
  <2>2. hist'[n] = [type |-> type, attrs |-> attrs, status |-> s, ok |-> ok]
    BY <2>1 DEF TypeInv, TypeOK
  <2>3. QED BY <2>2
<1>3. IF Handler[hist'[n].type] = Upsert THEN hist'[n].attrs = n
      ELSE n > 1 /\ hist'[n].attrs = hist[n - 1].attrs
  <2>1. CASE SettingCreates
    <3>1. n = 1
      BY <2>1 DEF SettingCreates
    <3>2. QED BY <1>2, <2>1, <3>1, StatusTypeEffect DEF SettingCreates
  <2>2. CASE SettingUpdates
    BY <1>2, <2>2, StatusTypeEffect DEF SettingUpdates
  <2>3. CASE SettingChangesStatus
    <3>1. n > 1 /\ n - 1 = Len(hist)
      BY <1>1, <2>3 DEF SettingChangesStatus, TypeInv, TypeOK
    <3>2. PICK type \in StatusTypes : Publish(type, hist[Len(hist)].attrs, Handler[type])
      BY <2>3 DEF SettingChangesStatus
    <3>3. Handler[type] # Upsert
      BY StatusTypeEffect DEF Upsert
    <3>4. QED BY <1>2, <3>1, <3>2, <3>3
  <2>4. QED BY <2>1, <2>2, <2>3 DEF Setting
<1>4. \A v \in Published :
        /\ v \in 1 .. Len(hist) /\ hist[v].attrs \in 1 .. v
        /\ \A u \in 1 .. v : u \in Published /\ hist[u].attrs <= hist[v].attrs
  BY <1>1 DEF AttrsAge
<1> HIDE DEF n
<1>5. /\ hist'[n].attrs \in 1 .. n
      /\ \A u \in 1 .. n : hist'[u].attrs <= hist'[n].attrs
  <2>0. n \in Nat \ {0} /\ n = Len(hist) + 1
    BY <1>1 DEF n
  <2>1. CASE hist'[n].attrs = n
    <3>1. ASSUME NEW u \in 1 .. n PROVE hist'[u].attrs <= n
      <4>1. CASE u = n
        BY <2>0, <2>1, <4>1
      <4>2. CASE u # n
        <5>1. u \in Published /\ u \in 1 .. n
          BY <1>1, <2>0, <4>2
        <5>2. hist'[u] = hist[u] /\ hist[u].attrs \in 1 .. u
          BY <1>1, <1>4, <5>1
        <5>3. QED BY <2>0, <5>1, <5>2
      <4>3. QED BY <4>1, <4>2
    <3>2. QED BY <2>0, <2>1, <3>1
  <2>2. CASE n > 1 /\ hist'[n].attrs = hist[n - 1].attrs
    <3>1. n - 1 \in Published /\ n - 1 = Len(hist)
      BY <1>1, <2>0, <2>2
    <3>2. hist[n - 1].attrs \in 1 .. n - 1
      BY <1>4, <3>1
    <3>3. ASSUME NEW u \in 1 .. n PROVE hist'[u].attrs <= hist'[n].attrs
      <4>1. CASE u = n
        BY <2>2, <3>2, <4>1
      <4>2. CASE u # n
        <5>1. u \in 1 .. n - 1 /\ u \in Published
          BY <1>1, <2>0, <4>2
        <5>2. QED BY <1>1, <1>4, <2>2, <3>1, <5>1
      <4>3. QED BY <4>1, <4>2
    <3>4. QED BY <2>0, <2>2, <3>2, <3>3
  <2>3. QED BY <1>3, <2>1, <2>2
<1>6. ASSUME NEW v \in Published'
      PROVE  /\ hist'[v].attrs \in 1 .. v
             /\ IF Handler[hist'[v].type] = Upsert THEN hist'[v].attrs = v
                ELSE v > 1 /\ hist'[v].attrs = hist'[v - 1].attrs
             /\ \A u \in 1 .. v : hist'[u].attrs <= hist'[v].attrs
  <2>1. v \in 1 .. n /\ n = Len(hist) + 1
    BY <1>1 DEF Published, n
  <2>2. CASE v = n
    <3>1. n > 1 => n - 1 \in Published
      BY <1>1, <2>1
    <3>2. QED BY <1>1, <1>3, <1>5, <2>2, <3>1
  <2>3. CASE v # n
    <3>1. v \in Published
      BY <1>1, <2>1, <2>3
    <3>2. /\ hist'[v] = hist[v] /\ \A u \in 1 .. v : hist'[u] = hist[u]
          /\ v > 1 => v - 1 \in 1 .. v
      BY <1>1, <1>4, <3>1
    <3>3. QED BY <3>1, <3>2 DEF AttrsAge, Effect
  <2>4. QED BY <2>2, <2>3
<1>7. QED BY <1>6 DEF AttrsAge, Effect

-----------------------------------------------------------------------------
(* A save() computed against the current row leaves exactly the entity.     *)
LEMMA FreshSave ==
  ASSUME NEW new \in Row, NEW r \in Row, new.version # r.version
  PROVE  Saved(new, r, r) = new
<1>1. "version" \in Changed(new, r)
  BY DEF Changed
<1>2. /\ "attrs" \notin Changed(new, r) => r.attrs = new.attrs
      /\ "status" \notin Changed(new, r) => r.status = new.status
  BY DEF Changed
<1>3. Saved(new, r, r) = [attrs |-> new.attrs, status |-> new.status, version |-> new.version]
  BY <1>1, <1>2 DEF Saved
<1>4. QED BY <1>3 DEF Row
=============================================================================
