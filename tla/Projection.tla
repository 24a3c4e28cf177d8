----------------------------- MODULE Projection -----------------------------
(***************************************************************************)
(* The provisioning module: a read projection of ONE master-data entity    *)
(* (a company, department, location, grade or job title), kept by Kafka    *)
(* event handlers that run in the service's replicas.                      *)
(*                                                                         *)
(* Every query of a handler names the entity by payload.id and the tenant, *)
(* so entities do not interact and one is enough.  A handler is four       *)
(* awaited database operations with no transaction and no lock around      *)
(* them: the stale check, the repository's own re-read, and the SELECT and *)
(* the INSERT or UPDATE that TypeORM's save() consists of.                 *)
(***************************************************************************)
EXTENDS Integers, Sequences

CONSTANTS
    Workers,        \* the replicas; each handles one message at a time
    Kind,           \* which of the five handlers (DOMAIN Handlers)
    Statuses,       \* the status values Setting may give the entity
    Envelopes,      \* {TRUE}, or BOOLEAN if some lack a payload or tenantCode
    FailedCount,    \* failed attempts after which a message is dead-lettered
    MaxVersion,     \* bound: versions Setting publishes
    MaxFaults,      \* bound: transient database errors
    MaxCrashes,     \* bound: replicas that die inside a handler
    MaxRebalances   \* bound: partitions taken away inside a handler

VARIABLES
    hist,       \* hist[v] is the event Setting published for version v
    row,        \* the projection's row; version 0 when there is none
    pc,         \* where each replica is in its handler
    event,      \* the version of the message it handles
    entity,     \* what it passes to save()
    loaded,     \* the row save() selected
    tries,      \* how often this message has failed in it
    assigned,   \* FALSE once its partition was given to another replica
    settled,    \* versions whose offset has been committed
    dlq,        \* versions routed to the dead-letter queue
    faults, crashes, rebalances

\* History: what the properties remember of the writes.  No guard reads it.
VARIABLES
    overtaken,  \* replicas in whose handler, after its stale check, another
                \* replica has changed the row
    peak,       \* the highest version the row has shown
    torn        \* an overtaken handler has changed the row, and no upsert of
                \* a version beyond the peak has replaced it since

jobVars == <<pc, event, entity, loaded, tries, assigned>>
envVars == <<faults, crashes, rebalances>>
pastVars == <<overtaken, peak, torn>>
vars == <<hist, row, jobVars, settled, dlq, envVars, pastVars>>

-----------------------------------------------------------------------------
(* What each handler class does with each event type it subscribes to.     *)

Upsert == "upsert"

CompanyHandler ==
    [created |-> Upsert, updated |-> Upsert, activated |-> "ACTIVE"]
DepartmentHandler ==
    [created |-> Upsert, updated |-> Upsert, deactivated |-> "INACTIVE"]
LocationHandler ==
    [created |-> Upsert, updated |-> Upsert, deactivated |-> "INACTIVE"]
GradeHandler ==
    [created |-> Upsert, updated |-> Upsert, deactivated |-> "INACTIVE"]
JobTitleHandler ==
    [created |-> Upsert, updated |-> Upsert, deactivated |-> "INACTIVE"]

Handlers ==
    [company |-> CompanyHandler, department |-> DepartmentHandler,
     location |-> LocationHandler, grade |-> GradeHandler,
     jobTitle |-> JobTitleHandler]

Handler == Handlers[Kind]
EventTypes == DOMAIN Handler
StatusTypes == EventTypes \ {"created", "updated"}

\* The value updateStatus() writes for a status event, Upsert for the others.
Effect(v) == Handler[hist[v].type]

ASSUME KindAssumption == Kind \in DOMAIN Handlers
ASSUME StatusAssumption == {"ACTIVE", "INACTIVE"} \subseteq Statuses
ASSUME EnvelopeAssumption == Envelopes \subseteq BOOLEAN
ASSUME BoundAssumption ==
    /\ FailedCount \in Nat \ {0}
    /\ MaxVersion \in Nat
    /\ MaxFaults \in Nat
    /\ MaxCrashes \in Nat
    /\ MaxRebalances \in Nat

-----------------------------------------------------------------------------
NoStatus == "none"

\* The columns of a row: every attribute but status and version is one value,
\* named by the version that last changed it.
Row == [attrs : Nat, status : Statuses \cup {NoStatus}, version : Nat]
Absent == [attrs |-> 0, status |-> NoStatus, version |-> 0]
Exists(r) == r.version > 0

Event == [type : EventTypes, attrs : Nat, status : Statuses, ok : BOOLEAN]

\* The payload extends the entity: it is the full state at that version.
Payload(v) ==
    [attrs |-> hist[v].attrs, status |-> hist[v].status, version |-> v]

Published == 1 .. Len(hist)

\* Every event type is a topic of its own.
Topic(v) == hist[v].type

\* The next message of its topic: offsets are committed in order.
IsHead(v) ==
    /\ v \in Published \ settled
    /\ \A u \in Published \ settled : Topic(u) = Topic(v) => v <= u

Init ==
    /\ hist = <<>>
    /\ row = Absent
    /\ pc = [w \in Workers |-> "idle"]
    /\ event = [w \in Workers |-> 0]
    /\ entity = [w \in Workers |-> Absent]
    /\ loaded = [w \in Workers |-> Absent]
    /\ tries = [w \in Workers |-> 0]
    /\ assigned = [w \in Workers |-> TRUE]
    /\ settled = {}
    /\ dlq = {}
    /\ faults = 0
    /\ crashes = 0
    /\ rebalances = 0
    /\ overtaken = {}
    /\ peak = 0
    /\ torn = FALSE

-----------------------------------------------------------------------------
(* The Setting service (external): each change of the entity gets the next  *)
(* version and is published with the entity's full state.                   *)

Publish(type, attrs, status) ==
    /\ Len(hist) < MaxVersion
    /\ \E ok \in Envelopes :
        hist' = Append(hist, [type |-> type, attrs |-> attrs,
                              status |-> status, ok |-> ok])
    /\ UNCHANGED <<row, jobVars, settled, dlq, envVars, pastVars>>

SettingCreates ==
    /\ hist = <<>>
    /\ \E s \in Statuses : Publish("created", 1, s)

SettingUpdates ==
    /\ hist # <<>>
    /\ \E s \in Statuses : Publish("updated", Len(hist) + 1, s)

SettingChangesStatus ==
    /\ hist # <<>>
    /\ \E type \in StatusTypes :
        Publish(type, hist[Len(hist)].attrs, Handler[type])

-----------------------------------------------------------------------------
(* One replica handling one message.                                        *)

Goto(w, label) == pc' = [pc EXCEPT ![w] = label]

\* A handler invocation begins; before it, a replica holds nothing.
Begin(w, label, v, failed, owned) ==
    /\ Goto(w, label)
    /\ event' = [event EXCEPT ![w] = v]
    /\ entity' = [entity EXCEPT ![w] = Absent]
    /\ loaded' = [loaded EXCEPT ![w] = Absent]
    /\ tries' = [tries EXCEPT ![w] = failed]
    /\ assigned' = [assigned EXCEPT ![w] = owned]
    /\ overtaken' = overtaken \ {w}
    /\ UNCHANGED <<peak, torn>>

Start(w, v) == Begin(w, "check", v, 0, TRUE)
Restart(w) == Begin(w, "check", event[w], tries[w] + 1, assigned[w])
Finish(w) == Begin(w, "idle", 0, 0, TRUE)

DeliverToAll(w) ==    \* mutant: replicas share no consumer group
    /\ pc[w] = "idle"
    /\ \E v \in Published : IsHead(v) /\ Start(w, v)
    /\ UNCHANGED <<hist, row, settled, dlq, envVars>>

\* A replica takes the next message of a topic no other replica is assigned.
Deliver(w) ==
    /\ pc[w] = "idle"
    /\ \E v \in Published :
        /\ IsHead(v)
        /\ \A u \in Workers : assigned[u] => event[u] # v
        /\ Start(w, v)
    /\ UNCHANGED <<hist, row, settled, dlq, envVars>>

held == <<event, loaded, tries, assigned>>
Return(w) == Goto(w, "ack") /\ UNCHANGED <<held, entity>>
Proceed(w) == Goto(w, "reread") /\ UNCHANGED <<held, entity>>
Save(w, e) ==
    /\ Goto(w, "load")
    /\ entity' = [entity EXCEPT ![w] = e]
    /\ UNCHANGED held

\* A malformed envelope is dropped; a stale event is ignored; both count as
\* handled.  Any other event goes on to the repository.
StaleCheckDropped(v) == FALSE    \* mutant

Stale(v) == Exists(row) /\ row.version >= v

StaleCheck(w) ==
    LET v == event[w] IN
    /\ pc[w] = "check"
    /\ IF ~hist[v].ok \/ Stale(v) THEN Return(w) ELSE Proceed(w)
    /\ UNCHANGED <<hist, row, settled, dlq, envVars, pastVars>>

UpsertKeepsAttrs(w) ==    \* mutant: an upsert keeps old attributes
    /\ pc[w] = "reread"
    /\ Effect(event[w]) = Upsert
    /\ Save(w, [Payload(event[w]) EXCEPT
                    !.attrs = IF Exists(row) THEN row.attrs ELSE @])
    /\ UNCHANGED <<hist, row, settled, dlq, envVars, pastVars>>

\* upsertProjection: whether the re-read finds the row or not, what is saved
\* is the whole payload under the same id.
UpsertProjection(w) ==
    LET v == event[w] IN
    /\ pc[w] = "reread"
    /\ Effect(v) = Upsert
    /\ Save(w, Payload(v))
    /\ UNCHANGED <<hist, row, settled, dlq, envVars, pastVars>>

UpdateStatusForgetsStatus(w) ==    \* mutant: only the version is replaced
    /\ pc[w] = "reread"
    /\ Effect(event[w]) # Upsert
    /\ IF Exists(row)
       THEN Save(w, [row EXCEPT !.version = event[w]])
       ELSE Return(w)
    /\ UNCHANGED <<hist, row, settled, dlq, envVars, pastVars>>

UpdateStatusInserts(w) ==    \* mutant: no check for a missing row
    /\ pc[w] = "reread"
    /\ Effect(event[w]) # Upsert
    /\ Save(w, [row EXCEPT !.status = Effect(event[w]),
                           !.version = event[w]])
    /\ UNCHANGED <<hist, row, settled, dlq, envVars, pastVars>>

\* updateStatus: the re-read row, with status and version replaced; a missing
\* row ends the handler, which then counts as done.
UpdateStatus(w) ==
    LET v == event[w] IN
    /\ pc[w] = "reread"
    /\ Effect(v) # Upsert
    /\ IF Exists(row)
       THEN Save(w, [row EXCEPT !.status = Effect(v), !.version = v])
       ELSE Return(w)
    /\ UNCHANGED <<hist, row, settled, dlq, envVars, pastVars>>

\* save(), first half: the SELECT the change set is computed against.
SaveLoads(w) ==
    /\ pc[w] = "load"
    /\ Goto(w, "write")
    /\ loaded' = [loaded EXCEPT ![w] = row]
    /\ UNCHANGED <<hist, row, event, entity, tries, assigned,
                   settled, dlq, envVars, pastVars>>

\* save(), second half.  Only columns that differ from the loaded row are set;
\* the version column is incremented by SQL when some column is set but the
\* version is not.
Changed(new, old) == {f \in {"attrs", "status", "version"} : new[f] # old[f]}

Saved(new, old, current) ==
    LET set == Changed(new, old) IN
    [attrs   |-> IF "attrs" \in set THEN new.attrs ELSE current.attrs,
     status  |-> IF "status" \in set THEN new.status ELSE current.status,
     version |-> IF "version" \in set THEN new.version
                 ELSE IF set # {} THEN current.version + 1
                 ELSE current.version]

\* An INSERT meets a row that another replica inserted after the SELECT.
InsertConflict(w) ==
    /\ pc[w] = "write"
    /\ ~Exists(loaded[w])
    /\ Exists(row)

\* A write that changes the row overtakes the handlers that are past their
\* stale check; it tears the row if it was overtaken itself.
Checked(u) == pc[u] \in {"reread", "load", "write"}

Remember(w) ==
    LET replaces == Effect(event[w]) = Upsert /\ event[w] >= peak IN
    IF row' = row THEN UNCHANGED pastVars
    ELSE /\ overtaken' = overtaken \cup {u \in Workers \ {w} : Checked(u)}
         /\ peak' = IF row'.version > peak THEN row'.version ELSE peak
         /\ torn' = IF w \in overtaken THEN TRUE
                     ELSE IF replaces THEN FALSE ELSE torn

SaveWrites(w) ==
    /\ pc[w] = "write"
    /\ ~InsertConflict(w)
    /\ row' = Saved(entity[w], loaded[w], row)
    /\ Remember(w)
    /\ Return(w)
    /\ UNCHANGED <<hist, settled, dlq, envVars>>

\* The handler returned: its offset is committed, unless the partition has
\* been given to another replica meanwhile.
Ack(w) ==
    /\ pc[w] = "ack"
    /\ settled' = IF assigned[w] THEN settled \cup {event[w]} ELSE settled
    /\ Finish(w)
    /\ UNCHANGED <<hist, row, dlq, envVars>>

-----------------------------------------------------------------------------
(* What goes wrong around a handler.                                        *)

ThrowIsSwallowed(w) ==    \* mutant: an exception counts as handled
    /\ Finish(w)
    /\ settled' = settled \cup {event[w]}
    /\ UNCHANGED dlq

ThrowAlwaysRetries(w) ==    \* mutant: the retry budget is never spent
    /\ Restart(w)
    /\ UNCHANGED <<settled, dlq>>

\* The handler threw: it is run again from its start, or its message goes to
\* the dead-letter queue and the offset is committed.
HandlerThrows(w) ==
    IF tries[w] + 1 < FailedCount
    THEN /\ Restart(w)
         /\ UNCHANGED <<settled, dlq>>
    ELSE /\ Finish(w)
         /\ dlq' = dlq \cup {event[w]}
         /\ settled' = IF assigned[w] THEN settled \cup {event[w]} ELSE settled

InsertFails(w) ==
    /\ InsertConflict(w)
    /\ HandlerThrows(w)
    /\ UNCHANGED <<hist, row, envVars>>

DatabaseFault(w) ==
    /\ pc[w] \in {"check", "reread", "load", "write"}
    /\ faults < MaxFaults
    /\ faults' = faults + 1
    /\ HandlerThrows(w)
    /\ UNCHANGED <<hist, row, crashes, rebalances>>

\* The pod dies inside a handler: the offset was not committed.
Crash(w) ==
    /\ pc[w] # "idle"
    /\ crashes < MaxCrashes
    /\ crashes' = crashes + 1
    /\ Finish(w)
    /\ UNCHANGED <<hist, row, settled, dlq, faults, rebalances>>

\* The partition moves to another replica while the handler is still running.
Rebalance(w) ==
    /\ pc[w] # "idle"
    /\ assigned[w]
    /\ rebalances < MaxRebalances
    /\ rebalances' = rebalances + 1
    /\ assigned' = [assigned EXCEPT ![w] = FALSE]
    /\ UNCHANGED <<hist, row, pc, event, entity, loaded, tries,
                   settled, dlq, faults, crashes, pastVars>>

-----------------------------------------------------------------------------
Setting == SettingCreates \/ SettingUpdates \/ SettingChangesStatus

Handle(w) ==
    \/ Deliver(w)
    \/ StaleCheck(w)
    \/ UpsertProjection(w)
    \/ UpdateStatus(w)
    \/ SaveLoads(w)
    \/ SaveWrites(w)
    \/ InsertFails(w)
    \/ Ack(w)

Disturb(w) == DatabaseFault(w) \/ Crash(w) \/ Rebalance(w)

Next == Setting \/ \E w \in Workers : Handle(w) \/ Disturb(w)

Spec == Init /\ [][Next]_vars

\* The consumer loop of a live replica keeps polling and awaits each handler;
\* nothing obliges Setting to publish, or anything to fail.
Fairness == \A w \in Workers : WF_vars(Handle(w))
FairSpec == Spec /\ Fairness

-----------------------------------------------------------------------------
(* Properties *)

TypeOK ==
    /\ hist \in Seq(Event)
    /\ row \in Row
    /\ pc \in [Workers -> {"idle", "check", "reread", "load", "write", "ack"}]
    /\ event \in [Workers -> Nat]
    /\ entity \in [Workers -> Row]
    /\ loaded \in [Workers -> Row]
    /\ tries \in [Workers -> 0 .. FailedCount - 1]
    /\ assigned \in [Workers -> BOOLEAN]
    /\ settled \subseteq Published
    /\ dlq \subseteq Published
    /\ faults \in 0 .. MaxFaults
    /\ crashes \in 0 .. MaxCrashes
    /\ rebalances \in 0 .. MaxRebalances
    /\ overtaken \subseteq Workers
    /\ peak \in Nat
    /\ torn \in BOOLEAN

(* The row's version never goes back (FR-008 and SC-002 of specs/003: stale *)
(* deliveries cause no mutation).  Every handler checks it, but the check   *)
(* is three awaits before the write.                                        *)
VersionNeverRegresses == [][row'.version > row.version]_row

(* A write that does not raise the version is the write of a handler that   *)
(* another replica overtook between its stale check and its write: crashes, *)
(* retries, redeliveries and reordered topics alone never cause one.        *)
OnlyOvertakenWritesRegress ==
    [][row'.version > row.version \/ \E w \in overtaken : pc[w] = "write"]_row

(* Whatever earlier races have left in the row, an upsert that is not       *)
(* overtaken replaces it, column-wise UPDATE and all, by the state that was *)
(* published with its version.                                              *)
UpsertsRepair ==
    [][\A w \in Workers \ overtaken :
        pc[w] = "write" /\ pc'[w] = "ack" /\ Effect(event[w]) = Upsert
            => row' = Payload(event[w])]_row

(* Until an overtaken handler tears the row, in whatever order the topics   *)
(* deliver, it shows the status the entity had at the very version it       *)
(* claims, and it claims the highest version it has shown.                  *)
StatusMatchesVersion ==
    Exists(row) /\ ~torn => /\ row.version = peak
                            /\ row.version \in Published
                            /\ row.status = hist[row.version].status

(* The attributes may lag behind the claimed version only because a status  *)
(* event overtook an update (they are then those of an older version), or   *)
(* because the row is torn.                                                 *)
AttrsLagOnlyBehindStatusEvents ==
    Exists(row) /\ ~torn /\ row.attrs # hist[row.version].attrs
        => Effect(row.version) # Upsert /\ row.attrs < hist[row.version].attrs

(* An acknowledged event is reflected: once the handler of an upsert event  *)
(* has committed its offset the row has shown that version or a newer one,  *)
(* and still does unless it is torn, whatever crashed, was retried or was   *)
(* redelivered on the way.                                                  *)
SettledIsReflected ==
    \A v \in settled \ dlq :
        hist[v].ok /\ Effect(v) = Upsert => /\ peak >= v
                                            /\ row.version >= v \/ torn

Promise == INSTANCE VersionedReplica WITH
    states  <- [v \in Published |->
                   [attrs |-> hist[v].attrs, status |-> hist[v].status,
                    whole |-> Effect(v) = Upsert]],
    replica <- row

(* The handlers of any number of replicas, awaits, redeliveries and races   *)
(* included, implement the promise of VersionedReplica.                     *)
ImplementsPromise == Promise!Spec

(* A published event that a handler can apply (an upsert, or a status event *)
(* whose row is there) and that no handler has taken yet is eventually      *)
(* reflected, in that its version or a higher one has been shown, or else   *)
(* dead-lettered (SC-001): retries, redelivery after a crash and races      *)
(* leave no event behind.                                                   *)
Waiting(v) ==
    /\ v \in Published \ settled
    /\ hist[v].ok
    /\ Effect(v) = Upsert \/ Exists(row)
    /\ \A w \in Workers : event[w] # v

EventuallyReflected ==
    \A v \in 1 .. MaxVersion : Waiting(v) ~> (peak >= v \/ v \in dlq)

(* Every column of the row is a value Setting published, even when handlers *)
(* of several replicas interleave their column-wise UPDATEs.                *)
ColumnsWerePublished ==
    Exists(row) => /\ \E v \in Published : row.attrs = hist[v].attrs
                   /\ \E v \in Published : row.status = hist[v].status

(* The row claims a version Setting has published: a version that save()    *)
(* made up by adding one would hide the real event of that number as stale. *)
(* It takes two handlers of one message, so the exclusive assignment of a   *)
(* partition is what prevents it, and a rebalance inside a handler does not.*)
VersionIsPublished == Exists(row) /\ rebalances = 0 => row.version \in Published

(* US1 scenario 3 of specs/003: when an entity is deactivated or activated  *)
(* Directory updates its status accordingly.  Once every message has been   *)
(* handled without a failure the row shows the entity's latest status.      *)
Drained ==
    /\ settled = Published
    /\ dlq = {}
    /\ \A v \in Published : hist[v].ok
    /\ \A w \in Workers : pc[w] = "idle"

StatusReflected ==
    Drained /\ hist # <<>> => row.status = hist[Len(hist)].status
=============================================================================
