---------------------------- MODULE ImportProfile ----------------------------
(***************************************************************************)
(* The import profiles of one company and the import jobs created from     *)
(* them: EmployeeImportProfileService, its repository and                  *)
(* EmployeeImportJobService, as HTTP requests that interleave at every     *)
(* awaited query.  No request runs in a transaction: an optimistic check   *)
(* reads the row, and TypeORM's save() later selects and updates it.       *)
(***************************************************************************)
EXTENDS ImportConfig, Sequences, FiniteSets

CONSTANTS
    Clients,       \* requests that may be in flight at once
    Profiles,      \* profile ids
    Initial,       \* profiles that exist at the start
    NoProfile,     \* a job that names no profile
    None,          \* an optional field that a request leaves out
    Names,         \* name texts
    EmptyName,     \* the empty one
    RawNames,      \* names as requests carry them: [text, padded]
    Descriptions,  \* descriptions as requests carry them
    Configs,       \* complete configurations a create request may carry
    Patches,       \* partial ones, for updates and for job overrides
    MaxRequests    \* bound: requests that arrive

ASSUME InitialAssumption ==    \* the unique index holds at the start, too
    /\ DOMAIN Initial \subseteq Profiles
    /\ \A p \in DOMAIN Initial : Initial[p] \in Names
    /\ \A p, q \in DOMAIN Initial : Initial[p] = Initial[q] => p = q

ASSUME NamesAssumption ==
    /\ EmptyName \in Names
    /\ RawNames \subseteq [text : Names, padded : BOOLEAN]

ASSUME BoundAssumption == MaxRequests \in Nat

VARIABLES
    table,     \* employee_import_profiles; version 0 when there is no row
    log,       \* history: how each profile reached each of its versions
    jobs,      \* employee_import_jobs
    pc,        \* where each client's request is
    op,        \* the request
    seen,      \* the profile it read first
    loaded,    \* the row its save() selected
    requests

clientVars == <<pc, op, seen, loaded>>
vars == <<table, log, jobs, clientVars, requests>>

-----------------------------------------------------------------------------
\* The columns a write may set, besides the version.
Columns == {"name", "description", "config", "active"}

NoRow == [name |-> EmptyName, description |-> Null, config |-> Empty,
          active |-> FALSE, version |-> 0]
Exists(row) == row.version > 0

\* A request; token is expectedVersion, 0 when it is left out.
Request(kind, id, name, description, config, token) ==
    [kind |-> kind, id |-> id, name |-> name, description |-> description,
     config |-> config, token |-> token]

NoRequest == Request(None, NoProfile, None, None, None, 0)

InitialRow(id) ==
    [name |-> Initial[id], description |-> Null,
     config |-> SYSTEM_BASELINE_CONFIG, active |-> TRUE, version |-> 1]

\* One version in the history: the row and the request that wrote it.
Entry(row, request) ==
    [row |-> row, kind |-> request.kind, token |-> request.token]

Init ==
    /\ table = [p \in Profiles |-> IF p \in DOMAIN Initial
                                   THEN InitialRow(p) ELSE NoRow]
    /\ log = [p \in Profiles |-> IF p \in DOMAIN Initial
                                 THEN <<Entry(InitialRow(p), NoRequest)>>
                                 ELSE <<>>]
    /\ jobs = {}
    /\ pc = [c \in Clients |-> "idle"]
    /\ op = [c \in Clients |-> NoRequest]
    /\ seen = [c \in Clients |-> NoRow]
    /\ loaded = [c \in Clients |-> NoRow]
    /\ requests = 0

\* A name that is not the empty string: `if (dto.name)`.
Given(name) == name # None /\ (name.padded \/ name.text # EmptyName)

-----------------------------------------------------------------------------
(* Requests arrive (the controller; createJob has no controller yet).      *)

Arrive(c, label, request) ==
    /\ pc[c] = "idle"
    /\ requests < MaxRequests
    /\ requests' = requests + 1
    /\ pc' = [pc EXCEPT ![c] = label]
    /\ op' = [op EXCEPT ![c] = request]
    /\ UNCHANGED <<table, log, jobs, seen, loaded>>

\* The row's id is chosen here; the code lets the database choose it.
RequestCreate(c) ==
    \E p \in Profiles, name \in RawNames, d \in Descriptions \cup {None},
       config \in Configs :
        /\ Given(name)
        /\ ~Exists(table[p])
        /\ \A b \in Clients : op[b].kind = "create" => op[b].id # p
        /\ Arrive(c, "company", Request("create", p, name, d, config, 0))

RequestUpdate(c) ==
    \E p \in Profiles, name \in RawNames \cup {None},
       d \in Descriptions \cup {None}, patch \in Patches \cup {None} :
        \E token \in 0 .. table[p].version :
            Arrive(c, "read", Request("update", p, name, d, patch, token))

RequestToggle(c) ==
    \E p \in Profiles, kind \in {"activate", "deactivate"} :
        Arrive(c, "read", Request(kind, p, None, None, None, 0))

RequestJob(c) ==
    \E p \in Profiles \cup {NoProfile}, overrides \in Patches \cup {None} :
        Arrive(c, "job", Request("job", p, None, None, overrides, 0))

-----------------------------------------------------------------------------
(* What a request does between two awaits.                                 *)

Goto(c, label) ==
    /\ pc' = [pc EXCEPT ![c] = label]
    /\ UNCHANGED <<op, loaded>>

\* What a client may be told; "ERROR" is a database error, answered 500.
Answers == {"ok", "NOT_FOUND", "COMPANY_INACTIVE", "DUPLICATE_PROFILE_NAME",
            "STALE_PROFILE_VERSION", "PROFILE_INACTIVE", "INVALID",
            "CONFIG_QUOTA_EXCEEDED", "ERROR"}

\* Local state that no later step of the request uses.
Forget(c) ==
    /\ op' = [op EXCEPT ![c] = NoRequest]
    /\ seen' = [seen EXCEPT ![c] = NoRow]
    /\ loaded' = [loaded EXCEPT ![c] = NoRow]

\* The request ends.
Answer(c, answer) ==
    /\ answer \in Answers
    /\ pc' = [pc EXCEPT ![c] = "idle"]
    /\ Forget(c)

\* It has written, and reads the row again for its answer.
Written(c) == pc' = [pc EXCEPT ![c] = "refresh"] /\ Forget(c)

\* It goes on, having read this profile, or nothing new.
Read(c, label, profile) ==
    /\ Goto(c, label)
    /\ seen' = [seen EXCEPT ![c] = profile]

Proceed(c, label) == Read(c, label, seen[c])

\* name?.trim(), on a name that was given.
trim(name) == name.text

\* findByNameAndCompany: stored names are trimmed.
FindByName(name) ==
    {p \in Profiles :
        Exists(table[p]) /\ ~name.padded /\ table[p].name = name.text}

\* The unique index on tenant, company and name.
IndexDropped(p, name) == FALSE    \* mutant

NameTaken(p, name) ==
    \E q \in Profiles \ {p} : Exists(table[q]) /\ table[q].name = name

(* create()                                                                *)

\* validateCompany reads the company's projection: any status, or no row.
ValidateCompany(c) ==
    /\ pc[c] = "company"
    /\ \/ Proceed(c, "createName")
       \/ Answer(c, "COMPANY_INACTIVE")
    /\ UNCHANGED <<table, log, jobs, requests>>

\* The name is looked up as sent, the configuration is checked.
CheckNewName(c) ==
    /\ pc[c] = "createName"
    /\ IF FindByName(op[c].name) # {} THEN Answer(c, "DUPLICATE_PROFILE_NAME")
       ELSE IF ~validateComplete(op[c].config) THEN Answer(c, "INVALID")
       ELSE Proceed(c, "insert")
    /\ UNCHANGED <<table, log, jobs, requests>>

NewRow(request) ==
    [name |-> trim(request.name),
     description |-> IF request.description = None THEN Null
                     ELSE request.description,
     config |-> request.config, active |-> TRUE, version |-> 1]

\* The unique index may refuse the insert.
Insert(c) ==
    LET p == op[c].id
        row == NewRow(op[c]) IN
    /\ pc[c] = "insert"
    /\ IF NameTaken(p, row.name)
       THEN Answer(c, "ERROR") /\ UNCHANGED <<table, log>>
       ELSE /\ table' = [table EXCEPT ![p] = row]
            /\ log' = [log EXCEPT ![p] = <<Entry(row, op[c])>>]
            /\ Answer(c, "ok")
    /\ UNCHANGED <<jobs, requests>>

(* update(), activate() and deactivate()                                   *)

EffectiveConfig(profile, patch) ==
    IF patch = None THEN profile.config ELSE deepMerge(profile.config, patch)

PatchUnchecked(profile, patch) == TRUE    \* mutant: the merge is not validated

PatchOk(profile, patch) ==
    patch # None =>
        /\ validatePartial(patch)
        /\ validateComplete(EffectiveConfig(profile, patch))

\* The profile is read once; its version is compared with the token.
ReadProfile(c) ==
    LET row == table[op[c].id]
        token == op[c].token IN
    /\ pc[c] = "read"
    /\ IF ~Exists(row) THEN Answer(c, "NOT_FOUND")
       ELSE IF token # 0 /\ token # row.version
            THEN Answer(c, "STALE_PROFILE_VERSION")
       ELSE IF Given(op[c].name) THEN Read(c, "name", row)
       ELSE IF ~PatchOk(row, op[c].config) THEN Answer(c, "INVALID")
       ELSE Read(c, "verify", row)
    /\ UNCHANGED <<table, log, jobs, requests>>

\* A new name is looked up, trimmed, among the other profiles.
CheckName(c) ==
    LET name == [text |-> trim(op[c].name), padded |-> FALSE] IN
    /\ pc[c] = "name"
    /\ IF FindByName(name) \ {op[c].id} # {}
       THEN Answer(c, "DUPLICATE_PROFILE_NAME")
       ELSE IF ~PatchOk(seen[c], op[c].config) THEN Answer(c, "INVALID")
       ELSE Proceed(c, "verify")
    /\ UNCHANGED <<table, log, jobs, requests>>

\* updateWithVersion, first half: a row with this id and version exists.
ExpectedVersion(c) == IF op[c].token # 0 THEN op[c].token ELSE seen[c].version

VerifyVersion(c) ==
    /\ pc[c] = "verify"
    /\ IF table[op[c].id].version = ExpectedVersion(c) THEN Proceed(c, "load")
       ELSE Answer(c, "STALE_PROFILE_VERSION")
    /\ UNCHANGED <<table, log, jobs, requests>>

\* updateWithVersion, second half: update(id, data) saves these columns, and
\* only these.  An update always sends a description and a configuration.
DataWithStatus(c) ==    \* mutant: an update sends back the status it read
    LET request == op[c] IN
    IF request.kind \in {"activate", "deactivate"}
    THEN [active |-> request.kind = "activate"]
    ELSE spread([description |-> IF request.description = None THEN Null
                                 ELSE request.description,
                 config |-> EffectiveConfig(seen[c], request.config),
                 active |-> seen[c].active],
                IF request.name = None THEN Empty
                ELSE [name |-> trim(request.name)])

Data(c) ==
    LET request == op[c] IN
    IF request.kind \in {"activate", "deactivate"}
    THEN [active |-> request.kind = "activate"]
    ELSE spread([description |-> IF request.description = None THEN Null
                                 ELSE request.description,
                 config |-> EffectiveConfig(seen[c], request.config)],
                IF request.name = None THEN Empty
                ELSE [name |-> trim(request.name)])

\* save(), first half: select the row the change set is computed against.
SaveLoads(c) ==
    /\ pc[c] = "load"
    /\ loaded' = [loaded EXCEPT ![c] = table[op[c].id]]
    /\ pc' = [pc EXCEPT ![c] = "write"]
    /\ UNCHANGED <<table, log, jobs, op, seen, requests>>

\* save(), second half: set the columns that differ from the loaded row and
\* let SQL add one to the version; with no such column nothing is written.
ChangedColumns(c) == {f \in DOMAIN Data(c) : Data(c)[f] # loaded[c][f]}

SavedFromLoaded(c, row) ==    \* mutant: version computed from the loaded row
    [f \in DOMAIN row |-> IF f \in ChangedColumns(c) THEN Data(c)[f]
                          ELSE IF f = "version" THEN loaded[c].version + 1
                          ELSE row[f]]

Saved(c, row) ==
    [f \in DOMAIN row |-> IF f \in ChangedColumns(c) THEN Data(c)[f]
                          ELSE IF f = "version" THEN row.version + 1
                          ELSE row[f]]

SaveWrites(c) ==
    LET p == op[c].id
        row == Saved(c, table[p]) IN
    /\ pc[c] = "write"
    /\ IF ChangedColumns(c) = {}
       THEN Written(c) /\ UNCHANGED <<table, log>>
       ELSE IF "name" \in ChangedColumns(c) /\ NameTaken(p, row.name)
       THEN Answer(c, "ERROR") /\ UNCHANGED <<table, log>>
       ELSE /\ table' = [table EXCEPT ![p] = row]
            /\ log' = [log EXCEPT ![p] = Append(@, Entry(row, op[c]))]
            /\ Written(c)
    /\ UNCHANGED <<jobs, requests>>

\* The row is read again for the answer.
Refresh(c) ==
    /\ pc[c] = "refresh"
    /\ Answer(c, "ok")
    /\ UNCHANGED <<table, log, jobs, requests>>

(* createJob()                                                             *)

Overrides(c) == IF op[c].config = None THEN Empty ELSE op[c].config

\* The profile is read, its status checked, and the configuration resolved.
ReadForJobUnchecked(c) ==    \* mutant: an inactive profile is accepted
    LET profile == IF op[c].id = NoProfile THEN NoRow ELSE table[op[c].id]
        error == ResolveError(profile.config, Overrides(c)) IN
    /\ pc[c] = "job"
    /\ IF op[c].id # NoProfile /\ ~Exists(profile) THEN Answer(c, "NOT_FOUND")
       ELSE IF error # "none" THEN Answer(c, error)
       ELSE Read(c, "insertJob", profile)
    /\ UNCHANGED <<table, log, jobs, requests>>

ReadForJob(c) ==
    LET profile == IF op[c].id = NoProfile THEN NoRow ELSE table[op[c].id]
        error == ResolveError(profile.config, Overrides(c)) IN
    /\ pc[c] = "job"
    /\ IF op[c].id # NoProfile /\ ~Exists(profile) THEN Answer(c, "NOT_FOUND")
       ELSE IF op[c].id # NoProfile /\ ~profile.active
            THEN Answer(c, "PROFILE_INACTIVE")
       ELSE IF error # "none" THEN Answer(c, error)
       ELSE Read(c, "insertJob", profile)
    /\ UNCHANGED <<table, log, jobs, requests>>

JobOf(c) ==
    [id |-> op[c].id, version |-> seen[c].version, overrides |-> Overrides(c),
     snapshot |-> Effective(seen[c].config, Overrides(c))]

InsertJob(c) ==
    /\ pc[c] = "insertJob"
    /\ jobs' = jobs \cup {JobOf(c)}
    /\ Answer(c, "ok")
    /\ UNCHANGED <<table, log, requests>>

-----------------------------------------------------------------------------
Arrival(c) ==
    RequestCreate(c) \/ RequestUpdate(c) \/ RequestToggle(c) \/ RequestJob(c)

Serve(c) ==
    \/ ValidateCompany(c) \/ CheckNewName(c) \/ Insert(c)
    \/ ReadProfile(c) \/ CheckName(c) \/ VerifyVersion(c)
    \/ SaveLoads(c) \/ SaveWrites(c) \/ Refresh(c)
    \/ ReadForJob(c) \/ InsertJob(c)

Next == \E c \in Clients : Arrival(c) \/ Serve(c)

Spec == Init /\ [][Next]_vars

-----------------------------------------------------------------------------
(* Properties                                                              *)

IsRow(row) ==
    /\ DOMAIN row = Columns \cup {"version"}
    /\ row.name \in Names
    /\ row.description \in Descriptions \cup {Null}
    /\ row.active \in BOOLEAN
    /\ row.version \in Nat

Labels == {"idle", "company", "createName", "insert", "read", "name", "verify",
           "load", "write", "refresh", "job", "insertJob"}

TypeOK ==
    /\ \A p \in Profiles :
        /\ IsRow(table[p])
        /\ Len(log[p]) = table[p].version
        /\ Exists(table[p]) => log[p][table[p].version].row = table[p]
    /\ pc \in [Clients -> Labels]
    /\ \A c \in Clients : IsRow(seen[c]) /\ IsRow(loaded[c])
    /\ requests \in 0 .. MaxRequests

(* FR-003 of specs/005: no two profiles of a company have the same name,    *)
(* although the look-ups that answer DUPLICATE_PROFILE_NAME run before the  *)
(* write, look a new name up untrimmed, and skip the empty name.            *)
NameUnique ==
    \A p, q \in Profiles :
        Exists(table[p]) /\ Exists(table[q]) /\ table[p].name = table[q].name
            => p = q

(* FR-006: a change of a profile, by whichever of the concurrent requests,  *)
(* adds exactly one to its version.                                         *)
VersionCountsChanges ==
    [][\A p \in Profiles :
        table'[p] # table[p] => table'[p].version = table[p].version + 1]_table

(* FR-007 and its converse: activation touches nothing but is_active, and   *)
(* an update, which read the profile awaits ago, never undoes an activation *)
(* or a deactivation that committed meanwhile.                              *)
StatusAndContentAreSeparate ==
    \A p \in Profiles : \A v \in 2 .. Len(log[p]) :
        LET old == log[p][v - 1].row
            new == log[p][v].row IN
        IF log[p][v].kind = "update" THEN new.active = old.active
        ELSE \A f \in {"name", "description", "config"} : new[f] = old[f]

(* SC-001: whatever updates are merged into it, and from however old a read,*)
(* a stored configuration satisfies the schema and its cross-field rules.   *)
StoredConfigValid ==
    \A p \in Profiles : Exists(table[p]) => validateComplete(table[p].config)

(* US3: a job can be reproduced from the profile version it names: that     *)
(* version was active, and its configuration and the job's overrides        *)
(* resolve to the snapshot, whatever happened to the profile since.         *)
JobReproducible ==
    \A j \in jobs : j.id # NoProfile =>
        /\ j.version \in 1 .. Len(log[j.id])
        /\ LET profile == log[j.id][j.version].row IN
           profile.active /\ j.snapshot = Effective(profile.config, j.overrides)

(* US1 scenario 3 and SC-002: of two updates that expect version N exactly  *)
(* one succeeds, making it N + 1.                                           *)
ExactlyOneWinner ==
    \A p \in Profiles : \A v \in 1 .. Len(log[p]) :
        LET token == log[p][v].token IN token # 0 => v = token + 1

-----------------------------------------------------------------------------
(* Properties of the resolved configurations                               *)

ProfileConfig(j) ==
    IF j.id = NoProfile THEN Empty ELSE log[j.id][j.version].row.config

(* FR-012 and FR-013: every field of a snapshot comes from the job's        *)
(* overrides if they give it, else from the profile, else from the          *)
(* baseline; overriding a field leaves its siblings alone.                  *)
Precedence ==
    \A j \in jobs : \A p \in Policies : \A f \in Fields[p] :
        /\ Defined(j.snapshot, p, f)
        /\ j.snapshot[p][f] =
            IF Defined(j.overrides, p, f) THEN j.overrides[p][f]
            ELSE IF Defined(ProfileConfig(j), p, f) THEN ProfileConfig(j)[p][f]
            ELSE SYSTEM_BASELINE_CONFIG[p][f]

LimitedFields == DOMAIN SYSTEM_SAFETY_LIMITS
PolicyOf(f) == CHOOSE p \in Policies : f \in Fields[p]

(* FR-014: no job runs with a batch, concurrency, attempt count or timeout  *)
(* above its ceiling, or a retry delay below its floor, whichever of the    *)
(* three tiers, or merge of them, the value came from.                      *)
CeilingsHold ==
    \A j \in jobs :
        /\ j.snapshot.retryPolicy.initialDelayMs >=
               SYSTEM_SAFETY_LIMITS.initialDelayMs.min
        /\ \A f \in LimitedFields \ {"initialDelayMs", "maxDelayMs"} :
            j.snapshot[PolicyOf(f)][f] <= SYSTEM_SAFETY_LIMITS[f].max

(* The comment on resolve(): it strictly enforces the system safety quotas. *)
(* Every limited field of a snapshot is within its declared limits.         *)
WithinDeclaredLimits ==
    \A j \in jobs : \A f \in LimitedFields :
        /\ j.snapshot[PolicyOf(f)][f] >= SYSTEM_SAFETY_LIMITS[f].min
        /\ j.snapshot[PolicyOf(f)][f] <= SYSTEM_SAFETY_LIMITS[f].max

(* The API contract: an update that exceeds a quota is refused, so that a   *)
(* stored profile can be resolved.                                          *)
StoredProfilesResolve ==
    \A p \in Profiles :
        Exists(table[p]) => ResolveError(table[p].config, Empty) = "none"
=============================================================================
