# Directory service: TLA+ specifications and proofs

These modules specify the state-changing parts of the directory service (NestJS,
TypeORM on PostgreSQL, Kafka), check them with TLC on small instances and prove
with TLAPS, for all instances, every safety property and every refinement that a
passing run checks, except `VersionNeverRegresses`, which only a single worker has.
Paths of the form `modules/...` are below `src/src/`; `specs/...` is below `src/`.

## 1. The system

| Component | State it keeps | Operations that change it | Modelled by |
|---|---|---|---|
| Provisioning (`modules/provisioning`) | one projection table per kind: company, department, location, grade, job title | 15 Kafka event handlers, each `upsertProjection` or `updateStatus` | `Projection` |
| Employee creation (`modules/employee`, `modules/employment`) | employees, profiles, employment assignments | `EmployeeService.create` | `EmployeeCreate`, `EmployeeRegistry` |
| Outbox (`modules/outbox`) | PENDING events | `fromEmployeeCreated` inside that transaction | `EmployeeCreate` |
| Import profiles (`modules/employee-import`) | named configurations with a version and an active flag | create, update, activate, deactivate | `ImportProfile` |
| Import configuration | none: baseline and limits are constants | validate, merge, resolve | `ImportConfig` |
| Import jobs | jobs with a configuration snapshot | `createJob` | `ImportProfile` |
| Employee update | none yet | none writes; `validateAndResolveForUpdate` only looks up, and like `fromEmployeeUpdated` has no caller | `EmployeeUpdate` (the look-ups) |
| The service as a whole | the above | handlers and requests over the same rows | `Directory` |
| Documents, bank, tax, onboarding, contracts | entities only | none | not modelled |
| Health, bootstrap, environment, response DTOs | none | none | not modelled |

How they interact. The Setting service publishes every change of a master-data
entity to Kafka. The handlers copy it into the projections. Employee creation
validates the entities a request names against those projections and never
calls Setting; import-profile creation reads the company's projection. Employee
creation writes an outbox row in its transaction, for a dispatcher that is not
in this repository. A job reads a profile once and copies what it resolves to.
Two replicas of the service share one database and one consumer group. Inside a
replica everything runs on one event loop and interleaves at each `await`.

What makes it hard:

* Handlers, and the import-profile requests, run outside any transaction. A
  check and the write it guards are several awaits apart. TypeORM's `save()`
  itself is a SELECT followed by an UPDATE of the columns that differ.
* Each event type is a Kafka topic of its own, so events of one entity are not
  ordered between types.
* Kafka redelivers: a handler that throws is run again (`failedCount` 3, then
  the dead-letter queue), a crash or a rebalance delivers a message twice, the
  second time possibly while the first handler still runs.
* Employee creation validates outside the transaction that writes. A department
  may be deactivated, or moved to another company, between any two look-ups.
* A partial update gives, nulls or leaves out each reference; what it leaves out
  comes from an assignment that may have been validated long ago.

`specs/003` describes a `processed_events` table and one ordered topic. The code
has neither; the only protection is the version comparison in the handler.

What makes each part correct. Provisioning: a projection never shows anything
Setting did not publish, reflects every event it has acknowledged, goes
backwards only where replicas race and recovers from that. Employee creation: all four rows or none, unique codes, references
and managers that were valid, no request stuck, and units that belong to the
company. Import profiles: unique names,
no lost update, activation and content independent, only valid configurations.
Jobs: a snapshot that respects precedence and limits and can be reproduced.

## 2. The modules

**`VersionedReplica`** is the abstract promise of a projection: a source publishes
versions 1, 2, 3..., some as a whole state and some as a change of status. The
replica adopts newer states and newer statuses in any order. Writers that race may
tear it: then its columns still are published ones, but no more is promised until it
adopts a whole state again.

**`Projection`** models one entity of one kind. All queries go by the entity's id
within the tenant, so entities do not interact. `Kind` selects one of five
handler classes, which differ in their status event (company: `activated`,
the others: `deactivated`). A replica goes through the labels `check`
(`StaleCheck`: the envelope test and the version comparison), `reread`
(`UpsertProjection` or `UpdateStatus`: the repository reads again and chooses
what to save), `load` (`SaveLoads`), `write` (`SaveWrites`, or `InsertFails` on
a duplicate key) and `ack` (`Ack`). Another replica may act between any two.
`Saved` is TypeORM's column-wise update: columns that differ from the loaded row
are written, and the version is incremented by SQL if some column but not the
version is among them. All columns besides status and version are one value
`attrs`, named by the version that last changed it. `settled` stands for
committed offsets. Every event type is a topic, in order by itself and in no order
with the others. `DatabaseFault`, `Crash` and `Rebalance` may happen anywhere
in a handler. Setting, Kafka and TypeORM are external; the map says so. Three
history variables, which no guard reads, say when races did harm: `overtaken` is the
set of replicas in whose handler another replica has changed the row since the stale
check; `peak` is the highest version the row has shown; `torn` says that an overtaken
handler has changed the row and that no upsert of a version at or above the peak has
replaced it since.

**`ImportConfig`** holds the operators of the configuration: the DTO constraints,
`validateComplete`, `validatePartial`, the cross-field rules, `deepMerge` (whose object
spread is `spread`: the override's fields win), the baseline, the declared limits and
the comparisons `enforceSystemSafetyLimits` makes. JSON's `null` passes `@IsOptional()`
and is the constant `Null`, of which is assumed only that it is no number and no
mode; JavaScript compares it as 0 (`Num`). Rates and multipliers
count in hundredths, so that all values are integers.

**`ImportProfile`** models the profiles of one company and the jobs created from
them. A request is a client at a label; each awaited query is an action.
`update` reads the profile (`ReadProfile`), looks a new name up (`CheckName`),
then `updateWithVersion` looks the row up by id and version (`VerifyVersion`)
and calls `update(id, data)`, which is `SaveLoads` and `SaveWrites`. A toggle takes
the same path with one column. `EmptyName` is the name that is falsy in JavaScript
and so skips the look-up of `CheckName`. `log` is a history variable: each version's
row and the request that wrote it.

**`EmployeeCreate`** models `POST /employees` for one tenant: the code look-up, one
look-up per reference in the code's order, the manager, and four inserts in one
READ COMMITTED transaction. `tx` is what the open transaction has inserted and
`Commit` publishes it. An insert of a code that another open transaction
holds waits (`CodeLocked`). `Fault` may end a request at any query; a commit may
succeed with its answer lost. `wasActive` is a history variable. The projections
change under the requests (`ProjectionChanges`): a row appears, changes its status
or its company, and is never deleted.

**`EmployeeRegistry`** is the abstract promise of employee creation: a set of
employees that grows by one whole dossier at a time, with a new code and a
manager who was there before. `EmployeeCreate` implements it under the
identity on ids (`ImplementsRegistry`).

**`EmployeeUpdate`** models the calls of `validateAndResolveForUpdate`. A body is a
partial function of the reference fields: outside its domain is `undefined`,
`None` is `null`. The label `step` names the next look-up; `Reference` says what a
kind will refer to, `MovesCompany` when kept units are checked too. The caller
and the stored assignments are given from outside.

**`Directory`** composes the three: one department, projected by the handlers of
`Projection`, is what the requests of `EmployeeCreate` and the calls of
`EmployeeUpdate` look up. `Rows` is the mapping: what `findById` returns for each
entity, with the department's status and company taken from the columns of `row`.
`CompanyAt` gives the company that each published set of attributes names. A step
of one component leaves the variables of the others alone, except the histories
`wasActive` and `seen`, which record what a request in progress could have read.
`ProjectionChanges` is here whatever the handlers write. `shown` and `shownTo` are
history: the version the department's row showed when a request arrived, by client
and then by the employee it created, or `Unsure` and left out if the row was torn while
the request ran. Its assumptions on the
constants are those of the modules it instantiates: a request names a company
and known entities, the department is neither a company nor `None`, each
published set of attributes names one of its companies.

The theorems are in modules of their own, each extending the module it is
about: `ProjectionProofs`, `ProjectionReplicaProofs`, `ProjectionRaceProofs`,
`ProjectionPromiseProofs`, `ImportConfigProofs`, `ImportProfileProofs`,
`EmployeeCreateProofs`, `DirectoryProofs`. The check of a module is `tlapm` on it; no
step is left without a proof.

**`MCProjection`, `MCImportProfile`, `MCEmployeeCreate`, `MCDirectory`** define the
instances for TLC; most projection instances need only a configuration file.
Definitions marked `mutant` are plausible bugs: substituted for the definition
they precede, they make the properties they belong to fail.

## 3. The runs

| Run | Question | Result |
|---|---|---|
| `ProjectionSerial` | One worker, department events, 4 versions, malformed envelopes, 2 faults, a crash, a rebalance: what do crashes, retries and reordered topics do by themselves? | `VersionNeverRegresses` holds here, with `StatusMatchesVersion`, `AttrsLagOnlyBehindStatusEvents`, `SettledIsReflected` |
| `ProjectionReplicas` | Two replicas, company events, interleaved checks and column-wise updates, crash, rebalance, fault: how much harm can races do? | `OnlyOvertakenWritesRegress`, `UpsertsRepair`, `StatusMatchesVersion`, `AttrsLagOnlyBehindStatusEvents`, `SettledIsReflected`, `ColumnsWerePublished` hold, and the handlers implement `VersionedReplica`; `VersionIsPublished` holds unless a rebalance lets two replicas handle one message at once |
| `ProjectionLiveness` | Two fair replicas, job-title events, 3 versions, a fault and a crash: is every event that can be applied shown in the end? | `EventuallyReflected` holds |
| `ProjectionRace` | Two replicas, two topics, no failure at all: can the version go back? | it does: the check is three awaits before the write |
| `ProjectionReorder` | One replica, two versions: is a deactivation always reflected? | no: delivered before the creation it is lost |
| `ImportRace` | Two clients, two profiles, three requests of any kind | `NameUnique`, `VersionCountsChanges`, `StatusAndContentAreSeparate`, `StoredConfigValid`, `JobReproducible` hold |
| `ImportChain` | One client, chains of three requests over 27 partial configurations on both sides of every boundary | `Precedence`, `CeilingsHold` hold |
| `ImportWinner` | Do two updates with the same token have one winner? | no: the UPDATE does not name the version |
| `ImportLimits` | Are the declared limits enforced? | not all: `maxDelayMs`, the upper end of `initialDelayMs`, the lower ends of the timeouts are not |
| `ImportQuota` | Can every stored profile be resolved? | no: updates are not checked against the limits |
| `EmployeeCreate` | Two requests in flight (three in all) with equal codes, a projection that changes, a fault: does the transaction protect what the look-ups cannot? | `CodesUnique`, `AllOrNothing`, `ReferencesWereActive`, `OneOrganization`, `ManagersCanManage`, `EveryRequestEnds` hold, and it implements `EmployeeRegistry` |
| `Directory` | Two replicas, one of which may crash, race over a department that is created, moved, deactivated in any order of its topics while a request assigns it or an update looks it up: is what they use something Setting published? | `PlacementsWerePublished`, `UpdatedUnitsBelong`, `UntouchedReferencesKept` hold; `ImplementsCreate`: the composition is a behaviour of `EmployeeCreate` |

The five violated runs state what a document or a comment of the repository
says and are listed as findings in `PROJECT.json`, with the lines quoted.

Bounds. `MaxVersion` 3 or 4: a regression needs two events after a creation, and
4 lets a status event overtake an update and be overtaken. Two replicas, as deployed
(`k8s/deployment.yaml`): the conflicts are between two writers of one row.
`FailedCount` 2 reaches a retry and, with a second fault or a duplicate key, the
dead-letter queue. One crash and one rebalance give every redelivery point. Two
clients suffice for a check-then-act race; the third request is what observes its result, or a job after a race. `Descriptions` is empty, because a
description is one more column written like the name. `ImportChain` is
sequential because it is about values: three requests give two updates and a
job. `EmployeeCreate` has one missing entity, so that a reference may appear
or go inactive while it is being validated. `Requests` has both an eligible and
an ineligible manager, one not yet created, a department of another
company and dates the CHECK constraint refuses. `CHECK_DEADLOCK FALSE` is set
everywhere, because a system whose bounded inputs are used up rests.

In `EmployeeCreate` `dep1` may be moved between two companies, once, which puts the
move on either side of each look-up. In `Directory` three versions give two changes of
the department after its creation, so a request can meet it before, between and after
them, and a crash redelivers one of them late; faults and rebalances are left
to `ProjectionReplicas` and to the theorems, which cover any number of them. `MaxChanges` is 4 and never binds: with 8 the run reaches
the same states. One request at a time besides the handlers, because creations and updates share nothing but stored assignments, and interleaved creations are
what `EmployeeCreate` is about. Kinds other than the department do not change there.

Fairness. `Projection` assumes weak fairness of `Handle(w)` only: the consumer of a
live replica keeps polling and awaits its handler. Setting need not publish and
nothing must fail. `EmployeeCreate` assumes weak fairness of `Serve(c)`: the event
loop resumes a request whose query has returned. Arrivals and faults are
not fair. `EventuallyReflected` is about events that can be applied: a malformed one, or
a status event whose row is missing when it is handled, is lost in the code
(`ProjectionReorder`), and a message that is given up is in the dead-letter queue.
Symmetry is used for the replicas of `ProjectionReplicas` and `Directory`
and the clients of `ImportRace` and `ImportWinner`, which check no
liveness.

## 4. The proofs

All from the named assumptions on constants in the modules, which TLC evaluates
on every run, and from nothing else: no theorem assumes a number of replicas, an order
of the topics or the absence of failures. No bound is given a value: replicas, clients,
requests, versions, faults, crashes and rebalances are as many as one likes.

Every inductive invariant below was first checked by TLC as an invariant of a
run. They are needed because hardly any property is inductive: what keeps it
true is what the requests in progress already know.

**Provisioning.** `TypeCorrect` needs that a busy replica handles a
published version, since a handler applies `hist` to the version it holds
(`TypeInv`). `ReplicasKeepPublishedColumns`: `ReplicaInv` says of the row, of each
loaded row and of each entity to be saved that its columns were published, and
that a row that was once there stays; whichever columns an UPDATE mixes, each
came from one of these. `ReplicasClaimPublishedVersions`: as long as no partition
has moved inside a handler, a message is in one handler at a time, so nobody but
the handler of version *v* writes *v*, and `save()` always finds the version among
the columns that differ (`VersionInv`); it never lets SQL invent one.

**Races.** That the version never goes back is false of the code (`ProjectionRace`);
what is proved is how far the damage goes. `RaceInv` says of every handler that has not
been overtaken that what it read is still true (`Fresh`): past the stale check its
event is newer than the row, past the re-read its entity is the payload or the row
with a new status, past the SELECT the loaded row is the row. Such a handler raises the
version, so only an overtaken one can lower it (`RegressionNeedsRace`), and what it
upserts is a published state as a whole (`FreshUpsertsRepair`). `CleanInv` adds that a
row that is not torn is at its peak, has the status of its version and attributes not
newer than it, older only at a status event's version, and that every event whose
handler is finished was shown: `UntornStatusMatchesVersion`, `UntornAttrsLag`,
`AcknowledgedIsReflected`. `ReplicasImplementPromise` puts these together with
`ReplicaInv`: a write nobody overtook adopts a newer state or status, every other one
tears the row and leaves published columns. (TLC checked `RaceInv`, `CleanInv`,
`ReplicaInv` and `VersionInv` on the 1,787,010 states of `ProjectionReplicas`.)

**Import configuration.** `BaselineValid`, `ThreeTiers` and `MergeKeepsSchema`:
`validatePartial` of both sides is inherited by the merge, for every configuration,
because each field of the result is a field of one side; only nulls and the
cross-field rules can fail afterwards, which is why `validateComplete` is called
after the merge.

**Import profiles.** `ProfileInv` has four parts: the tables and clients are
typed, and the last entry of each history is the stored row; names are unique and
stored configurations valid; each stage of a request knows what it looked up (a
profile that is read stays in the history, two creates never hold one id, a
checked name was free when the index is asked); each job agrees with the history
entry it names. The actions are first shown to be instances of one `Step` (one
profile gets at most one version, by the columns one request sets, and only the
requester moves), then `Step` is shown to keep the invariant: `StepKeepsInv`.
`ProfileInvHolds` gives `ProfileTypeCorrect`, `NamesStayUnique`,
`StatusStaysSeparate`, `ConfigsStayValid`, `ChangesAreCounted`,
`JobsStayReproducible`, `TiersKeepPrecedence` and `CeilingsAreKept`. (TLC checked
`ProfileInv` on 572,848 states of `ImportRace` and 813,037 of `ImportChain`.)

**Employee creation.** `TypeInv` ties the label of a request to its open
transaction and its body. `RegistryInv` adds that ids of requests in flight are
apart, that while a transaction has inserted its employee nobody else has its
code, committed or in an open transaction, and that a validated manager stays
eligible (no committed employee changes). From it `CodesStayUnique`,
`CreationIsAtomic`, `ManagersStayEligible`, and `CreateImplementsRegistry`: a commit
registers one dossier, nothing else touches the tables. `ValidInv` adds that the
references a request has passed, those before its label in the order of the
look-ups, were each ACTIVE, and each unit in the request's company, in one row at
one moment: `ReferencesStayJustified`, `UnitsBelongTogether`. The lemma about
`NextStep`, that no given reference is skipped, carries that argument.

**The composition**, with any number of replicas. The theorems above are not repeated
but instantiated with `Directory`'s substitutions (`PP`, `EP`). Requests do not touch
provisioning, so its invariants hold (`ProvisionInvHolds`). The columns of the row were
published, so it names a company the department may belong to; a row that is ACTIVE and
not torn was written by an upsert, because the only status event of a department
deactivates it, and so is the published state of its version as a whole (`RowIsSound`).
Therefore what a handler does is, to the requests, one `ProjectionChanges` or nothing
(`changes` counts them): `DirectoryImplementsCreate`. For `PlacementsArePublished`,
`PlacedInv` says that, unless the row was torn while the request ran, every sight of the
department it has recorded was published at a version not below the one its row had when
the request arrived; the growth of the version of a row that is not torn preserves
that. The restriction is needed: a torn row can show the company of one version with
the status of another. For partial updates,
`PresentInv` says that what creation ever found is still there, and `UpdateInv`
what a call has resolved, skipped and checked by the label it has reached:
`UpdatesKeepUnitsTogether`, `UntouchedReferencesStay`. (TLC checked
`CreateInv`, `PlacedInv`, `PresentInv` and `UpdateInv` on the 1,847,066 states of the run.)

Only model-checked, and why. `EventuallyReflected` and `EveryRequestEnds` are liveness
under fairness, which needs `ENABLED` and is out of the prover's reach. The
properties of the violation runs do not hold; one of them, `VersionNeverRegresses`,
holds in `ProjectionSerial`, whose single worker is not the deployment, and is
therefore not a theorem.

## 5. What is not modelled

* Tenants: every query is filtered by tenant in the shared library, so one
  tenant is modelled. Permissions, formatting, logging and response DTOs.
* Reads (`list`, `getById`, `getJobById`), which change nothing.
* Shapes of JSON that are no configuration: `@ValidateNested` accepts `[]` as a section
  without fields; `ImportConfig` takes a section to be an object.
* The dispatcher of the outbox and the executor of the jobs: not in the code.
* The write of an employee update: nothing calls `validateAndResolveForUpdate` or
  `fromEmployeeUpdated`, so specs/006's transaction and its concurrency rules
  have no code to model. `FR-012` (manager cycles) has none either.
* The Redis health probe, which shares no state with the rest. `ping()` has no
  command timeout, so a Redis that accepts and does not answer blocks it; what
  the restarts do to handlers is `Crash`.
* `config.yaml` leaves `kafka.enableConsumer` false, and `configuration.ts` has no such
  key; the models take the consumer as enabled.
* The shared libraries (`@new-hros/*`), TypeORM, PostgreSQL and KafkaJS are
  modelled from how the code uses them. In particular a transaction is taken to
  cover the repositories called inside `runInTransaction`.

## 6. Plan

In this order; the first eight steps are done.

1. `VersionedReplica`, `Projection` and their five runs.
2. Type correctness and what any number of racing replicas keep.
3. `ImportConfig`, `ImportProfile` and their five runs.
4. `EmployeeCreate`, `EmployeeRegistry` and their run.
5. `EmployeeUpdate` and the composition `Directory` with its run.
6. The proofs about employee creation and the refinement of `EmployeeRegistry`.
7. The proofs about import configurations, profiles and jobs.
8. The refinement of `VersionedReplica` and the proofs about the composition.
9. Type correctness of `Directory` and `EmployeeUpdate` on their own.
10. The write of the employee update, once there is code for it.
