# Verification of mgw-module-manager

TLA+ models of the module manager of the multi-gateway (`src/`), TLC
configurations that check them on small instances, and TLAPS proofs.

## 1. The system

The module manager is one Go process (`src/main.go`) with an HTTP API
(`pkg/api`), a service (`pkg/service`) that coordinates a handful of handlers
(`pkg/components/handler/*`), a SQL database, a work directory per handler and
three remote services: the container engine wrapper, the core manager (HTTP
endpoints of deployments) and the secret manager, plus the host manager.

| component | state | operations |
|---|---|---|
| jobs handler (`handler/jobs`) | `jobSlots`, `jobMap`, per job: end, context | create a (slot) job, list, cancel, `Done`, cleanup loop with a callback |
| service (`service/*.go`) | `Service.mu`, `changeRequest`, `jobResults` | start jobs, guard operations by slots, keep and delete results, change requests |
| modules handler (`handler/modules`) | table `modules`, one directory per module version, images of the engine, a cache of parsed modfiles | add, update, delete, list |
| deployments handler (`handler/deployments`) | deployment tables, one directory per deployment, containers, volumes, HTTP endpoints, mounted secrets | create, update, recreate, delete, enable, disable, runtime monitor |
| auxiliary deployments handler (`handler/aux_deployments`) | auxiliary tables, containers, volumes, a mutex per deployment | create, update, recreate, delete, enable, disable, runtime monitor |
| repositories handler (`handler/repositories`) | source files and archives of GitHub repositories, a host directory, a look-up table of modules | refresh, list, create, delete, fetch a module |
| selection (`service/repository.go`, `module.go`, `deployment.go`) | none of its own: it reads what the repositories offer and what is installed | the modules of a change request, the modules that deployments are created and enabled with |
| user data of deployments (`handler/deployments/{configs,files,secrets,dependencies}.go`) | the tables of user data, a cache per batch | create, update and recreate from the input or from the database |
| global configs (`handler/global_configs`) | their tables | create, read, update, delete |
| deployment advertisements | their tables | create, read, update, delete |
| database handler and migrations | SQL | one transaction per operation |
| HTTP API, clients, configuration, models | none | request and response conversion |

Calls go downwards only, from the API to the service to the handlers; the jobs
handler alone calls back (`Service.DeleteJobResults`, and `slotJobDone` from
`Job.Done`). The long operations run as jobs in goroutines: the service checks
slots and creates the job under `Service.mu`, releases `Service.mu`, and the
goroutine works on. What keeps jobs apart is therefore which slots each of them
checks and takes, plus the mutexes inside the handlers.

### What is hard in it

* **Interleaving.** A job works while the service takes requests; the runtime
  monitors of both deployment handlers read under a lock and act later, in
  goroutines without one; `execModulesChangeRequest` reads
  `Service.changeRequest` three times while it can be replaced.
* **Partial failure.** There is no transaction over the database, the disk, the
  container engine, the secret manager and the core manager. Most operations
  return at the first error and undo nothing; a few roll back.
* **Crashes.** The process can die between any two effects; only the database
  and the disk survive, and the containers run on.
* **Forgetting.** The jobs handler evicts jobs, also running ones, and results
  are deleted by a callback.
* **Order of maps.** Which repository is the main one, in which order
  dependencies are met and which module of a batch comes first depends on the
  iteration over Go maps, which is different each time.
* **Shared data.** The deployments of a batch share a cache, and global configs
  change while a job holds it; deployments are given aliases of other
  deployments that may be replaced or deleted.
* **Start-up.** The migrations run at every start and can be interrupted after
  any statement.

### What makes the components correct

| component | properties |
|---|---|
| jobs handler | a slot belongs to one unfinished job; eviction frees no slot and drops only what is old or running |
| service | modules do not change while deployments are made from them; the end of a listed job comes with its result; results are reclaimed |
| modules handler | what is listed has its own files whatever failed; cache and table agree; what is left behind has a named cause |
| change request | a pending request is current but for named causes, an execution does what was approved, a report is true, a deployed module stays |
| deployments | everything that exists is recorded, success means complete, data and enabled state survive, the monitor brings the state that is asked for |
| auxiliary deployments | one container per row, records outlive what they record, success means complete, the monitor converges |
| repositories | a refresh without error is complete and current, what is listed can be fetched |
| selection | what is selected does not depend on an order, is closed under dependencies, and every walk ends |
| user data, global configs | containers get what the rows say, what was accepted can be used again, what is refused too late is known |
| migrations | the schema ends up current, every value stays stored, a start fails only for known reasons |

`PROJECT.json` lists the hazards at their lines with the properties that cover
them, section 5 the further behaviours that were met while modelling.

## 2. Modules

Composition: `ServiceJobs` extends `JobsHandler`, which implements `SlotLock`;
`ModulesHandler` implements `ModuleStore`, and `ModulesChange` uses the store in
its place. A module `MC<X>` gives the constants of `<X>` their values; a module
`<X>Proofs` holds the theorems about `<X>`, and `ProcessProofs` those about
`JobsHandler`, `ServiceJobs` and `Migrations`. A definition whose comment says *Faulty* is used
by no specification: it is a mistake that a change of the code could make, kept
to show that a property notices it.

**JobsHandler** (`handler/jobs/handler.go`, `job.go`). `jobSlots` and `jobMap`
are the two maps of the handler; `state` is how far a job's goroutine is.
`Job.Done` is three steps under three different locks (`SetEnd`, `SlotJobDone`,
`CancelOwnContext`), the cleanup two (`Evict`, `CallCleanupHandler`), so that
creations and ends come between them. Age is one bit per finished job; a running
job has the zero end time and counts as old, as in the code. **SlotLock** says
what the slots are for: a lock per slot, taken at the beginning of a job and
given back.

**ServiceJobs** (`service/*.go`). Every operation that creates a job is the
record of the slots it checks, the slot it takes and the map its result goes to.
Check and creation are one step because both happen under `Service.mu`; setting
the result, `Done`, the cleanup and its callback are steps of their own.

**ModulesHandler** (`handler/modules/handler.go`). State: the table, the
directories with their content, the images, the cache. A call is a program
counter with its local variables; each effect is a step that succeeds or fails
with the rollback of the deferred functions, and a crash may come anywhere.
**ModuleStore** is the abstract specification: a package per module that is
installed, replaced and taken away in one step; a deletion breaks it first.

**ModulesChange** (`service/module.go`). The life of a change request over the
store: made from what is installed and offered, replaced, cancelled, dropped by
a refresh, executed loop by loop and item by item next to deployment jobs. A
request for selected modules is made in one step, since nothing that it reads
can change under `Service.mu` while no module or repository job runs. A request
for all updates, which looks at no slot, is a call of several steps (`call`): the
read of what is installed, one step per module that is fetched, and the one that
stores the request. An execution can go on, end and clear the old request between
any two of them, because it does not hold `Service.mu`. `oldModules` and `oldOffer` are auxiliary: they say that the
request was made from modules, or from an offer, that have changed since.
Which modules a request contains is any choice among those offered here,
`DependencySelection` says which.

**Deployments** (`handler/deployments/*.go`). One module with its deployment:
the row, and containers, directories, volumes, secret mounts and endpoints,
which it names. An operation goes through the steps of the code, each of which
may fail. The monitor reads (`Look`), decides (`Decide`) and starts goroutines
(`LoadSecrets`, `StartContainer`, `EndStartJob`, `UnloadSecrets`, `EndStopJob`)
next to the operations. One `Uuid` stands for all the names an operation makes.

**AuxDeployments** (`handler/aux_deployments/*.go`, `service/deployment.go`).
Rows of auxiliary deployments and volumes, containers, volumes; one operation
per deployment at a time (`mutex_map`), the tables common to all. It contains
the statements without `WHERE` that an empty list of ids produces, the foreign
keys that cascade, and the deletion of the parent by the service in three steps.

**Repositories** (`handler/repositories/handler.go`, `github/*.go`,
`helper/archive`). Source files, repo files and extracted archives on disk, the
map of known repositories and the look-up table in memory. Extraction and
removal go module by module, a write truncates before it writes, so that an
error or a crash may come in the middle of each; `Restart` is `Init`.

**DependencySelection** (`service/repository.go`, `module.go`, `deployment.go`,
`handler/modules/handler.go`). `sel` is a call of `selectRepoModules`: the pass
it is in, the roots still to be looked at, and the recursion of
`addRepoModDepsToMap` as a stack of frames. `col` is a call of
`getModulesWithDependencies`, for a request (under `Service.mu`) or for a job of
`CreateDeployments` (under its slot); any read or write of it may fail. Every
iteration over a map is a choice. What the
walks should find is defined a second time without an order, as least closed
sets (`FromMain`, `Needed`).

**DeploymentData** (`handler/deployments/{create,update,recreate,delete,configs,
files,secrets,dependencies}.go`, `handler/global_configs`,
`database/deployments_*.go`). The user's input on its way through validation,
database, merge and cache into the containers of a batch of modules, recreate
the same way from the database, next to changes of global configs. Here the
environment of a deployment is one value, what its containers were made from;
its parts are followed by `Deployments`. `outdated` and the field `stale` of the
operation are auxiliary. Secrets keep the id that the user has chosen, since only
those that are used as variables are looked up before anything is changed.
`Unstorable` are the data that the transaction refuses, `Unusable` those that are
refused when they are mounted: no earlier step looks at data to store or to mount,
so that these refusals are not faults but follow from the input. The declarations of modules
are constants: the update of a module under an existing deployment, and with it
the refusal of a recreate until the deployment is updated
(`recreate.go:118-122`), are left out. So are results of queries that end early
(the readers do not look at `rows.Err()`).

**Migrations** (`handler/database/migrations`). A program of statements, each
with the look-up that guards it; a step skips or executes one statement, and a
restart begins again. The rows of the configs of both kinds are followed with
their values: a list is copied to rows with `is_list` false
(`configs.go:151-158`), a list of several types ends the start with an error
(`configs.go:278-279`), and a config without a value makes an invalid statement
(`configs.go:111`, `163`). `refused` is chosen at `Init`: the changes of the
schema that the rows of the previous version do not admit. `cut` is a history
variable: the tables of which a query returned fewer rows than there are, which
is not noticed because `rows.Err()` is not looked at.

## 3. Runs

| run | instance | shows |
|---|---|---|
| `service_jobs` | 2 jobs, the 3 slots, all operations | what may overlap; an end comes with its result; results are deleted in the end but for two exceptions; the jobs handler under the service implements a fair lock |
| `modules_handler` | 2 modules, one in 2 versions, 3 images of which two are shared, 3 directory names | intact rows, current cache, accounted directories; images (`ImagesMatchModules`): none is left without a cause, none is missing but where modules share it; implements the store |
| `modules_change` | 2 modules, 3 packages, 3 states of the repositories (a new version, a module or its repository gone), one module that is deployed and removed | pending requests are current and offered but for named causes (`PendingRequestIsValid`); approval, truth of the report, safety of deployed modules; an executed request is consumed |
| `deployments` | 2 versions (the second loses a service and replaces the volume), 2 services, 2 generated names, 1 fault | everything is accounted for, directories are free, data and enabled state survive, success is complete |
| `deployments_live` | 1 version with 2 services, 2 faults | the monitor converges to running or stopped (`MonitorSettles`) |
| `aux_operations` | 1 deployment, 3 generated names, 1 volume, 1 fault | one container per row, records outlive what they record, success is complete |
| `aux_live` | 1 deployment, 2 names, no volumes, 1 fault | the monitor converges |
| `aux_unknown` | 1 deployment, no faults | **violation**: an update of an unknown id writes rows (`ReadAuxiliaryDeployment` tests the wrong length) |
| `deployment_data` | 2 modules of which one depends on the other, 3 ids, 1 global config, 8 inputs (valid, invalid, empty, too long, not mountable, an unknown secret as variable and as mount), 1 fault | containers have what the rows say, stored data can be used again, stale aliases and late refusals (`LateRefusalsAreKnown`) have named causes |
| `selection` | 3 repositories of which two share the highest priority, 4 modules with a circle, two catalogs, any number of failing reads and writes | the main repository comes first whatever the order, selections are closed, deployments are enabled with what they need, every walk ends |
| `repositories` | 2 sources, 2 priorities, 2 commits of which the second has a module more, any number of faults | a refresh without error is complete and current; what is listed can be fetched |
| `migrations` | a config, a list config (of one type, of two, with and without values), a container, 5 sets of refused statements, any number of interruptions | current schema, every value stays stored (`ValuesStayStored`), known failures only |

**Bounds.** Names (`Uuid`, `Dir`, `Job`) are used once, so their number bounds
the operations: two names allow an operation after another one with a stale
reader in between, which is what the properties are about; three are needed
where an auxiliary deployment and its replacement meet a second one, and where a
deployment is deleted and created again while another one refers to it. `MaxFaults`
bounds failures, exits and crashes together in the modules where every step can
fail; one fault at any step, followed by any retry, is the case the code is
written for, and the theorems about `Deployments` hold for any bound. The
modules handler, the repositories and the migrations have no bound on failures:
their state is finite without one. In the `modules_handler` instance the images
overlap because removal without asking for other users is the interesting case.
The two catalogs of `selection` are made for the two cases in which an order
shows: a module that the main repository offers without what it needs, and two
main repositories that differ in what it needs. An id of `DeploymentData` is free
again once nothing refers to it, so its number of operations has no bound;
references of different kinds need not differ, so that two are enough. In
`migrations` at most one change is refused at a time, because a start ends with
the first one; the theorems allow any set.

**Symmetry** is used in safety runs only, over values that are interchangeable:
generated names, directories, ids of deployments, sources.

**Deadlock** is checked for `modules_handler`, `modules_change`, `repositories`,
`migrations`, `deployment_data` and `selection`. In the other runs the names run
out, and the model may stop.

**Fairness.** Weak fairness of the goroutine of each job or operation: Go
schedules it, and every call it makes returns because the clients have timeouts.
Weak fairness of the cleanup and of the monitors' loops: a timer that is reset
after every round, until the shutdown, which the formulas exclude. Nobody has to
call the API, to fail or to crash. In `ModulesChange` only the goroutine of the
execution is fair, the other jobs may hang. In `ServiceJobs` time passes, so a
finished job becomes old. In `DependencySelection` a walk that has begun goes on:
it is a loop that waits for nothing but the calls of the handlers. Nothing is
assumed about the order in which Go picks among goroutines; no strong fairness is used. In `aux_live` the parent is not deleted,
because with it goes whatever the properties are about.

## 4. Proofs

All theorems are about arbitrary constants with the named assumptions of the
module, which only say that the null values are not members of the sets, that a
package belongs to a module, a commit has a set of modules and so on. TLC
evaluates the same assumptions in every run. The type invariants of the modules
with proofs are theorems and therefore not repeated in the runs.

* **ProcessProofs** holds two parts that have nothing to do with each other, the
  jobs of the process and the migrations it starts with. First the jobs
  handler: `SlotsMatchHolders` relates a
  slot to the set of its holders; the induction needs it in two directions
  (`SlotInv`: the entry of a slot is an unfinished job of that slot, an unfinished
  job is its entry), and `MapInv` (what is listed or evicted was created).
  `Refinement`: every step is a step of `SlotLock` or a stutter. Then the
  service: its steps are steps of the jobs handler, so `JobsInv` carries over,
  and so does the refinement (`ServiceImplementsLock`). `OperationInv` gives each
  job the slot of its operation, from which `ModulesStableWhileDeploying` follows
  by the checks at creation; `ResultInv` and `MetRunningInv` give
  `ListedEndHasResult` and `OnlyKnownLeaks`. The run checks the refinement with
  its fairness (`FairLockRefinement`).
* **ModulesHandlerProofs.** `DirInv` (names are unshared and fresh), `CallInv`
  (what the local variables mean at each step), `RowInv` and `StrayInv`. From
  them `RowsAreIntact`, `CacheIsCurrent`, `DirsAreAccounted`, and `Refinement`:
  only the write of a row, the first removed file and the removed row are
  visible to the store. For `ImagesMatchModules` both of its parts are carried
  through the steps of a call, which has images that are not yet, or no longer,
  those of a row (`OldInv`, `AccountedInv`, `PresentInv`).
* **ModulesChangeProofs.** `SlotInv` (what the two slots exclude), `CallInv`
  (what a call for all updates has fetched is what is offered, unless a refresh
  was running), the request against what is installed and offered
  (`RequestCurrent`, `RequestOffered`; the first holds until the goroutine has
  returned and not only while nothing runs), `ProgressInv` (done and left together
  are what was approved), `PhaseInv` and `ReportInv`. Not proved:
  `ExecConsumesRequest`, which is liveness.
* **DeploymentsProofs.** `CallInv` says which operation is at which step and
  that it holds the id of the row; `ContainersInv`, `DirsInv`, `EndpointsInv`,
  `MountsInv`, `VolumesInv` extend each part of `EverythingIsAccounted` to the
  steps of an operation (what has been removed by now, what only the row names);
  `EnabledInv` and `ProgressInv` are the same for the other two properties.
* **AuxDeploymentsProofs.** Operations on different deployments hold different
  mutexes and interleave over common tables; the run has one deployment, the
  theorems any number. The invariant has a part for the tables (`TablesInv`), one
  for each operation (`OperationInv`: what it has read is still so or gone, no
  container stands for the id that it is about to replace, its name is free),
  and one for two operations (`Apart`: they are about different ids and names).
  A step of an operation is shown to keep its own part; `Bystander` shows once
  that it keeps those of the others. `OneContainerPerRow` and `SuccessIsComplete`
  follow, and so do `RowsOutliveResources` and `MountedVolumesAreKept`.
* **DeploymentDataProofs.** For any declarations, inputs and batches. `RowsInv`
  (what is stored has passed the checks, those of the secrets used as variables
  among them, and selects global configs that exist),
  `BatchInv` (what of a batch has been handled, which ids are those of rows),
  `CacheInv` (a cached global config is current, known to be stale, or deleted)
  and `CurInv` (the module at hand: its data are checked, and the containers it
  is to get are made from them). Together with these `EnvironmentIsCurrent` is
  inductive; the other three properties follow from them. `LateRefusalsKnown`
  needs that what is written is what the containers are made from.
* **RepositoriesProofs.** `OpInv` relates the repo file to the step of a refresh,
  `WholeInv` adds the directory that a restored repo file would name,
  `RefreshedInv` follows a success from the write of the repo file to the table,
  `LookUpInv` extends `ListedIsServed` to a deletion. `KnownIsStored` and
  `CurrentIsWhole` are proved and not in the run.
* **DependencySelectionProofs.** For any repositories, catalogs and modfiles.
  `Covered(d)` says that a dependency is selected, skipped for good or still to
  be met by a frame of the stack. `StackInv` and `DepsInv` say where frames and
  selected modules come from, `FirstPassInv` and `SecondPassInv` that each pass
  covers what the modules it has found depend on, `ColInv` the same for the walk
  over the installed modules. When a stack is empty nothing is left to be met, so
  that what a pass has found is closed; it is also contained in every closed
  set, because only what a closed set contains is ever pushed. That is how the
  least closed sets of the reference (`FromMain`, `Needed`) are reached without an
  induction over data: `FirstPassIsExact`, `MainComesFirst`, `SelectionIsClosed`,
  `EnabledWithDependencies`. `RequestsEnd` is liveness, but what makes it true is
  proved: every step of a walk descends in an order (`SelectionDescends`,
  `CollectionDescends`) that is well-founded if there are finitely many modules
  (`OrdersAreWellFounded`, the only theorem that assumes it).

* **ProcessProofs**, second part: the migrations, for any rows and any number of
  interruptions. The program is the same 16 functions of `restructure` and the
  files of `db_init` at every start, so that its statements are looked at one by
  one, but for their place only. `Fits` says that a statement brings a table nearer
  to what `db_init` would create: it drops no column that is needed, adds no key
  that is not, and its look-up asks for what it changes. `Prepared` says
  that the columns, tables and complete tables it needs come from earlier
  statements, `Adjacent` that a copied table is dropped directly afterwards. These hold
  of each function (`MigrateContainersTabIsPart` and so on) and are kept when sequences
  are put together, so that they hold of the whole program (`ProgramFacts`) without
  an induction over it. The invariant then relates the tables to the position
  in the program: `DoneInv`, what was executed or skipped has nothing left to do,
  which every later statement keeps (`DoneIsKept`) and which a new start only has
  to establish again; `AlteredInv` and `RenamedInv`, a table has between its old
  and its new columns, and has its new name only if it is `Ready`;
  `CreatedInv` and `MountsInv` for the tables of `db_init`; `CopiedInv` and
  `OverlapInv` for the rows. The last one is what `FailsOnlyWhereKnown` comes down
  to, with the assumption that no row of `configs` has the key of one of
  `list_configs`. Of these `ValuesStayStored` (theorem `NoValueIsLost`) needs
  `CopiedInv`, `SchemaIsCurrent` and `FailsOnlyWhereKnown` need all. What the
  rows refuse (`refused`) is arbitrary in all of them.

Only model-checked: liveness (`ResultsReclaimed`, `FairLockRefinement`,
`ExecConsumesRequest`, `MonitorSettles`, `RequestsEnd`), which this prover cannot
do. Every other property of a passing run is stated by a theorem.

## 5. Where code and text disagree, and what else was met

One run ends with a violation that a text of the repository contradicts; see
`findings` in `PROJECT.json`.

* `aux_unknown`: the error "auxiliary deployment not found" is never returned.

The following behaviours have no text to compare with, or none that a run could
refute. The models have them; where a property would not hold because of one, it
names it as an exception.

Jobs and modules:

* The results of `DeleteDeployments` jobs stay for ever (`results.go` forgets
  their map), and so do those of jobs that were evicted while they ran: the
  cleanup evicts running jobs at its first round, which also means that they
  cannot be cancelled any more.
* Updates and deletions of modules remove images that other modules use.
* A request for all updates reads the modules and is stored later
  (`module.go:198-245`); an execution that ends in between has installed what it
  asks for, and it stays pending (`PendingRequestIsCurrent` names it). One whose
  call began during a refresh, and one whose repository was deleted since, stays
  pending with packages that are no longer offered (`PendingRequestIsOffered`).

Selection:

* The second pass over the dependencies does not descend again into what the
  first has found in the main repository: what only the origin offers of its
  dependencies is missing. On the other hand a dependency that only the origin
  offers takes its own dependencies from there, although the main repository may
  offer them, which the comment at `repository.go:243` puts the other way round.
* If two repositories share the highest priority, which of them is the main one
  depends on the order of a map, and with it whether a request is refused.
* Enabling modules none of which is installed enables all deployments
  (`deployment.go:433`).

Deployments and their data:

* An empty list and an empty file group are accepted and stored, and cannot be
  read any more; nor can any batch or listing with that deployment.
* A secret that services ask for both as a variable and as a mount reaches no
  container.
* Four things make an update fail after the old containers have been removed
  (`LateRefusalsAreKnown`): a global config that is deleted between its read and
  the write of the row; data that are too long for their columns, which nothing
  before the transaction looks at (`update.go:234`); a secret that is only mounted
  and has an unknown id, which the check skips (`secrets.go:42`) and
  `InitPathVariant` refuses (`secrets.go:90`); and a path of a file group that the
  engine does not mount. With the first two the old rows stay, with the other two
  the new ones are written, and every recreate fails as well. A global config that is
  updated while a batch has it in its cache reaches the containers with the old value.
* The aliases of a batch are handed out before its deployments exist; an alias of
  one that fails, or that is deleted later, stays with the containers that have it.
* An update that drops a volume and fails before `ensureContainerVolumes` leaves
  it; no deletion finds it. Secrets loaded by the monitor during a deletion stay
  mounted, and so do those of a create that fails after mounting them
  (`create.go:187`, marked TODO). The monitor unloads secrets of deployments that
  it reads as enabled only (`runtime_monitor.go:98`), so that those of a disabled
  one stay mounted until its environment is removed.

Auxiliary deployments:

* A deletion that removed no container deletes all rows of the table; one of
  volumes that removed none all rows of the deployment's volumes.
* A create that was started before the deletion of the parent leaves a container
  without a record.

Repositories and migrations:

* A deletion of a repository always returns an error (the host directory refuses
  every deletion, and the order of the handlers is that of a map).
* After an interrupted deletion of a repository its refresh reports success
  without its modules, until it has a new commit. After a crash in the write of
  a repo file every refresh fails until the repository is deleted.
* A start interrupted between the copy of the configs and the drop of their
  table makes every later start fail. So do, from the previous version: a table
  of volumes without ids, rows that a new key or type does not admit (two
  volumes of auxiliary deployments among them), a config without a value, and a
  list of several types. The column `order` is never dropped.
* List configs come out of the migration as single ones (`configs.go:151-158`): all
  their values are stored, and a reader gets the last
  (`deployments_read.go:294-316`). Of a list that has only null values no value
  is stored, and reading it fails (`deployments_read.go:281`).
* A query of the migration that ends early is taken for the whole table, which is
  dropped next.

## 6. Not modelled

* **The host directory repository**: its state is what the operator puts there.
* **Deployment advertisements**: the handler has no state and each operation is one
  statement or transaction. What is noteworthy is within a statement: the deletion
  by ids takes the references for the ids (`dep_advertisements.go`,
  `genDeleteDeploymentAdvertisementsFilter`), which without references is `IN ()`;
  an advertisement without items cannot be scanned and makes every listing fail;
  reading one by its id does not look at the deployment. If the deployment is
  deleted between the check and the insertion, the foreign key refuses the latter.
* **What goes with a selection** in `DependencySelection`: the removals of a request,
  which the user names one by one, are in `ModulesChange`; what users enter for
  their deployments is in `DeploymentData`.
* **Host resources, bind mounts, devices** of containers, and the listings of
  deployments: looked up or converted, without state of their own.
* **Reads and conversions** of the database handler, except the left joins that
  cannot be scanned; every write is part of the action of the handler that makes
  it.
* **HTTP API, clients, models, start, helpers** other than those named in
  section 2: conversion and construction.
* **Locks as such**: an operation that holds a mutex is one program counter; the
  recursive read lock in `aux_deployments/list.go:40` is a hazard without a model.
* **Directory names of repositories** are taken to be different. Two sources with
  the same one (`github/handler.go:192`: `a_b/c` and `a/b_c`) would replace each
  other's files.
* **Types, positions and foreign keys** in the migrations, but for their effect:
  that a statement is refused because of the rows (`refused`).
* **Updates of modules under deployments**, and readers of user data that stop
  half-way, in `DeploymentData` (section 2).

## 7. Plan

Done, in this order: `JobsHandler`, `SlotLock`, `ServiceJobs`; `ModuleStore`,
`ModulesHandler`; `ModulesChange`; `Deployments` with the monitor;
`AuxDeployments` with the deletion of the parent; `Migrations`; `Repositories`;
`DependencySelection`; `DeploymentData` with global configs; the proofs of
section 4, last those about images, auxiliary deployments, user data, the
selection, the service as a lock, and the migrations.

What is left, the most important first:

1. `HandlerLocks`: the mutexes of the handlers and of the service with Go's
   reader and writer rules, for absence of deadlock.
2. `ModulesChange` taking its requests from `DependencySelection`.
3. An abstract specification of a deployment (row and world agree, or an
   operation is between them) that `Deployments` and `AuxDeployments` implement.
4. `Repositories` with names that collide; deployment advertisements.
