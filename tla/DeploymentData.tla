----------------------------- MODULE DeploymentData -----------------------------
(***************************************************************************)
(* What the users of deployments have asked for, from their input through  *)
(* the database into the containers (pkg/components/handler/deployments,   *)
(* database/deployments_*.go), and the global configs that several         *)
(* deployments share (handler/global_configs).                             *)
(*                                                                         *)
(* Create, update, recreate and delete handle a batch of modules, one      *)
(* after the other in the order of a map, under the lock of the handler    *)
(* and with one cache for the batch.  Global configs change meanwhile:     *)
(* Service.mu, which their operations hold, is not held by a job.          *)
(*                                                                         *)
(* Module Deployments follows containers, volumes and directories one by   *)
(* one; here the environment of a deployment is there or not, and matters  *)
(* for what it was made from.                                              *)
(*                                                                         *)
(* Modules do not change here.  What an update of a module does is left    *)
(* out: new declarations and defaults under stored data, and the refusal   *)
(* of a recreate until the deployment is updated (recreate.go:118-122).    *)
(* Nor do readers stop half-way, for all that they ignore rows.Err().      *)
(***************************************************************************)
EXTENDS Naturals

CONSTANTS
    Module,       \* modules, each with at most one deployment
    Id,           \* ids of deployments
    Type, Item,   \* types of values and the items that lists are made of
    Global,       \* ids of global configs
    Content,      \* contents of files
    Path,         \* paths within a file group
    Ref,          \* references of a modfile, of whatever kind
    ConfigSpec,   \* per module: the configs that it declares
    FileSpec,     \* per module: its files
    GroupSpec,    \* per module: its file groups
    SecretId,     \* ids in the secret manager
    SecretSpec,   \* per module: its secrets, and how services use them
    DependsOn,    \* per module: the modules that its services refer to
    Input,        \* what users send for a module
    GlobalInput,  \* and for a global config
    Unstorable,   \* data that the tables do not take
    Unusable,     \* data that containers cannot be made with
    MaxFaults,    \* bound on failures and crashes
    NoValue, NoContent, NoRow, NoEnv, NoModule, NoOp

VARIABLES
    globals,  \* tables global_configs and global_config_values
    rows,     \* table deployments and the tables of user data
    env,      \* what all the containers of a deployment were created with
    op,       \* the operation that holds Handler.mu
    outdated, \* auxiliary: modules with a global config that was updated since
              \* the operation that made their containers has read it
    faults    \* failures and crashes so far

vars == <<globals, rows, env, op, outdated, faults>>

Partial(S, T) == UNION {[D -> T] : D \in SUBSET S}

\* A value that is no list has one item.  Of a list only the items matter here.
Value == [type: Type, list: {TRUE}, items: SUBSET Item] \cup
         [type: Type, list: {FALSE}, items: {{i} : i \in Item}]

\* options = {}: any value; extend: the options are suggestions.
Config == [type: Type, list: BOOLEAN, options: SUBSET Item, extend: BOOLEAN,
           default: Value \cup {NoValue}, required: BOOLEAN]

File == [default: Content \cup {NoContent}, required: BOOLEAN]

Secret == [required: BOOLEAN, env: BOOLEAN, mount: BOOLEAN]

\* A secret has one item here, and services use each file group.
UserInput == [configs: Partial(Ref, Value), globals: Partial(Ref, Global),
              files: Partial(Ref, Content \cup {NoContent}),
              groups: Partial(Ref, SUBSET Path), secrets: Partial(Ref, SecretId)]

Row == [id: Id, configs: Partial(Ref, Value), globals: Partial(Ref, Global),
        files: Partial(Ref, Content), groups: Partial(Ref, SUBSET Path),
        secrets: Partial(Ref, SecretId)]

\* id: EnvVariableDeploymentId; deps: the deployments whose aliases are given to
\* the services.
Env == [id: Id, configs: Partial(Ref, Value), files: Partial(Ref, Content),
        groups: Partial(Ref, SUBSET Path), secretVars: Partial(Ref, SecretId),
        secretMounts: Partial(Ref, SecretId), deps: Partial(Module, Id)]

\* ids and cache: cacheCollection.Deployments and GlobalConfigs; stale: auxiliary,
\* the cached global configs that have been updated since; cur, data and next: the
\* module at hand with its user data and the containers it is to get.
Op == [kind: {"create", "update", "recreate", "delete"},
       batch: SUBSET Module, todo: SUBSET Module, errors: SUBSET Module,
       input: Partial(Module, Input), ids: Partial(Module, Id),
       cache: Partial(Global, Value), stale: SUBSET Global,
       cur: Module \cup {NoModule}, step: {"next", "remove", "write", "build"},
       data: Row \cup {NoRow}, next: Env \cup {NoEnv}]

ASSUME DeploymentDataAssumption ==
    /\ GroupSpec \in [Module -> SUBSET Ref]
    /\ DependsOn \in [Module -> SUBSET Module]
    /\ \A m \in Module :
          /\ DOMAIN ConfigSpec[m] \subseteq Ref
          /\ ConfigSpec[m] \in [DOMAIN ConfigSpec[m] -> Config]
          /\ DOMAIN FileSpec[m] \subseteq Ref
          /\ FileSpec[m] \in [DOMAIN FileSpec[m] -> File]
          /\ DOMAIN SecretSpec[m] \subseteq Ref
          /\ SecretSpec[m] \in [DOMAIN SecretSpec[m] -> Secret]
          /\ m \notin DependsOn[m]
    /\ \A input \in Input : input \in UserInput
    /\ GlobalInput \subseteq Value
    \* Strings, ids and paths that are too long for their columns, lists with more
    \* items than a SMALLINT counts, paths that differ in nothing but their case.
    /\ Unstorable \in [values: SUBSET Value, groups: SUBSET SUBSET Path,
                       secrets: SUBSET SecretId]
    \* Paths that the engine does not mount, ids that the secret manager does not know.
    /\ Unusable \in [groups: SUBSET SUBSET Path, secrets: SUBSET SecretId]
    /\ MaxFaults \in Nat
    /\ NoValue \notin Value /\ NoContent \notin Content
    /\ NoRow \notin Row /\ NoEnv \notin Env
    /\ NoModule \notin Module /\ NoOp \notin Op

TypeOK ==
    /\ globals \in [Global -> Value \cup {NoValue}]
    /\ rows \in [Module -> Row \cup {NoRow}]
    /\ env \in [Module -> Env \cup {NoEnv}]
    /\ op \in Op \cup {NoOp}
    /\ outdated \in SUBSET Module
    /\ faults \in 0..MaxFaults

Init ==
    /\ globals = [g \in Global |-> NoValue]
    /\ rows = [m \in Module |-> NoRow]
    /\ env = [m \in Module |-> NoEnv]
    /\ op = NoOp
    /\ outdated = {}
    /\ faults = 0

Fault == faults < MaxFaults /\ faults' = faults + 1

NoFault == UNCHANGED faults

Restricted(f, S) == [r \in DOMAIN f \cap S |-> f[r]]

\* g where it is defined, f elsewhere.
Override(f, g) ==
    [r \in DOMAIN f \cup DOMAIN g |-> IF r \in DOMAIN g THEN g[r] ELSE f[r]]

Images(f) == {f[r] : r \in DOMAIN f}

-----------------------------------------------------------------------------
(* Values. *)

\* The checks of the type's own options are left out.
ValidateValue(v, config) ==
    /\ v.type = config.type
    /\ v.list = config.list
    /\ config.options = {} \/ config.extend \/ v.items \subseteq config.options

\* An empty list has no row in the table of values.
EmptyList(v) == v.list /\ v.items = {}

\* Of a config without a row of values the left join returns NULL, which does not
\* scan: ReadGlobalConfigs fails for all the ids it is asked for.
GlobalsReadable(S) ==
    \A g \in S : globals[g] # NoValue => ~ EmptyList(globals[g])

\* Likewise ReadDeploymentsConfigs and ReadDeploymentsFileGroups, for a list or a
\* group that is empty.
ConfigsReadable(S) ==
    \A m \in S : \A r \in DOMAIN rows[m].configs : ~ EmptyList(rows[m].configs[r])

GroupsReadable(S) ==
    \A m \in S : \A r \in DOMAIN rows[m].groups : rows[m].groups[r] # {}

-----------------------------------------------------------------------------
(* Default data, user data and their merge. *)

DefaultConfigs(m) ==
    [r \in {q \in DOMAIN ConfigSpec[m] : ConfigSpec[m][q].default # NoValue}
        |-> ConfigSpec[m][r].default]

DefaultFiles(m) ==
    [r \in {q \in DOMAIN FileSpec[m] : FileSpec[m][q].default # NoContent}
        |-> FileSpec[m][r].default]

Differs(f, g, r) == r \notin DOMAIN g \/ f[r] # g[r]

\* A value that equals the default is not stored.
ProvidedConfigs(m, input) ==
    [r \in {q \in DOMAIN input.configs \cap DOMAIN ConfigSpec[m] :
               Differs(input.configs, DefaultConfigs(m), q)}
        |-> input.configs[r]]

SelectedGlobalConfigs(m, input) == Restricted(input.globals, DOMAIN ConfigSpec[m])

\* A file without data counts as not given.
ProvidedFiles(m, input) ==
    [r \in {q \in DOMAIN input.files \cap DOMAIN FileSpec[m] :
               /\ input.files[q] # NoContent
               /\ Differs(input.files, DefaultFiles(m), q)}
        |-> input.files[r]]

ProvidedFileGroups(m, input) == Restricted(input.groups, GroupSpec[m])

\* A secret that no service uses has no items, and with that no rows.
SelectedSecrets(m, input) ==
    Restricted(input.secrets,
               {r \in DOMAIN SecretSpec[m] : SecretSpec[m][r].env \/ SecretSpec[m][r].mount})

RequiredSecrets(m) == {r \in DOMAIN SecretSpec[m] : SecretSpec[m][r].required}

UserData(m, input, id) ==
    [id |-> id,
     configs |-> ProvidedConfigs(m, input),
     globals |-> SelectedGlobalConfigs(m, input),
     files |-> ProvidedFiles(m, input),
     groups |-> ProvidedFileGroups(m, input),
     secrets |-> SelectedSecrets(m, input)]

\* getGlobalConfigs with the values of the cache.
GlobalConfigs(data, cache) == [r \in DOMAIN data.globals |-> cache[data.globals[r]]]

MergeConfigs(m, data, cache) ==
    Override(Override(DefaultConfigs(m), data.configs), GlobalConfigs(data, cache))

MergeFiles(m, data) == Override(DefaultFiles(m), data.files)

CheckConfigs(m, configs) ==
    \A r \in DOMAIN ConfigSpec[m] : ConfigSpec[m][r].required => r \in DOMAIN configs

CheckFiles(m, files) ==
    \A r \in DOMAIN FileSpec[m] : FileSpec[m][r].required => r \in DOMAIN files

\* updateSecretValuesCache skips what is (also) mounted, createSecretMounts what
\* is (also) an environment variable.
SecretVars(m, data) ==
    Restricted(data.secrets, {r \in DOMAIN data.secrets :
                                 SecretSpec[m][r].env /\ ~ SecretSpec[m][r].mount})

SecretMounts(m, data) ==
    Restricted(data.secrets, {r \in DOMAIN data.secrets :
                                 SecretSpec[m][r].mount /\ ~ SecretSpec[m][r].env})

\* What a transaction that inserts the user data does not refuse.
Storable(data) ==
    /\ Images(data.configs) \cap Unstorable.values = {}
    /\ Images(data.groups) \cap Unstorable.groups = {}
    /\ Images(data.secrets) \cap Unstorable.secrets = {}

\* What InitPathVariant and CreateContainer do not refuse.
Mountable(e) ==
    /\ Images(e.secretMounts) \cap Unusable.secrets = {}
    /\ Images(e.groups) \cap Unusable.groups = {}

\* createContainers: what the services are given.
NewEnv(m, data, cache, ids) ==
    [id |-> data.id,
     configs |-> MergeConfigs(m, data, cache),
     files |-> MergeFiles(m, data),
     groups |-> data.groups,
     secretVars |-> SecretVars(m, data),
     secretMounts |-> SecretMounts(m, data),
     deps |-> Restricted(ids, DependsOn[m])]

-----------------------------------------------------------------------------
(* Global configs: one statement or transaction each, under Service.mu.    *)

\* An id is fresh (and not one that an operation still has in its cache).
CreateGlobal(g, v) ==
    /\ globals[g] = NoValue /\ v \notin Unstorable.values
    /\ op # NoOp => g \notin DOMAIN op.cache
    /\ globals' = [globals EXCEPT ![g] = v]
    /\ UNCHANGED <<rows, env, op, outdated, faults>>

Selects(data, g) == g \in Images(data.globals)

SelectedBy(g) == {m \in Module : rows[m] # NoRow /\ Selects(rows[m], g)}

\* The type may change with the value.  For an id that does not exist nothing
\* happens: no row is changed, and values cannot be inserted without one.
UpdateGlobal(g, v) ==
    /\ globals[g] # NoValue /\ v \notin Unstorable.values
    /\ globals' = [globals EXCEPT ![g] = v]
    /\ outdated' = outdated \cup SelectedBy(g)
    /\ op' = IF op # NoOp /\ g \in DOMAIN op.cache
             THEN [op EXCEPT !.stale = @ \cup {g}] ELSE op
    /\ UNCHANGED <<rows, env, faults>>

\* Faulty variant: without the foreign key of dep_global_configs.
DeleteGlobalsAnyway(S) ==
    /\ S # {}
    /\ globals' = [g \in Global |-> IF g \in S THEN NoValue ELSE globals[g]]
    /\ UNCHANGED <<rows, env, op, outdated, faults>>

\* The statement fails as a whole if a deployment selects one of them.  (No ids
\* and allowAll: S is all of them.)
DeleteGlobals(S) ==
    /\ S # {}
    /\ \A g \in S : SelectedBy(g) = {}
    /\ globals' = [g \in Global |-> IF g \in S THEN NoValue ELSE globals[g]]
    /\ UNCHANGED <<rows, env, op, outdated, faults>>

-----------------------------------------------------------------------------
(* Operations on deployments. *)

Deployed == {m \in Module : rows[m] # NoRow}

Begin(kind, S, input, ids) ==
    /\ op = NoOp
    /\ op' = [kind |-> kind, batch |-> S, todo |-> S, errors |-> {},
              input |-> input, ids |-> ids, cache |-> [g \in {} |-> NoValue],
              stale |-> {}, cur |-> NoModule, step |-> "next",
              data |-> NoRow, next |-> NoEnv]
    /\ UNCHANGED <<globals, rows, env, outdated, faults>>

\* getUserInputs: one value that is not valid refuses all of them.
ValidInputs(input) ==
    \A m \in DOMAIN input : \A r \in DOMAIN input[m].configs \cap DOMAIN ConfigSpec[m] :
        ValidateValue(input[m].configs[r], ConfigSpec[m][r])

\* Ids in use: of rows, and of environments that refer to one.
UsedIds ==
    {rows[m].id : m \in Deployed} \cup
    UNION {Images(env[m].deps) : m \in {n \in Module : env[n] # NoEnv}}

\* CreateDeployments leaves out modules that are deployed; all ids of the batch are
\* generated at the beginning.
Create(input, ids) ==
    /\ DOMAIN ids = DOMAIN input /\ DOMAIN ids # {}
    /\ DOMAIN ids \cap Deployed = {}
    /\ Images(ids) \cap UsedIds = {}
    /\ \A m, n \in DOMAIN ids : m # n => ids[m] # ids[n]
    /\ ValidInputs(input)
    /\ Begin("create", DOMAIN input, input, ids)

IdsOf(S) == [m \in S |-> rows[m].id]

\* A module without a deployment is an error in the results, and no more.
Update(input) ==
    /\ DOMAIN input # {} /\ DOMAIN input \subseteq Deployed
    /\ ValidInputs(input)
    /\ Begin("update", DOMAIN input, input, IdsOf(DOMAIN input))

\* getDeploymentsUserDataFromDB reads the data of the whole batch at once.
Recreate(S) ==
    /\ S # {} /\ S \subseteq Deployed
    /\ ConfigsReadable(S) /\ GroupsReadable(S)
    /\ Begin("recreate", S, [m \in {} |-> NoValue], IdsOf(S))

Delete(S) ==
    /\ S # {} /\ S \subseteq Deployed
    /\ Begin("delete", S, [m \in {} |-> NoValue], IdsOf(S))

Unhandled(m) == op # NoOp /\ op.cur = NoModule /\ m \in op.todo

\* The error ends up in the result of the module, the loop goes on.
Failed(m) ==
    [op EXCEPT !.todo = @ \ {m}, !.errors = @ \cup {m}, !.cur = NoModule,
               !.step = "next", !.data = NoRow, !.next = NoEnv]

DataOf(m) ==
    IF op.kind = "recreate" THEN rows[m] ELSE UserData(m, op.input[m], op.ids[m])

Rejects(m) == op.kind # "recreate" /\ ~ (RequiredSecrets(m) \subseteq DOMAIN op.input[m].secrets)

\* updateDeploymentsCache: what is not of the batch must be deployed.
DependenciesFound(m) == DependsOn[m] \subseteq DOMAIN op.ids \cup Deployed

KnownIds(m) == Override(IdsOf((DependsOn[m] \cap Deployed) \ DOMAIN op.ids), op.ids)

\* updateGlobalConfigsCache reads what an earlier module has not needed.
Uncached(data) == Images(data.globals) \ DOMAIN op.cache

Cached(data) ==
    Override([g \in {h \in Uncached(data) : globals[h] # NoValue} |-> globals[g]],
             op.cache)

\* GetValueVariant is asked for the secrets of environment variables, and no others.
SecretsFound(m, data) == Images(SecretVars(m, data)) \cap Unusable.secrets = {}

\* What follows from the input, the cache and nothing else.
Accepted(m, data, cache) ==
    /\ SecretsFound(m, data)
    /\ Images(data.globals) \subseteq DOMAIN cache
    /\ \A r \in DOMAIN data.globals :
          ValidateValue(cache[data.globals[r]], ConfigSpec[m][r])
    /\ CheckConfigs(m, MergeConfigs(m, data, cache))
    /\ CheckFiles(m, MergeFiles(m, data))

Passes(m) ==
    /\ ~ Rejects(m)
    /\ DependenciesFound(m)
    /\ GlobalsReadable(Uncached(DataOf(m)))
    /\ Accepted(m, DataOf(m), Cached(DataOf(m)))

\* Faulty variant: the checks come after the removal of the environment.
CheckAfterRemoval(m) ==
    /\ Unhandled(m)
    /\ op.kind # "delete"
    /\ op' = IF Passes(m)
             THEN [op EXCEPT !.cur = m, !.step = "write", !.data = DataOf(m),
                             !.cache = Cached(DataOf(m)), !.ids = KnownIds(m),
                             !.next = NewEnv(m, DataOf(m), Cached(DataOf(m)), KnownIds(m))]
             ELSE Failed(m)
    /\ env' = [env EXCEPT ![m] = NoEnv]
    /\ UNCHANGED <<globals, rows, outdated, faults>>

\* Up to here nothing is changed but the cache, which keeps what was read.
Check(m) ==
    /\ Unhandled(m)
    /\ op.kind # "delete"
    /\ op' = IF Passes(m)
             THEN [op EXCEPT !.cur = m,
                             !.step = IF op.kind = "create" THEN "write" ELSE "remove",
                             !.data = DataOf(m),
                             !.cache = Cached(DataOf(m)),
                             !.ids = KnownIds(m),
                             !.next = NewEnv(m, DataOf(m), Cached(DataOf(m)), KnownIds(m))]
             ELSE IF ~ Rejects(m) /\ DependenciesFound(m) /\ GlobalsReadable(Uncached(DataOf(m)))
             THEN [Failed(m) EXCEPT !.cache = Cached(DataOf(m))]
             ELSE Failed(m)
    /\ UNCHANGED <<globals, rows, env, outdated, faults>>

\* The database, the host manager or the secret manager.
CheckFails(m) ==
    /\ Unhandled(m)
    /\ op.kind # "delete"
    /\ op' = Failed(m)
    /\ Fault
    /\ UNCHANGED <<globals, rows, env, outdated>>

BeginDeletion(m) ==
    /\ Unhandled(m)
    /\ op.kind = "delete"
    /\ op' = [op EXCEPT !.cur = m, !.step = "remove"]
    /\ UNCHANGED <<globals, rows, env, outdated, faults>>

At(m, step) == op # NoOp /\ op.cur = m /\ op.step = step

\* removeDeploymentEnvironment, which may stop half-way.
Remove(m) ==
    /\ At(m, "remove")
    /\ env' = [env EXCEPT ![m] = NoEnv]
    /\ op' = [op EXCEPT !.step = "write"]
    /\ UNCHANGED <<globals, rows, outdated, faults>>

RemoveFails(m) ==
    /\ At(m, "remove")
    /\ env' \in {env, [env EXCEPT ![m] = NoEnv]}
    /\ op' = Failed(m)
    /\ Fault
    /\ UNCHANGED <<globals, rows, outdated>>

\* A selected global config may have been deleted since it was read.
Dangling(data) == \E g \in Images(data.globals) : globals[g] = NoValue

\* Data that no check has looked at are refused here, with the environment gone.
WriteRefused ==
    op.kind \in {"create", "update"} /\ (Dangling(op.data) \/ ~ Storable(op.data))

Written(m) == [op EXCEPT !.step = "build"]

\* Faulty variant: the old rows of the user's configs stay.
WriteKeepingConfigs(m) ==
    /\ At(m, "write") /\ op.kind \in {"create", "update"}
    /\ ~ Dangling(op.data) /\ Storable(op.data)
    /\ rows' = [rows EXCEPT ![m] =
                   IF rows[m] = NoRow THEN op.data
                   ELSE [op.data EXCEPT !.configs = Override(rows[m].configs, @)]]
    /\ op' = Written(m)
    /\ UNCHANGED <<globals, env, outdated, faults>>

\* Faulty variant: as for a create, with an id of its own.
WriteNewId(m) ==
    /\ At(m, "write") /\ op.kind \in {"create", "update"}
    /\ ~ Dangling(op.data) /\ Storable(op.data)
    /\ \E i \in Id :
          /\ i \notin UsedIds \/ i = op.data.id
          /\ rows' = [rows EXCEPT ![m] = [op.data EXCEPT !.id = i]]
          /\ op' = [Written(m) EXCEPT !.next.id = i]
    /\ UNCHANGED <<globals, env, outdated, faults>>

\* CreateDeployment and UpdateDeployment: one transaction, in which an update deletes
\* all user data of the deployment and inserts the new.
Write(m) ==
    /\ At(m, "write") /\ op.kind \in {"create", "update"}
    /\ ~ Dangling(op.data) /\ Storable(op.data)
    /\ rows' = [rows EXCEPT ![m] = op.data]
    /\ op' = Written(m)
    /\ UNCHANGED <<globals, env, outdated, faults>>

\* UpdateDeploymentContainerNames: the user data stay.
WriteNames(m) ==
    /\ At(m, "write") /\ op.kind = "recreate"
    /\ op' = Written(m)
    /\ UNCHANGED <<globals, rows, env, outdated, faults>>

\* All tables of user data follow by their foreign keys.
DeleteRow(m) ==
    /\ At(m, "write") /\ op.kind = "delete"
    /\ rows' = [rows EXCEPT ![m] = NoRow]
    /\ op' = [Failed(m) EXCEPT !.errors = op.errors]
    /\ UNCHANGED <<globals, env, outdated, faults>>

WriteFails(m) ==
    /\ At(m, "write")
    /\ op' = Failed(m)
    /\ IF WriteRefused THEN NoFault ELSE Fault
    /\ UNCHANGED <<globals, rows, env, outdated>>

Build(m) ==
    /\ At(m, "build") /\ Mountable(op.next)
    /\ env' = [env EXCEPT ![m] = op.next]
    /\ outdated' = IF Images(op.data.globals) \cap op.stale = {}
                   THEN outdated \ {m} ELSE outdated \cup {m}
    /\ op' = [Failed(m) EXCEPT !.errors = op.errors]
    /\ UNCHANGED <<globals, rows, faults>>

\* Some container or endpoint, or what they mount.  (A secret that was deleted since
\* it was chosen is a fault.)
BuildFails(m) ==
    /\ At(m, "build")
    /\ op' = Failed(m)
    /\ IF Mountable(op.next) THEN Fault ELSE NoFault
    /\ UNCHANGED <<globals, rows, env, outdated>>

End ==
    /\ op # NoOp /\ op.todo = {}
    /\ op' = NoOp
    /\ UNCHANGED <<globals, rows, env, outdated, faults>>

Crash ==
    /\ op # NoOp
    /\ op' = NoOp
    /\ Fault
    /\ UNCHANGED <<globals, rows, env, outdated>>

GlobalsNext ==
    \/ \E g \in Global, v \in GlobalInput : CreateGlobal(g, v) \/ UpdateGlobal(g, v)
    \/ \E S \in SUBSET Global : DeleteGlobals(S)

Request ==
    \/ \E S \in SUBSET Module :
          \/ Recreate(S) \/ Delete(S)
          \/ \E input \in [S -> Input] :
                Update(input) \/ \E ids \in [S -> Id] : Create(input, ids)

Step(m) ==
    \/ Check(m) \/ CheckFails(m) \/ BeginDeletion(m)
    \/ Remove(m) \/ RemoveFails(m)
    \/ Write(m) \/ WriteNames(m) \/ DeleteRow(m) \/ WriteFails(m)
    \/ Build(m) \/ BuildFails(m)

Next == \/ GlobalsNext \/ Request \/ (\E m \in Module : Step(m)) \/ End \/ Crash

Spec == Init /\ [][Next]_vars

-----------------------------------------------------------------------------
(* Properties *)

\* What the containers of a deployment have is what its rows say: the user's value
\* where there is one, the global config before it, the default behind it, files
\* and groups, each secret in the way that the services ask for.  Exceptions: a
\* global config that was updated after the operation had read it, and a secret that
\* is asked for in both ways, which reaches no container.  (recreateDeployment gets
\* all of this from the database and must come to what create or update made.)
EnvironmentIsCurrent ==
    \A m \in Module : env[m] # NoEnv =>
        LET row == rows[m] IN
        /\ row # NoRow
        /\ env[m].id = row.id
        /\ \A r \in DOMAIN ConfigSpec[m] :
              CASE r \in DOMAIN row.globals ->
                       m \notin outdated =>
                           /\ r \in DOMAIN env[m].configs
                           /\ env[m].configs[r] = globals[row.globals[r]]
                [] r \notin DOMAIN row.globals /\ r \in DOMAIN row.configs ->
                       r \in DOMAIN env[m].configs /\ env[m].configs[r] = row.configs[r]
                [] OTHER ->
                       IF ConfigSpec[m][r].default = NoValue
                       THEN r \notin DOMAIN env[m].configs
                       ELSE r \in DOMAIN env[m].configs /\
                            env[m].configs[r] = ConfigSpec[m][r].default
        /\ env[m].groups = row.groups
        /\ \A r \in DOMAIN row.files :
              r \in DOMAIN env[m].files /\ env[m].files[r] = row.files[r]
        /\ \A r \in DOMAIN row.secrets :
              \/ SecretSpec[m][r].env /\ SecretSpec[m][r].mount
              \/ /\ SecretSpec[m][r].env =>
                        r \in DOMAIN env[m].secretVars /\ env[m].secretVars[r] = row.secrets[r]
                 /\ SecretSpec[m][r].mount =>
                        r \in DOMAIN env[m].secretMounts /\ env[m].secretMounts[r] = row.secrets[r]

\* What an operation has accepted and stored passes the checks of a recreate, until
\* a dependency is deleted or a selected global config gets a value that the module
\* does not take; an empty list or an empty file group is accepted and stored, and
\* cannot be read any more.
StoredDataStaysUsable ==
    \A m \in Deployed :
        LET data == rows[m]
            all == [g \in {h \in Global : globals[h] # NoValue} |-> globals[g]] IN
        \/ ~ ConfigsReadable({m}) \/ ~ GroupsReadable({m})
        \/ ~ GlobalsReadable(Images(data.globals))
        \/ \E r \in DOMAIN data.globals : LET v == globals[data.globals[r]] IN
              v # NoValue /\ ~ ValidateValue(v, ConfigSpec[m][r])
        \/ Accepted(m, data, all)

\* The services of m are given the alias of a deployment of d that does not exist.
Misled(m, d) ==
    /\ env[m] # NoEnv
    /\ d \in DOMAIN env[m].deps
    /\ rows[d] = NoRow \/ rows[d].id # env[m].deps[d]

\* Containers are given the aliases of deployments that exist.  An alias goes stale
\* by the deletion of the dependency, or if both are created in one batch and the
\* dependency's turn is still to come or ended with an error.
MisledOnlyWhereKnown ==
    [][\A m, d \in Module :
          (Misled(m, d)' /\ ~ Misled(m, d)) =>
              \/ rows[d] # NoRow /\ rows'[d] = NoRow
              \/ /\ op.kind = "create" /\ d \in op.batch
                 /\ d \in op.todo \cup op.errors]_vars

\* An operation that is refused, with nothing failing, is refused before anything was
\* changed, but for what no check looks at: data that the transaction refuses, too
\* long for their columns or with a global config deleted since it was read, after the
\* removal of the containers and with the old rows kept; and secrets to be mounted that
\* the secret manager does not know, or paths that the engine does not mount, after
\* the removal and with the new rows written.
LateRefusalsAreKnown ==
    [][\A m \in Module :
          (op # NoOp /\ op' # NoOp /\ m \in op'.errors \ op.errors /\ faults' = faults) =>
              \/ op.cur # m /\ rows'[m] = rows[m] /\ env'[m] = env[m]
              \/ /\ op.cur = m /\ op.step = "write" /\ op.kind \in {"create", "update"}
                 /\ Dangling(op.data) \/ ~ Storable(op.data)
                 /\ rows'[m] = rows[m]
              \/ /\ op.cur = m /\ op.step = "build"
                 /\ \/ Images(rows[m].groups) \cap Unusable.groups # {}
                    \/ \E r \in DOMAIN rows[m].secrets :
                          SecretSpec[m][r].mount /\ rows[m].secrets[r] \in Unusable.secrets
                 /\ rows'[m] = op.data]_vars

=============================================================================
