-------------------------- MODULE DeploymentDataProofs --------------------------
(***************************************************************************)
(* Proofs about DeploymentData: for any modules with any configs, files,   *)
(* groups, secrets and dependencies, containers are made from what the     *)
(* rows say, what is stored stays usable, and aliases go stale only in the *)
(* ways that are named.                                                    *)
(***************************************************************************)
EXTENDS DeploymentData, TLAPS

(* Partial functions. *)

LEMMA PartialIs ==
    ASSUME NEW S, NEW T, NEW f
    PROVE  f \in Partial(S, T) <=> (DOMAIN f \subseteq S /\ f \in [DOMAIN f -> T])
  BY DEF Partial

LEMMA RestrictedType ==
    ASSUME NEW S, NEW T, NEW f \in Partial(S, T), NEW A
    PROVE  /\ Restricted(f, A) \in Partial(S, T)
           /\ DOMAIN Restricted(f, A) = DOMAIN f \cap A
           /\ \A r \in DOMAIN f \cap A : Restricted(f, A)[r] = f[r]
<1>1. DOMAIN f \subseteq S /\ f \in [DOMAIN f -> T]
  BY PartialIs
<1>2. /\ DOMAIN Restricted(f, A) = DOMAIN f \cap A
      /\ Restricted(f, A) \in [DOMAIN f \cap A -> T]
  BY <1>1 DEF Restricted
<1>. QED  BY <1>1, <1>2, PartialIs DEF Restricted

LEMMA OverrideType ==
    ASSUME NEW S, NEW T, NEW f \in Partial(S, T), NEW g \in Partial(S, T)
    PROVE  Override(f, g) \in Partial(S, T)
<1>1. /\ DOMAIN f \subseteq S /\ f \in [DOMAIN f -> T]
      /\ DOMAIN g \subseteq S /\ g \in [DOMAIN g -> T]
  BY PartialIs
<1>2. /\ DOMAIN Override(f, g) = DOMAIN f \cup DOMAIN g
      /\ Override(f, g) \in [DOMAIN f \cup DOMAIN g -> T]
  BY <1>1 DEF Override
<1>. QED  BY <1>1, <1>2, PartialIs

LEMMA OverrideIs ==
    ASSUME NEW f, NEW g
    PROVE  /\ DOMAIN Override(f, g) = DOMAIN f \cup DOMAIN g
           /\ \A r \in DOMAIN g : Override(f, g)[r] = g[r]
           /\ \A r \in DOMAIN f \ DOMAIN g : Override(f, g)[r] = f[r]
  BY DEF Override

LEMMA EmptyType ==
    ASSUME NEW S, NEW T, NEW e
    PROVE  [x \in {} |-> e] \in Partial(S, T)
  BY PartialIs

LEMMA ImagesType ==
    ASSUME NEW S, NEW T, NEW f \in Partial(S, T)
    PROVE  Images(f) \subseteq T /\ \A r \in DOMAIN f : f[r] \in Images(f)
  BY PartialIs DEF Images

-----------------------------------------------------------------------------
(* Data of the right type. *)

LEMMA DefaultsType ==
    ASSUME NEW m \in Module
    PROVE  /\ DefaultConfigs(m) \in Partial(Ref, Value)
           /\ DefaultFiles(m) \in Partial(Ref, Content)
           /\ DOMAIN ConfigSpec[m] \subseteq Ref /\ DOMAIN FileSpec[m] \subseteq Ref
           /\ \A r \in DOMAIN ConfigSpec[m] : ConfigSpec[m][r] \in Config
<1>1. /\ \A r \in DOMAIN ConfigSpec[m] : ConfigSpec[m][r] \in Config
      /\ \A r \in DOMAIN FileSpec[m] : FileSpec[m][r] \in File
      /\ DOMAIN ConfigSpec[m] \subseteq Ref /\ DOMAIN FileSpec[m] \subseteq Ref
  BY DeploymentDataAssumption
<1>2. DefaultConfigs(m) \in
          [{q \in DOMAIN ConfigSpec[m] : ConfigSpec[m][q].default # NoValue} -> Value]
  BY <1>1 DEF DefaultConfigs, Config
<1>3. DefaultFiles(m) \in
          [{q \in DOMAIN FileSpec[m] : FileSpec[m][q].default # NoContent} -> Content]
  BY <1>1 DEF DefaultFiles, File
<1>. QED  BY <1>1, <1>2, <1>3, PartialIs

LEMMA UserDataType ==
    ASSUME NEW m \in Module, NEW input \in UserInput, NEW i \in Id
    PROVE  /\ UserData(m, input, i) \in Row
           /\ UserData(m, input, i).id = i
           /\ DOMAIN UserData(m, input, i).globals \subseteq DOMAIN ConfigSpec[m]
<1>1. /\ input.configs \in Partial(Ref, Value) /\ input.globals \in Partial(Ref, Global)
      /\ input.files \in Partial(Ref, Content \cup {NoContent})
      /\ input.groups \in Partial(Ref, SUBSET Path)
      /\ input.secrets \in Partial(Ref, SecretId)
  BY DEF UserInput
<1>2. ProvidedConfigs(m, input) \in Partial(Ref, Value)
  <2>1. DOMAIN input.configs \subseteq Ref /\ input.configs \in [DOMAIN input.configs -> Value]
    BY <1>1, PartialIs
  <2>2. /\ DOMAIN ProvidedConfigs(m, input) \subseteq DOMAIN input.configs
        /\ \A r \in DOMAIN ProvidedConfigs(m, input) :
              ProvidedConfigs(m, input)[r] \in Value
        /\ ProvidedConfigs(m, input) =
              [r \in DOMAIN ProvidedConfigs(m, input) |-> ProvidedConfigs(m, input)[r]]
    BY <2>1 DEF ProvidedConfigs
  <2>. QED  BY <2>1, <2>2, PartialIs
<1>3. /\ SelectedGlobalConfigs(m, input) \in Partial(Ref, Global)
      /\ DOMAIN SelectedGlobalConfigs(m, input) \subseteq DOMAIN ConfigSpec[m]
  <2>1. SelectedGlobalConfigs(m, input) = Restricted(input.globals, DOMAIN ConfigSpec[m])
    BY DEF SelectedGlobalConfigs
  <2>2. Restricted(input.globals, DOMAIN ConfigSpec[m]) \in Partial(Ref, Global)
    BY <1>1, RestrictedType
  <2>3. DOMAIN Restricted(input.globals, DOMAIN ConfigSpec[m]) =
            DOMAIN input.globals \cap DOMAIN ConfigSpec[m]
    BY DEF Restricted
  <2>. QED  BY <2>1, <2>2, <2>3
<1>4. ProvidedFiles(m, input) \in Partial(Ref, Content)
  <2>1. /\ DOMAIN input.files \subseteq Ref
        /\ input.files \in [DOMAIN input.files -> Content \cup {NoContent}]
    BY <1>1, PartialIs
  <2>2. /\ DOMAIN ProvidedFiles(m, input) \subseteq DOMAIN input.files
        /\ \A r \in DOMAIN ProvidedFiles(m, input) : ProvidedFiles(m, input)[r] \in Content
        /\ ProvidedFiles(m, input) =
              [r \in DOMAIN ProvidedFiles(m, input) |-> ProvidedFiles(m, input)[r]]
    BY <2>1 DEF ProvidedFiles
  <2>. QED  BY <2>1, <2>2, PartialIs
<1>5. ProvidedFileGroups(m, input) \in Partial(Ref, SUBSET Path)
  BY <1>1, RestrictedType DEF ProvidedFileGroups
<1>6. SelectedSecrets(m, input) \in Partial(Ref, SecretId)
  BY <1>1, RestrictedType DEF SelectedSecrets
<1>. QED  BY <1>2, <1>3, <1>4, <1>5, <1>6 DEF UserData, Row

LEMMA GlobalConfigsType ==
    ASSUME NEW data \in Row, NEW cache \in Partial(Global, Value),
           Images(data.globals) \subseteq DOMAIN cache
    PROVE  /\ GlobalConfigs(data, cache) \in Partial(Ref, Value)
           /\ DOMAIN GlobalConfigs(data, cache) = DOMAIN data.globals
<1>1. data.globals \in Partial(Ref, Global)
  BY DEF Row
<1>2. DOMAIN data.globals \subseteq Ref /\ \A r \in DOMAIN data.globals : data.globals[r] \in DOMAIN cache
  BY <1>1, ImagesType, PartialIs
<1>3. cache \in [DOMAIN cache -> Value]
  BY PartialIs
<1>4. GlobalConfigs(data, cache) \in [DOMAIN data.globals -> Value]
  BY <1>2, <1>3 DEF GlobalConfigs
<1>. QED  BY <1>2, <1>4, PartialIs

\* Which configs the merge has does not depend on the values of the global ones.
LEMMA MergeConfigsIs ==
    ASSUME NEW m \in Module, NEW data \in Row, NEW cache \in Partial(Global, Value),
           Images(data.globals) \subseteq DOMAIN cache
    PROVE  /\ MergeConfigs(m, data, cache) \in Partial(Ref, Value)
           /\ DOMAIN MergeConfigs(m, data, cache) =
                 DOMAIN DefaultConfigs(m) \cup DOMAIN data.configs \cup DOMAIN data.globals
           /\ \A r \in DOMAIN data.globals :
                 MergeConfigs(m, data, cache)[r] = cache[data.globals[r]]
           /\ \A r \in DOMAIN data.configs \ DOMAIN data.globals :
                 MergeConfigs(m, data, cache)[r] = data.configs[r]
           /\ \A r \in DOMAIN DefaultConfigs(m) \ (DOMAIN data.configs \cup DOMAIN data.globals) :
                 MergeConfigs(m, data, cache)[r] = DefaultConfigs(m)[r]
<1>1. data.configs \in Partial(Ref, Value)
  BY DEF Row
<1>. DEFINE inner == Override(DefaultConfigs(m), data.configs)
            given == GlobalConfigs(data, cache)
<1>2. /\ inner \in Partial(Ref, Value)
      /\ DOMAIN inner = DOMAIN DefaultConfigs(m) \cup DOMAIN data.configs
      /\ \A r \in DOMAIN data.configs : inner[r] = data.configs[r]
      /\ \A r \in DOMAIN DefaultConfigs(m) \ DOMAIN data.configs :
            inner[r] = DefaultConfigs(m)[r]
  <2>1. inner \in Partial(Ref, Value)
    BY <1>1, DefaultsType, OverrideType
  <2>2. DOMAIN inner = DOMAIN DefaultConfigs(m) \cup DOMAIN data.configs
    BY OverrideIs
  <2>3. \A r \in DOMAIN data.configs : inner[r] = data.configs[r]
    BY DEF Override
  <2>4. \A r \in DOMAIN DefaultConfigs(m) \ DOMAIN data.configs :
            inner[r] = DefaultConfigs(m)[r]
    BY OverrideIs
  <2>. QED  BY <2>1, <2>2, <2>3, <2>4
<1>3. /\ given \in Partial(Ref, Value)
      /\ DOMAIN given = DOMAIN data.globals
      /\ \A r \in DOMAIN data.globals : given[r] = cache[data.globals[r]]
  BY GlobalConfigsType DEF GlobalConfigs
<1>4. MergeConfigs(m, data, cache) = Override(inner, given)
  BY DEF MergeConfigs
<1>. HIDE DEF inner, given
<1>5. /\ Override(inner, given) \in Partial(Ref, Value)
      /\ DOMAIN Override(inner, given) = DOMAIN inner \cup DOMAIN given
      /\ \A r \in DOMAIN given : Override(inner, given)[r] = given[r]
      /\ \A r \in DOMAIN inner \ DOMAIN given : Override(inner, given)[r] = inner[r]
  <2>1. Override(inner, given) \in Partial(Ref, Value)
    BY <1>2, <1>3, OverrideType
  <2>. QED  BY <2>1, OverrideIs
<1>. QED  BY <1>2, <1>3, <1>4, <1>5

LEMMA NewEnvType ==
    ASSUME NEW m \in Module, NEW data \in Row, NEW cache \in Partial(Global, Value),
           Images(data.globals) \subseteq DOMAIN cache, NEW ids \in Partial(Module, Id)
    PROVE  NewEnv(m, data, cache, ids) \in Env
<1>1. /\ data.id \in Id /\ data.files \in Partial(Ref, Content)
      /\ data.groups \in Partial(Ref, SUBSET Path)
      /\ data.secrets \in Partial(Ref, SecretId)
  BY DEF Row
<1>2. MergeConfigs(m, data, cache) \in Partial(Ref, Value)
  BY MergeConfigsIs
<1>3. MergeFiles(m, data) \in Partial(Ref, Content)
  BY <1>1, DefaultsType, OverrideType DEF MergeFiles
<1>4. /\ SecretVars(m, data) \in Partial(Ref, SecretId)
      /\ SecretMounts(m, data) \in Partial(Ref, SecretId)
  BY <1>1, RestrictedType DEF SecretVars, SecretMounts
<1>5. Restricted(ids, DependsOn[m]) \in Partial(Module, Id)
  BY RestrictedType
<1>. QED  BY <1>1, <1>2, <1>3, <1>4, <1>5 DEF NewEnv, Env

\* Each secret goes one way, but for those that are asked for in both.
LEMMA SecretsSplit ==
    ASSUME NEW m \in Module, NEW data, NEW r \in DOMAIN data.secrets
    PROVE  /\ SecretSpec[m][r].env /\ ~ SecretSpec[m][r].mount =>
                  /\ r \in DOMAIN SecretVars(m, data)
                  /\ SecretVars(m, data)[r] = data.secrets[r]
           /\ SecretSpec[m][r].mount /\ ~ SecretSpec[m][r].env =>
                  /\ r \in DOMAIN SecretMounts(m, data)
                  /\ SecretMounts(m, data)[r] = data.secrets[r]
  BY DEF SecretVars, SecretMounts, Restricted

\* What the services cannot be given is in the rows.
LEMMA UnmountableIs ==
    ASSUME NEW m \in Module, NEW data, NEW cache, NEW ids,
           ~ Mountable(NewEnv(m, data, cache, ids))
    PROVE  \/ Images(data.groups) \cap Unusable.groups # {}
           \/ \E r \in DOMAIN data.secrets :
                 SecretSpec[m][r].mount /\ data.secrets[r] \in Unusable.secrets
<1>1. /\ NewEnv(m, data, cache, ids).groups = data.groups
      /\ NewEnv(m, data, cache, ids).secretMounts = SecretMounts(m, data)
  BY DEF NewEnv
<1>2. \A i \in Images(SecretMounts(m, data)) :
          \E r \in DOMAIN data.secrets : SecretSpec[m][r].mount /\ i = data.secrets[r]
  BY DEF Images, SecretMounts, Restricted
<1>. QED  BY <1>1, <1>2 DEF Mountable

-----------------------------------------------------------------------------
(* The record of an operation after each of its steps. *)

LEMMA FailedIs ==
    ASSUME op \in Op, NEW m \in Module
    PROVE  /\ Failed(m) \in Op
           /\ Failed(m).kind = op.kind /\ Failed(m).batch = op.batch
           /\ Failed(m).todo = op.todo \ {m} /\ Failed(m).errors = op.errors \cup {m}
           /\ Failed(m).input = op.input /\ Failed(m).ids = op.ids
           /\ Failed(m).cache = op.cache /\ Failed(m).stale = op.stale
           /\ Failed(m).cur = NoModule /\ Failed(m).step = "next"
  BY DEF Failed, Op

\* A check that failed, but not before the global configs were read.
FailedCached(m, cache) == [Failed(m) EXCEPT !.cache = cache]

LEMMA FailedCachedIs ==
    ASSUME op \in Op, NEW m \in Module, NEW cache \in Partial(Global, Value),
           NEW o, o = FailedCached(m, cache)
    PROVE  /\ o \in Op
           /\ o.kind = op.kind /\ o.batch = op.batch
           /\ o.todo = op.todo \ {m} /\ o.errors = op.errors \cup {m}
           /\ o.input = op.input /\ o.ids = op.ids
           /\ o.cache = cache /\ o.stale = op.stale
           /\ o.cur = NoModule /\ o.step = "next"
  BY DEF FailedCached, Failed, Op

Checked(m, step, data, cache, ids, next) ==
    [op EXCEPT !.cur = m, !.step = step, !.data = data, !.cache = cache,
               !.ids = ids, !.next = next]

LEMMA CheckedIs ==
    ASSUME op \in Op, NEW m \in Module, NEW step \in {"remove", "write"},
           NEW data \in Row, NEW cache \in Partial(Global, Value),
           NEW ids \in Partial(Module, Id), NEW next \in Env,
           NEW o, o = Checked(m, step, data, cache, ids, next)
    PROVE  /\ o \in Op
           /\ o.kind = op.kind /\ o.batch = op.batch
           /\ o.todo = op.todo /\ o.errors = op.errors
           /\ o.input = op.input /\ o.ids = ids
           /\ o.cache = cache /\ o.stale = op.stale
           /\ o.cur = m /\ o.step = step /\ o.data = data /\ o.next = next
  BY DEF Checked, Op

\* Only the module at hand and the step change.
Stepped(m, step) == [op EXCEPT !.cur = m, !.step = step]

LEMMA SteppedIs ==
    ASSUME op \in Op, NEW m \in Module, NEW step \in {"remove", "write", "build"},
           NEW o, o = Stepped(m, step)
    PROVE  /\ o \in Op
           /\ o.kind = op.kind /\ o.batch = op.batch
           /\ o.todo = op.todo /\ o.errors = op.errors
           /\ o.input = op.input /\ o.ids = op.ids
           /\ o.cache = op.cache /\ o.stale = op.stale
           /\ o.cur = m /\ o.step = step /\ o.data = op.data /\ o.next = op.next
  BY DEF Stepped, Op

\* The module at hand stays.
LEMMA SteppedInPlace ==
    ASSUME op \in Op, NEW m \in Module, op.cur = m, NEW step
    PROVE  [op EXCEPT !.step = step] = Stepped(m, step)
  BY DEF Op, Stepped

Handled(m) == [Failed(m) EXCEPT !.errors = op.errors]

LEMMA HandledIs ==
    ASSUME op \in Op, NEW m \in Module,
           NEW o, o = Handled(m)
    PROVE  /\ o \in Op
           /\ o.kind = op.kind /\ o.batch = op.batch
           /\ o.todo = op.todo \ {m} /\ o.errors = op.errors
           /\ o.input = op.input /\ o.ids = op.ids
           /\ o.cache = op.cache /\ o.stale = op.stale
           /\ o.cur = NoModule /\ o.step = "next"
  BY DEF Handled, Failed, Op

WithStale(g) == [op EXCEPT !.stale = @ \cup {g}]

LEMMA StaleIs ==
    ASSUME op \in Op, NEW g \in Global, NEW o, o = WithStale(g)
    PROVE  /\ o \in Op
           /\ o.kind = op.kind /\ o.batch = op.batch
           /\ o.todo = op.todo /\ o.errors = op.errors
           /\ o.input = op.input /\ o.ids = op.ids
           /\ o.cache = op.cache /\ o.stale = op.stale \cup {g}
           /\ o.cur = op.cur /\ o.step = op.step /\ o.data = op.data /\ o.next = op.next
  BY DEF WithStale, Op

-----------------------------------------------------------------------------
(* The invariant. *)

\* The checks, as far as they do not depend on the values of global configs.
DataInv(m, data) ==
    /\ DOMAIN data.globals \subseteq DOMAIN ConfigSpec[m]
    /\ \A r \in DOMAIN ConfigSpec[m] : ConfigSpec[m][r].required =>
          r \in DOMAIN DefaultConfigs(m) \cup DOMAIN data.configs \cup DOMAIN data.globals
    /\ CheckFiles(m, MergeFiles(m, data))
    /\ SecretsFound(m, data)

\* What is stored has passed the checks and selects global configs that exist.
RowsInv ==
    \A m \in Module : rows[m] # NoRow =>
        /\ DataInv(m, rows[m])
        /\ \A g \in Images(rows[m].globals) : globals[g] # NoValue

\* What has been handled of a batch and what has not; d has the id that it is known
\* by, or will have it, or has met with an error.
BatchInv ==
    op # NoOp =>
        /\ op.todo \subseteq op.batch /\ op.batch \subseteq DOMAIN op.ids
        /\ op.kind \in {"create", "update"} => DOMAIN op.input = op.batch
        /\ op.cur # NoModule => op.cur \in op.todo
        /\ op.cur = NoModule <=> op.step = "next"
        /\ op.kind \in {"update", "recreate"} =>
              \A m \in op.batch : rows[m] # NoRow /\ rows[m].id = op.ids[m]
        /\ op.kind = "create" =>
              \A m \in op.todo : rows[m] = NoRow \/ (op.cur = m /\ op.step = "build")
        /\ op.kind # "delete" =>
              \A d \in DOMAIN op.ids :
                  \/ rows[d] # NoRow /\ rows[d].id = op.ids[d]
                  \/ op.kind = "create" /\ d \in op.batch /\ d \in op.todo \cup op.errors

\* A cached global config is current, or known to be stale, or deleted.
CacheInv ==
    op # NoOp =>
        \A g \in DOMAIN op.cache \ op.stale : globals[g] \in {op.cache[g], NoValue}

\* The module at hand.
CurInv ==
    op # NoOp /\ op.cur # NoModule =>
        /\ op.kind # "delete" =>
              /\ op.data \in Row /\ DataInv(op.cur, op.data)
              /\ op.data.id = op.ids[op.cur]
              /\ Images(op.data.globals) \subseteq DOMAIN op.cache
              /\ op.next = NewEnv(op.cur, op.data, op.cache, op.ids)
        /\ op.kind = "recreate" => op.data = rows[op.cur]
        /\ op.step = "build" => op.kind # "delete" /\ rows[op.cur] = op.data
        /\ op.step \in {"write", "build"} => env[op.cur] = NoEnv

Inv == TypeOK /\ RowsInv /\ BatchInv /\ CacheInv /\ CurInv /\ EnvironmentIsCurrent

-----------------------------------------------------------------------------
(* What a check finds out. *)

LEMMA MergedFiles ==
    ASSUME NEW m \in Module, NEW data \in Row, NEW cache \in Partial(Global, Value),
           Accepted(m, data, cache), DOMAIN data.globals \subseteq DOMAIN ConfigSpec[m]
    PROVE  DataInv(m, data) /\ Images(data.globals) \subseteq DOMAIN cache
<1>1. /\ Images(data.globals) \subseteq DOMAIN cache
      /\ CheckConfigs(m, MergeConfigs(m, data, cache))
      /\ CheckFiles(m, MergeFiles(m, data)) /\ SecretsFound(m, data)
  BY DEF Accepted
<1>2. DOMAIN MergeConfigs(m, data, cache) =
          DOMAIN DefaultConfigs(m) \cup DOMAIN data.configs \cup DOMAIN data.globals
  BY <1>1, MergeConfigsIs
<1>. QED  BY <1>1, <1>2 DEF DataInv, CheckConfigs

\* The data at hand are typed, whether they come from the user or the database.
LEMMA DataOfType ==
    ASSUME Inv, NEW m \in Module, Unhandled(m), op.kind # "delete"
    PROVE  /\ DataOf(m) \in Row /\ DataOf(m).id = op.ids[m]
           /\ DOMAIN DataOf(m).globals \subseteq DOMAIN ConfigSpec[m]
           /\ op.kind = "recreate" => DataOf(m) = rows[m]
<1>1. /\ op # NoOp /\ op \in Op /\ m \in op.todo /\ m \in op.batch /\ m \in DOMAIN op.ids
      /\ op.kind \in {"create", "update", "recreate"}
  BY DEF Inv, TypeOK, Unhandled, BatchInv, Op
<1>2. op.ids[m] \in Id
  BY <1>1, PartialIs DEF Op
<1>3. CASE op.kind = "recreate"
  <2>1. rows[m] # NoRow /\ rows[m] \in Row /\ rows[m].id = op.ids[m]
    BY <1>1, <1>3 DEF Inv, TypeOK, BatchInv
  <2>. QED  BY <1>3, <2>1 DEF DataOf, Inv, RowsInv, DataInv
<1>4. CASE op.kind \in {"create", "update"}
  <2>1. op.input[m] \in UserInput
    BY <1>1, <1>4, PartialIs, DeploymentDataAssumption DEF Inv, BatchInv, Op
  <2>2. DataOf(m) = UserData(m, op.input[m], op.ids[m])
    BY <1>4 DEF DataOf
  <2>. QED  BY <1>2, <1>4, <2>1, <2>2, UserDataType
<1>. QED  BY <1>1, <1>3, <1>4

LEMMA CachedIs ==
    ASSUME Inv, op \in Op, NEW data \in Row
    PROVE  /\ Cached(data) \in Partial(Global, Value)
           /\ DOMAIN op.cache \subseteq DOMAIN Cached(data)
           /\ \A g \in DOMAIN op.cache : Cached(data)[g] = op.cache[g]
           /\ \A g \in DOMAIN Cached(data) \ DOMAIN op.cache : Cached(data)[g] = globals[g]
<1>. DEFINE read == [g \in {h \in Uncached(data) : globals[h] # NoValue} |-> globals[g]]
<1>1. op.cache \in Partial(Global, Value) /\ globals \in [Global -> Value \cup {NoValue}]
  BY DEF Inv, TypeOK, Op
<1>2. Uncached(data) \subseteq Global
  BY ImagesType DEF Uncached, Row
<1>3. read \in Partial(Global, Value)
  <2>1. read \in [{h \in Uncached(data) : globals[h] # NoValue} -> Value]
    BY <1>1, <1>2
  <2>. QED  BY <1>2, <2>1, PartialIs
<1>4. Cached(data) = Override(read, op.cache)
  BY DEF Cached
<1>5. \A g \in DOMAIN read : read[g] = globals[g]
  OBVIOUS
<1>. HIDE DEF read
<1>6. Override(read, op.cache) \in Partial(Global, Value)
  BY <1>1, <1>3, OverrideType
<1>7. /\ DOMAIN Override(read, op.cache) = DOMAIN read \cup DOMAIN op.cache
      /\ \A r \in DOMAIN op.cache : Override(read, op.cache)[r] = op.cache[r]
      /\ \A r \in DOMAIN read \ DOMAIN op.cache : Override(read, op.cache)[r] = read[r]
  BY DEF Override
<1>. QED  BY <1>4, <1>5, <1>6, <1>7

LEMMA KnownIdsIs ==
    ASSUME Inv, op \in Op, NEW m \in Module
    PROVE  /\ KnownIds(m) \in Partial(Module, Id)
           /\ DOMAIN op.ids \subseteq DOMAIN KnownIds(m)
           /\ \A d \in DOMAIN op.ids : KnownIds(m)[d] = op.ids[d]
           /\ \A d \in DOMAIN KnownIds(m) \ DOMAIN op.ids :
                 d \in Module /\ rows[d] # NoRow /\ rows[d].id = KnownIds(m)[d]
<1>. DEFINE S == (DependsOn[m] \cap Deployed) \ DOMAIN op.ids
<1>1. op.ids \in Partial(Module, Id)
  BY DEF Op
<1>2. /\ S \subseteq Module /\ \A d \in S : rows[d] # NoRow /\ rows[d].id \in Id
  BY DEF Inv, TypeOK, Deployed, Row
<1>. HIDE DEF S
<1>3. /\ IdsOf(S) \in Partial(Module, Id) /\ DOMAIN IdsOf(S) = S
      /\ \A d \in S : IdsOf(S)[d] = rows[d].id
  BY <1>2, PartialIs DEF IdsOf
<1>4. KnownIds(m) = Override(IdsOf(S), op.ids)
  BY DEF KnownIds, S
<1>5. Override(IdsOf(S), op.ids) \in Partial(Module, Id)
  BY <1>1, <1>3, OverrideType
<1>6. /\ DOMAIN Override(IdsOf(S), op.ids) = DOMAIN IdsOf(S) \cup DOMAIN op.ids
      /\ \A r \in DOMAIN op.ids : Override(IdsOf(S), op.ids)[r] = op.ids[r]
      /\ \A r \in DOMAIN IdsOf(S) \ DOMAIN op.ids : Override(IdsOf(S), op.ids)[r] = IdsOf(S)[r]
  BY DEF Override
<1>. QED  BY <1>2, <1>3, <1>4, <1>5, <1>6

\* The three outcomes of a check.
LEMMA CheckIs ==
    ASSUME Inv, NEW m \in Module, Check(m)
    PROVE  /\ op \in Op /\ op' \in Op /\ op # NoOp /\ op' # NoOp
           /\ op.cur = NoModule /\ m \in op.todo /\ op.kind # "delete"
           /\ op'.kind = op.kind /\ op'.batch = op.batch /\ op'.input = op.input
           /\ op'.stale = op.stale
           /\ op'.cache = op.cache \/ op'.cache = Cached(DataOf(m))
           /\ \/ /\ op'.todo = op.todo \ {m} /\ op'.errors = op.errors \cup {m}
                 /\ op'.ids = op.ids /\ op'.cur = NoModule /\ op'.step = "next"
              \/ /\ op'.todo = op.todo /\ op'.errors = op.errors
                 /\ op'.cache = Cached(DataOf(m)) /\ op'.ids = KnownIds(m) /\ op'.cur = m
                 /\ op'.step = IF op.kind = "create" THEN "write" ELSE "remove"
                 /\ op'.data = DataOf(m) /\ DataOf(m) \in Row /\ DataInv(m, DataOf(m))
                 /\ Images(DataOf(m).globals) \subseteq DOMAIN op'.cache
                 /\ op'.next = NewEnv(m, DataOf(m), Cached(DataOf(m)), KnownIds(m))
<1>. DEFINE data == DataOf(m)
            next == NewEnv(m, DataOf(m), Cached(DataOf(m)), KnownIds(m))
<1>1. /\ op # NoOp /\ op \in Op /\ Unhandled(m) /\ op.cur = NoModule /\ m \in op.todo
      /\ op.kind # "delete"
  BY DEF Check, Unhandled, Inv, TypeOK
<1>2. data \in Row /\ DOMAIN data.globals \subseteq DOMAIN ConfigSpec[m]
  BY <1>1, DataOfType
<1>3. Cached(data) \in Partial(Global, Value) /\ KnownIds(m) \in Partial(Module, Id)
  BY <1>1, <1>2, CachedIs, KnownIdsIs
<1>. HIDE DEF data
<1>4. NoOp \notin Op
  BY DeploymentDataAssumption
<1>5. CASE Passes(m)
  <2>1. DataInv(m, data) /\ Images(data.globals) \subseteq DOMAIN Cached(data)
    BY <1>2, <1>3, <1>5, MergedFiles DEF Passes, data
  <2>2. next \in Env
    BY <1>2, <1>3, <2>1, NewEnvType DEF data
  <2>. DEFINE step == IF op.kind = "create" THEN "write" ELSE "remove"
  <2>3. step \in {"remove", "write"}
    OBVIOUS
  <2>4. op' = Checked(m, step, data, Cached(data), KnownIds(m), next)
    BY <1>5 DEF Check, Checked, data
  <2>. HIDE DEF step, next
  <2>5. /\ op' \in Op
        /\ op'.kind = op.kind /\ op'.batch = op.batch
        /\ op'.todo = op.todo /\ op'.errors = op.errors
        /\ op'.input = op.input /\ op'.ids = KnownIds(m)
        /\ op'.cache = Cached(data) /\ op'.stale = op.stale
        /\ op'.cur = m /\ op'.step = step /\ op'.data = data /\ op'.next = next
    BY <1>1, <1>2, <1>3, <2>2, <2>3, <2>4, CheckedIs
  <2>. QED  BY <1>1, <1>2, <1>4, <2>1, <2>5 DEF step, next, data
<1>6. CASE ~ Passes(m)
  <2>1. CASE op' = FailedCached(m, Cached(DataOf(m)))
    <3>1. Cached(DataOf(m)) \in Partial(Global, Value)
      BY <1>3 DEF data
    <3>2. /\ op' \in Op
          /\ op'.kind = op.kind /\ op'.batch = op.batch
          /\ op'.todo = op.todo \ {m} /\ op'.errors = op.errors \cup {m}
          /\ op'.input = op.input /\ op'.ids = op.ids
          /\ op'.cache = Cached(DataOf(m)) /\ op'.stale = op.stale
          /\ op'.cur = NoModule /\ op'.step = "next"
      BY <1>1, <2>1, <3>1, FailedCachedIs
    <3>. QED  BY <1>1, <1>4, <3>2
  <2>2. CASE op' = Failed(m)
    BY <1>1, <1>4, <2>2, FailedIs
  <2>. QED  BY <1>6, <2>1, <2>2 DEF Check, FailedCached
<1>. QED  BY <1>5, <1>6

-----------------------------------------------------------------------------
(* Every step preserves the invariant. *)

LEMMA Initially == Init => Inv
<1> USE DeploymentDataAssumption
<1>1. Init => TypeOK
  BY DEF Init, TypeOK
<1>2. Init => RowsInv /\ BatchInv /\ CacheInv /\ CurInv /\ EnvironmentIsCurrent
  BY DEF Init, RowsInv, BatchInv, CacheInv, CurInv, EnvironmentIsCurrent
<1>. QED  BY <1>1, <1>2 DEF Inv

\* Containers that go, or stay as they are, next to rows and global configs that stay.
LEMMA EnvFrame ==
    ASSUME EnvironmentIsCurrent, UNCHANGED <<globals, rows, outdated>>,
           \A m \in Module : env'[m] \in {env[m], NoEnv}
    PROVE  EnvironmentIsCurrent'
  BY DEF EnvironmentIsCurrent

LEMMA RowsFrame ==
    ASSUME RowsInv, UNCHANGED <<globals, rows>>
    PROVE  RowsInv'
  BY DEF RowsInv, DataInv

-----------------------------------------------------------------------------
(* Global configs. *)

LEMMA CreateGlobalStep ==
    ASSUME Inv, NEW g \in Global, NEW v \in GlobalInput, CreateGlobal(g, v)
    PROVE  Inv'
<1>1. /\ globals[g] = NoValue /\ globals' = [globals EXCEPT ![g] = v] /\ v \in Value
      /\ op # NoOp => g \notin DOMAIN op.cache
      /\ UNCHANGED <<rows, env, op, outdated, faults>>
  BY DeploymentDataAssumption DEF CreateGlobal
<1>2. TypeOK'
  BY <1>1 DEF Inv, TypeOK
<1>3. \A h \in Global : globals[h] # NoValue => globals'[h] = globals[h]
  BY <1>1 DEF Inv, TypeOK
<1>4. \A m \in Module : rows[m] # NoRow =>
          /\ Images(rows[m].globals) \subseteq Global
          /\ \A r \in DOMAIN rows[m].globals : rows[m].globals[r] \in Images(rows[m].globals)
  BY ImagesType DEF Inv, TypeOK, Row
<1>5. RowsInv'
  BY <1>1, <1>3, <1>4, DeploymentDataAssumption DEF Inv, RowsInv, DataInv
<1>6. BatchInv' /\ CurInv'
  BY <1>1 DEF Inv, BatchInv, CurInv, DataInv
<1>7. CacheInv'
  BY <1>1 DEF Inv, TypeOK, CacheInv
<1>8. EnvironmentIsCurrent'
  BY <1>1, <1>3, <1>4 DEF Inv, RowsInv, EnvironmentIsCurrent
<1>. QED  BY <1>2, <1>5, <1>6, <1>7, <1>8 DEF Inv

LEMMA UpdateGlobalStep ==
    ASSUME Inv, NEW g \in Global, NEW v \in GlobalInput, UpdateGlobal(g, v)
    PROVE  Inv'
<1>1. /\ globals[g] # NoValue /\ globals' = [globals EXCEPT ![g] = v]
      /\ v \in Value /\ v # NoValue
      /\ outdated' = outdated \cup SelectedBy(g)
      /\ UNCHANGED <<rows, env, faults>>
  BY DeploymentDataAssumption DEF UpdateGlobal
<1>2. \/ op' = op /\ (op # NoOp => g \notin DOMAIN op.cache)
      \/ op # NoOp /\ g \in DOMAIN op.cache /\ op' = WithStale(g)
  BY DEF UpdateGlobal, WithStale
<1>3. \/ op' = op /\ (op # NoOp => g \notin DOMAIN op.cache)
      \/ /\ op \in Op /\ op' \in Op /\ op # NoOp /\ op' # NoOp
         /\ op'.kind = op.kind /\ op'.batch = op.batch
         /\ op'.todo = op.todo /\ op'.errors = op.errors
         /\ op'.input = op.input /\ op'.ids = op.ids
         /\ op'.cache = op.cache /\ op'.stale = op.stale \cup {g}
         /\ op'.cur = op.cur /\ op'.step = op.step
         /\ op'.data = op.data /\ op'.next = op.next
  BY <1>2, StaleIs, DeploymentDataAssumption DEF Inv, TypeOK
<1>4. TypeOK'
  BY <1>1, <1>3 DEF Inv, TypeOK, SelectedBy
<1>5. \A h \in Global : h # g => globals'[h] = globals[h]
  BY <1>1 DEF Inv, TypeOK
<1>6. \A m \in Module : rows[m] # NoRow =>
          /\ Images(rows[m].globals) \subseteq Global
          /\ \A r \in DOMAIN rows[m].globals : rows[m].globals[r] \in Images(rows[m].globals)
  BY ImagesType DEF Inv, TypeOK, Row
<1>7. RowsInv'
  BY <1>1, <1>5, <1>6 DEF Inv, TypeOK, RowsInv, DataInv
<1>8. BatchInv'
  BY <1>1, <1>3 DEF Inv, BatchInv
<1>9. CacheInv'
  <2>1. \A h \in DOMAIN op.cache : op \in Op => h \in Global
    BY PartialIs DEF Op
  <2>. QED  BY <1>1, <1>3, <1>5, <2>1 DEF Inv, TypeOK, CacheInv
<1>10. CurInv'
  BY <1>1, <1>3 DEF Inv, CurInv, DataInv
<1>11. ASSUME NEW m \in Module, env[m] # NoEnv, m \notin outdated',
              NEW r \in DOMAIN rows[m].globals
       PROVE  globals'[rows[m].globals[r]] = globals[rows[m].globals[r]]
  BY <1>1, <1>5, <1>6, <1>11 DEF Inv, EnvironmentIsCurrent, SelectedBy, Selects
<1>12. EnvironmentIsCurrent'
  BY <1>1, <1>11 DEF Inv, EnvironmentIsCurrent
<1>. QED  BY <1>4, <1>7, <1>8, <1>9, <1>10, <1>12 DEF Inv

LEMMA DeleteGlobalsStep ==
    ASSUME Inv, NEW S \in SUBSET Global, DeleteGlobals(S)
    PROVE  Inv'
<1>1. /\ \A g \in S : SelectedBy(g) = {}
      /\ globals' = [g \in Global |-> IF g \in S THEN NoValue ELSE globals[g]]
      /\ UNCHANGED <<rows, env, op, outdated, faults>>
  BY DEF DeleteGlobals
<1>2. TypeOK'
  BY <1>1 DEF Inv, TypeOK
<1>3. \A m \in Module : rows[m] # NoRow =>
          /\ Images(rows[m].globals) \subseteq Global \ S
          /\ \A r \in DOMAIN rows[m].globals : rows[m].globals[r] \in Images(rows[m].globals)
  BY <1>1, ImagesType DEF Inv, TypeOK, Row, SelectedBy, Selects
<1>4. RowsInv'
  BY <1>1, <1>3 DEF Inv, RowsInv, DataInv
<1>5. BatchInv' /\ CurInv'
  BY <1>1 DEF Inv, BatchInv, CurInv, DataInv
<1>6. CacheInv'
  <2>1. \A h \in DOMAIN op.cache : op \in Op => h \in Global
    BY PartialIs DEF Op
  <2>. QED  BY <1>1, <2>1 DEF Inv, TypeOK, CacheInv
<1>7. EnvironmentIsCurrent'
  BY <1>1, <1>3 DEF Inv, EnvironmentIsCurrent
<1>. QED  BY <1>2, <1>4, <1>5, <1>6, <1>7 DEF Inv

-----------------------------------------------------------------------------
(* Operations. *)

\* With nothing handled yet what an operation has to satisfy is about its ids.
LEMMA RequestStep ==
    ASSUME Inv, NEW kind \in {"create", "update", "recreate", "delete"},
           NEW S \in SUBSET Module, NEW input \in Partial(Module, Input),
           NEW ids \in Partial(Module, Id), Begin(kind, S, input, ids),
           DOMAIN ids = S,
           kind \in {"create", "update"} => DOMAIN input = S,
           kind = "create" => \A m \in S : rows[m] = NoRow,
           kind # "create" => \A m \in S : rows[m] # NoRow /\ rows[m].id = ids[m]
    PROVE  Inv'
<1>1. /\ op' \in Op
      /\ op'.kind = kind /\ op'.batch = S /\ op'.todo = S /\ op'.errors = {}
      /\ op'.input = input /\ op'.ids = ids /\ op'.cur = NoModule
      /\ op'.step = "next" /\ DOMAIN op'.cache = {} /\ op'.stale = {}
      /\ UNCHANGED <<globals, rows, env, outdated, faults>>
  <2>1. [g \in {} |-> NoValue] \in Partial(Global, Value)
    BY EmptyType
  <2>. QED  BY <2>1 DEF Begin, Op
<1>2. TypeOK'
  BY <1>1 DEF Inv, TypeOK
<1>3. RowsInv' /\ EnvironmentIsCurrent'
  BY <1>1, RowsFrame, EnvFrame DEF Inv
<1>4. BatchInv'
  BY <1>1 DEF BatchInv
<1>5. CacheInv' /\ CurInv'
  BY <1>1 DEF CacheInv, CurInv
<1>. QED  BY <1>2, <1>3, <1>4, <1>5 DEF Inv

LEMMA IdsOfType ==
    ASSUME Inv, NEW S \in SUBSET Module, \A m \in S : rows[m] # NoRow
    PROVE  /\ IdsOf(S) \in Partial(Module, Id) /\ DOMAIN IdsOf(S) = S
           /\ \A m \in S : IdsOf(S)[m] = rows[m].id
<1>1. \A m \in S : rows[m].id \in Id
  BY DEF Inv, TypeOK, Row
<1>. QED  BY <1>1, PartialIs DEF IdsOf

LEMMA CreateStep ==
    ASSUME Inv, NEW S \in SUBSET Module, NEW input \in [S -> Input],
           NEW ids \in [S -> Id], Create(input, ids)
    PROVE  Inv'
<1>1. input \in Partial(Module, Input) /\ ids \in Partial(Module, Id)
  BY PartialIs
<1>2. DOMAIN ids = S /\ DOMAIN input = S /\ \A m \in S : rows[m] = NoRow
  BY DEF Create, Deployed
<1>3. Begin("create", S, input, ids)
  BY DEF Create
<1>. QED  BY <1>1, <1>2, <1>3, RequestStep

LEMMA UpdateStep ==
    ASSUME Inv, NEW S \in SUBSET Module, NEW input \in [S -> Input], Update(input)
    PROVE  Inv'
<1>1. input \in Partial(Module, Input)
  BY PartialIs
<1>2. DOMAIN input = S /\ \A m \in S : rows[m] # NoRow
  BY DEF Update, Deployed
<1>3. Begin("update", S, input, IdsOf(S))
  BY <1>2 DEF Update
<1>. QED  BY <1>1, <1>2, <1>3, RequestStep, IdsOfType

LEMMA RecreateStep ==
    ASSUME Inv, NEW S \in SUBSET Module, Recreate(S)
    PROVE  Inv'
<1>1. [m \in {} |-> NoValue] \in Partial(Module, Input)
  BY EmptyType
<1>2. \A m \in S : rows[m] # NoRow
  BY DEF Recreate, Deployed
<1>3. Begin("recreate", S, [m \in {} |-> NoValue], IdsOf(S))
  BY DEF Recreate
<1>. QED  BY <1>1, <1>2, <1>3, RequestStep, IdsOfType

LEMMA DeleteStep ==
    ASSUME Inv, NEW S \in SUBSET Module, Delete(S)
    PROVE  Inv'
<1>1. [m \in {} |-> NoValue] \in Partial(Module, Input)
  BY EmptyType
<1>2. \A m \in S : rows[m] # NoRow
  BY DEF Delete, Deployed
<1>3. Begin("delete", S, [m \in {} |-> NoValue], IdsOf(S))
  BY DEF Delete
<1>. QED  BY <1>1, <1>2, <1>3, RequestStep, IdsOfType

LEMMA EndStep ==
    ASSUME Inv, End \/ Crash
    PROVE  Inv'
<1>1. op' = NoOp /\ UNCHANGED <<globals, rows, env, outdated>>
  BY DEF End, Crash
<1>2. TypeOK'
  BY <1>1, DeploymentDataAssumption DEF Inv, TypeOK, End, Crash, Fault
<1>3. RowsInv' /\ EnvironmentIsCurrent'
  BY <1>1, RowsFrame, EnvFrame DEF Inv
<1>4. BatchInv' /\ CacheInv' /\ CurInv'
  BY <1>1 DEF BatchInv, CacheInv, CurInv
<1>. QED  BY <1>2, <1>3, <1>4 DEF Inv

\* The error of a module ends up in its result; its containers may be gone.
LEMMA FailStep ==
    ASSUME Inv, NEW m \in Module, op # NoOp, m \in op.todo, op.cur \in {m, NoModule},
           op' = Failed(m), UNCHANGED <<globals, rows, outdated>>,
           faults' \in 0..MaxFaults,
           env' \in [Module -> Env \cup {NoEnv}],
           \A n \in Module : env'[n] \in {env[n], NoEnv}
    PROVE  Inv'
<1>1. op \in Op
  BY DEF Inv, TypeOK
<1>2. /\ op' \in Op
      /\ op'.kind = op.kind /\ op'.batch = op.batch
      /\ op'.todo = op.todo \ {m} /\ op'.errors = op.errors \cup {m}
      /\ op'.input = op.input /\ op'.ids = op.ids
      /\ op'.cache = op.cache /\ op'.stale = op.stale
      /\ op'.cur = NoModule /\ op'.step = "next"
  BY <1>1, FailedIs
<1>3. TypeOK'
  BY <1>2 DEF Inv, TypeOK
<1>4. RowsInv' /\ EnvironmentIsCurrent'
  BY RowsFrame, EnvFrame DEF Inv
<1>5. BatchInv'
  BY <1>2 DEF Inv, BatchInv
<1>6. CacheInv' /\ CurInv'
  BY <1>2 DEF Inv, CacheInv, CurInv
<1>. QED  BY <1>3, <1>4, <1>5, <1>6 DEF Inv

LEMMA FaultType ==
    ASSUME TypeOK, Fault
    PROVE  faults' \in 0..MaxFaults /\ faults' # faults
  BY DeploymentDataAssumption DEF TypeOK, Fault

LEMMA FailuresStep ==
    ASSUME Inv, NEW m \in Module,
           CheckFails(m) \/ RemoveFails(m) \/ WriteFails(m) \/ BuildFails(m)
    PROVE  Inv'
<1>1. op # NoOp /\ op' = Failed(m) /\ UNCHANGED <<globals, rows, outdated>>
  BY DEF CheckFails, RemoveFails, WriteFails, BuildFails, Unhandled, At
<1>2. m \in op.todo /\ op.cur \in {m, NoModule}
  BY DeploymentDataAssumption
  DEF CheckFails, RemoveFails, WriteFails, BuildFails, Unhandled, At, Inv, BatchInv
<1>3. faults' \in 0..MaxFaults
  BY FaultType DEF Inv, TypeOK, CheckFails, RemoveFails, WriteFails, BuildFails, NoFault
<1>4. /\ env' \in [Module -> Env \cup {NoEnv}]
      /\ \A n \in Module : env'[n] \in {env[n], NoEnv}
  BY DEF Inv, TypeOK, CheckFails, RemoveFails, WriteFails, BuildFails
<1>. QED  BY <1>1, <1>2, <1>3, <1>4, FailStep

LEMMA CheckStep ==
    ASSUME Inv, NEW m \in Module, Check(m)
    PROVE  Inv'
<1>1. UNCHANGED <<globals, rows, env, outdated, faults>>
  BY DEF Check
<1>2. /\ op \in Op /\ op' \in Op /\ op # NoOp /\ op' # NoOp
      /\ op.cur = NoModule /\ m \in op.todo /\ op.kind # "delete"
      /\ op'.kind = op.kind /\ op'.batch = op.batch /\ op'.input = op.input
      /\ op'.stale = op.stale
      /\ op'.cache = op.cache \/ op'.cache = Cached(DataOf(m))
  BY CheckIs
<1>3. DataOf(m) \in Row /\ DataOf(m).id = op.ids[m]
      /\ (op.kind = "recreate" => DataOf(m) = rows[m])
  BY <1>2, DataOfType DEF Check
<1>4. TypeOK'
  BY <1>1, <1>2 DEF Inv, TypeOK
<1>5. RowsInv' /\ EnvironmentIsCurrent'
  BY <1>1, RowsFrame, EnvFrame DEF Inv
<1>6. CacheInv'
  <2>1. \A g \in DOMAIN op'.cache \ op'.stale :
            \/ g \in DOMAIN op.cache \ op.stale /\ op'.cache[g] = op.cache[g]
            \/ op'.cache[g] = globals[g]
    BY <1>2, <1>3, CachedIs
  <2>. QED  BY <1>1, <1>2, <2>1 DEF Inv, CacheInv
<1>7. CASE /\ op'.todo = op.todo \ {m} /\ op'.errors = op.errors \cup {m}
           /\ op'.ids = op.ids /\ op'.cur = NoModule /\ op'.step = "next"
  <2>1. BatchInv'
    BY <1>1, <1>2, <1>7 DEF Inv, BatchInv
  <2>2. CurInv'
    BY <1>7 DEF CurInv
  <2>. QED  BY <1>4, <1>5, <1>6, <2>1, <2>2 DEF Inv
<1>8. CASE /\ op'.todo = op.todo /\ op'.errors = op.errors
           /\ op'.cache = Cached(DataOf(m)) /\ op'.ids = KnownIds(m) /\ op'.cur = m
           /\ op'.step = IF op.kind = "create" THEN "write" ELSE "remove"
           /\ op'.data = DataOf(m) /\ DataOf(m) \in Row /\ DataInv(m, DataOf(m))
           /\ Images(DataOf(m).globals) \subseteq DOMAIN op'.cache
           /\ op'.next = NewEnv(m, DataOf(m), Cached(DataOf(m)), KnownIds(m))
  <2>1. /\ DOMAIN op.ids \subseteq DOMAIN KnownIds(m)
        /\ \A d \in DOMAIN op.ids : KnownIds(m)[d] = op.ids[d]
        /\ \A d \in DOMAIN KnownIds(m) \ DOMAIN op.ids :
              d \in Module /\ rows[d] # NoRow /\ rows[d].id = KnownIds(m)[d]
    BY <1>2, KnownIdsIs
  <2>2. m # NoModule
    BY DeploymentDataAssumption
  <2>3. m \in DOMAIN op.ids /\ (op.kind = "create" => rows[m] = NoRow)
    BY <1>2, <2>2 DEF Inv, BatchInv
  <2>4. BatchInv'
    <3>. SUFFICES
            /\ op'.todo \subseteq op'.batch /\ op'.batch \subseteq DOMAIN op'.ids
            /\ op'.kind \in {"create", "update"} => DOMAIN op'.input = op'.batch
            /\ op'.cur # NoModule => op'.cur \in op'.todo
            /\ op'.cur = NoModule <=> op'.step = "next"
            /\ op'.kind \in {"update", "recreate"} =>
                  \A n \in op'.batch : rows'[n] # NoRow /\ rows'[n].id = op'.ids[n]
            /\ op'.kind = "create" =>
                  \A n \in op'.todo : rows'[n] = NoRow \/ (op'.cur = n /\ op'.step = "build")
            /\ \A d \in DOMAIN op'.ids :
                  \/ rows'[d] # NoRow /\ rows'[d].id = op'.ids[d]
                  \/ op'.kind = "create" /\ d \in op'.batch /\ d \in op'.todo \cup op'.errors
      BY DEF BatchInv
    <3>1. /\ op'.todo \subseteq op'.batch /\ op'.batch \subseteq DOMAIN op'.ids
          /\ op'.kind \in {"create", "update"} => DOMAIN op'.input = op'.batch
      BY <1>2, <1>8, <2>1 DEF Inv, BatchInv
    <3>2. /\ op'.cur # NoModule => op'.cur \in op'.todo
          /\ op'.cur = NoModule <=> op'.step = "next"
      BY <1>2, <1>8, <2>2
    <3>3. op'.kind \in {"update", "recreate"} =>
              \A n \in op'.batch : rows'[n] # NoRow /\ rows'[n].id = op'.ids[n]
      BY <1>1, <1>2, <1>8, <2>1 DEF Inv, BatchInv
    <3>4. op'.kind = "create" =>
              \A n \in op'.todo : rows'[n] = NoRow \/ (op'.cur = n /\ op'.step = "build")
      BY <1>1, <1>2, <1>8, <2>2 DEF Inv, BatchInv
    <3>5. \A d \in DOMAIN op'.ids :
              \/ rows'[d] # NoRow /\ rows'[d].id = op'.ids[d]
              \/ op'.kind = "create" /\ d \in op'.batch /\ d \in op'.todo \cup op'.errors
      BY <1>1, <1>2, <1>8, <2>1 DEF Inv, BatchInv
    <3>. QED  BY <3>1, <3>2, <3>3, <3>4, <3>5
  <2>5. CurInv'
    <3>1. op'.data.id = op'.ids[op'.cur]
      BY <1>3, <1>8, <2>1, <2>3
    <3>2. DataInv(op.cur, op.data)'
      BY <1>8 DEF DataInv
    <3>3. op'.next = NewEnv(op'.cur, op'.data, op'.cache, op'.ids)
      BY <1>8
    <3>4. op'.step \in {"write", "build"} => env'[op'.cur] = NoEnv
      BY <1>1, <1>2, <1>8, <2>3 DEF Inv, EnvironmentIsCurrent
    <3>5. op'.kind = "recreate" => op'.data = rows'[op'.cur]
      BY <1>1, <1>2, <1>3, <1>8
    <3>. QED  BY <1>2, <1>8, <3>1, <3>2, <3>3, <3>4, <3>5 DEF CurInv
  <2>. QED  BY <1>4, <1>5, <1>6, <2>4, <2>5 DEF Inv
<1>. QED  BY <1>7, <1>8, CheckIs

LEMMA BeginDeletionStep ==
    ASSUME Inv, NEW m \in Module, BeginDeletion(m)
    PROVE  Inv'
<1>1. /\ op # NoOp /\ op \in Op /\ op.cur = NoModule /\ m \in op.todo /\ op.kind = "delete"
      /\ op' = Stepped(m, "remove") /\ UNCHANGED <<globals, rows, env, outdated, faults>>
  BY DEF BeginDeletion, Unhandled, Stepped, Inv, TypeOK
<1>2. /\ op' \in Op
      /\ op'.kind = op.kind /\ op'.batch = op.batch
      /\ op'.todo = op.todo /\ op'.errors = op.errors
      /\ op'.input = op.input /\ op'.ids = op.ids
      /\ op'.cache = op.cache /\ op'.stale = op.stale
      /\ op'.cur = m /\ op'.step = "remove" /\ op'.data = op.data /\ op'.next = op.next
  BY <1>1, SteppedIs
<1>3. m # NoModule
  BY DeploymentDataAssumption
<1>4. TypeOK'
  BY <1>1, <1>2 DEF Inv, TypeOK
<1>5. RowsInv' /\ EnvironmentIsCurrent'
  BY <1>1, RowsFrame, EnvFrame DEF Inv
<1>6. BatchInv'
  BY <1>1, <1>2, <1>3 DEF Inv, BatchInv
<1>7. CacheInv' /\ CurInv'
  BY <1>1, <1>2 DEF Inv, CacheInv, CurInv
<1>. QED  BY <1>4, <1>5, <1>6, <1>7 DEF Inv

\* Where the module at hand is, and that the step moves on.
LEMMA AtStep ==
    ASSUME Inv, NEW m \in Module, NEW step \in {"remove", "write", "build"}, At(m, step),
           NEW next \in {"write", "build"}, op' = [op EXCEPT !.step = next]
    PROVE  /\ op # NoOp /\ op \in Op /\ op.cur = m /\ m # NoModule /\ op.step = step
           /\ m \in op.todo /\ op' # NoOp /\ op' \in Op
           /\ op'.kind = op.kind /\ op'.batch = op.batch
           /\ op'.todo = op.todo /\ op'.errors = op.errors
           /\ op'.input = op.input /\ op'.ids = op.ids
           /\ op'.cache = op.cache /\ op'.stale = op.stale
           /\ op'.cur = m /\ op'.step = next /\ op'.data = op.data /\ op'.next = op.next
<1>1. /\ op # NoOp /\ op \in Op /\ op.cur = m /\ m # NoModule /\ op.step = step
      /\ m \in op.todo
  BY DeploymentDataAssumption DEF At, Inv, TypeOK, BatchInv
<1>2. op' = Stepped(m, next)
  BY <1>1, SteppedInPlace
<1>. QED  BY <1>1, <1>2, SteppedIs, DeploymentDataAssumption

LEMMA RemoveStep ==
    ASSUME Inv, NEW m \in Module, Remove(m)
    PROVE  Inv'
<1>1. /\ At(m, "remove") /\ op' = [op EXCEPT !.step = "write"]
      /\ env' = [env EXCEPT ![m] = NoEnv] /\ UNCHANGED <<globals, rows, outdated, faults>>
  BY DEF Remove
<1>2. /\ op # NoOp /\ op \in Op /\ op.cur = m /\ m # NoModule /\ op.step = "remove"
      /\ m \in op.todo /\ op' # NoOp /\ op' \in Op
      /\ op'.kind = op.kind /\ op'.batch = op.batch
      /\ op'.todo = op.todo /\ op'.errors = op.errors
      /\ op'.input = op.input /\ op'.ids = op.ids
      /\ op'.cache = op.cache /\ op'.stale = op.stale
      /\ op'.cur = m /\ op'.step = "write" /\ op'.data = op.data /\ op'.next = op.next
  BY <1>1, AtStep
<1>3. /\ env' \in [Module -> Env \cup {NoEnv}] /\ env'[m] = NoEnv
      /\ \A n \in Module : env'[n] \in {env[n], NoEnv}
  BY <1>1 DEF Inv, TypeOK
<1>4. TypeOK'
  BY <1>1, <1>2, <1>3 DEF Inv, TypeOK
<1>5. RowsInv' /\ EnvironmentIsCurrent'
  BY <1>1, <1>3, RowsFrame, EnvFrame DEF Inv
<1>6. BatchInv'
  BY <1>1, <1>2 DEF Inv, BatchInv
<1>7. CacheInv' /\ CurInv'
  BY <1>1, <1>2, <1>3 DEF Inv, CacheInv, CurInv, DataInv
<1>. QED  BY <1>4, <1>5, <1>6, <1>7 DEF Inv

LEMMA WriteStep ==
    ASSUME Inv, NEW m \in Module, Write(m)
    PROVE  Inv'
<1>1. /\ At(m, "write") /\ op.kind \in {"create", "update"} /\ ~ Dangling(op.data)
      /\ op' = [op EXCEPT !.step = "build"] /\ rows' = [rows EXCEPT ![m] = op.data]
      /\ UNCHANGED <<globals, env, outdated, faults>>
  BY DEF Write, Written
<1>2. /\ op # NoOp /\ op \in Op /\ op.cur = m /\ m # NoModule /\ op.step = "write"
      /\ m \in op.todo /\ op' # NoOp /\ op' \in Op
      /\ op'.kind = op.kind /\ op'.batch = op.batch
      /\ op'.todo = op.todo /\ op'.errors = op.errors
      /\ op'.input = op.input /\ op'.ids = op.ids
      /\ op'.cache = op.cache /\ op'.stale = op.stale
      /\ op'.cur = m /\ op'.step = "build" /\ op'.data = op.data /\ op'.next = op.next
  BY <1>1, AtStep
<1>3. /\ op.data \in Row /\ op.data # NoRow /\ DataInv(m, op.data)
      /\ op.data.id = op.ids[m] /\ env[m] = NoEnv
  BY <1>1, <1>2, DeploymentDataAssumption DEF Inv, CurInv
<1>4. /\ rows' \in [Module -> Row \cup {NoRow}] /\ rows'[m] = op.data
      /\ \A n \in Module : n # m => rows'[n] = rows[n]
  BY <1>1, <1>3 DEF Inv, TypeOK
<1>5. TypeOK'
  BY <1>1, <1>2, <1>4 DEF Inv, TypeOK
<1>6. RowsInv'
  BY <1>1, <1>3, <1>4 DEF Inv, RowsInv, Dangling, DataInv
<1>7. BatchInv'
  <2>1. op.batch \subseteq Module
    BY <1>2 DEF Op
  <2>2. DOMAIN op.ids \subseteq Module
    BY <1>2, PartialIs DEF Op
  <2>. QED  BY <1>1, <1>2, <1>3, <1>4, <2>1, <2>2 DEF Inv, BatchInv
<1>8. CacheInv'
  BY <1>1, <1>2 DEF Inv, CacheInv
<1>9. CurInv'
  BY <1>1, <1>2, <1>3, <1>4 DEF Inv, CurInv, DataInv
<1>10. EnvironmentIsCurrent'
  BY <1>1, <1>3, <1>4 DEF Inv, EnvironmentIsCurrent
<1>. QED  BY <1>5, <1>6, <1>7, <1>8, <1>9, <1>10 DEF Inv

LEMMA WriteNamesStep ==
    ASSUME Inv, NEW m \in Module, WriteNames(m)
    PROVE  Inv'
<1>1. /\ At(m, "write") /\ op.kind = "recreate" /\ op' = [op EXCEPT !.step = "build"]
      /\ UNCHANGED <<globals, rows, env, outdated, faults>>
  BY DEF WriteNames, Written
<1>2. /\ op # NoOp /\ op \in Op /\ op.cur = m /\ m # NoModule /\ op.step = "write"
      /\ m \in op.todo /\ op' # NoOp /\ op' \in Op
      /\ op'.kind = op.kind /\ op'.batch = op.batch
      /\ op'.todo = op.todo /\ op'.errors = op.errors
      /\ op'.input = op.input /\ op'.ids = op.ids
      /\ op'.cache = op.cache /\ op'.stale = op.stale
      /\ op'.cur = m /\ op'.step = "build" /\ op'.data = op.data /\ op'.next = op.next
  BY <1>1, AtStep
<1>3. TypeOK'
  BY <1>1, <1>2 DEF Inv, TypeOK
<1>4. RowsInv' /\ EnvironmentIsCurrent'
  BY <1>1, RowsFrame, EnvFrame DEF Inv
<1>5. BatchInv'
  BY <1>1, <1>2 DEF Inv, BatchInv
<1>6. CacheInv' /\ CurInv'
  BY <1>1, <1>2 DEF Inv, CacheInv, CurInv, DataInv
<1>. QED  BY <1>3, <1>4, <1>5, <1>6 DEF Inv

\* The module at hand is handled.
LEMMA HandledStep ==
    ASSUME Inv, NEW m \in Module, NEW step \in {"write", "build"}, At(m, step),
           op' = [Failed(m) EXCEPT !.errors = op.errors]
    PROVE  /\ op # NoOp /\ op \in Op /\ op.cur = m /\ m # NoModule /\ op.step = step
           /\ m \in op.todo /\ op' # NoOp /\ op' \in Op
           /\ op'.kind = op.kind /\ op'.batch = op.batch
           /\ op'.todo = op.todo \ {m} /\ op'.errors = op.errors
           /\ op'.input = op.input /\ op'.ids = op.ids
           /\ op'.cache = op.cache /\ op'.stale = op.stale
           /\ op'.cur = NoModule /\ op'.step = "next"
<1>1. /\ op # NoOp /\ op \in Op /\ op.cur = m /\ m # NoModule /\ op.step = step
      /\ m \in op.todo
  BY DeploymentDataAssumption DEF At, Inv, TypeOK, BatchInv
<1>2. op' = Handled(m)
  BY DEF Handled
<1>3. /\ op' \in Op
      /\ op'.kind = op.kind /\ op'.batch = op.batch
      /\ op'.todo = op.todo \ {m} /\ op'.errors = op.errors
      /\ op'.input = op.input /\ op'.ids = op.ids
      /\ op'.cache = op.cache /\ op'.stale = op.stale
      /\ op'.cur = NoModule /\ op'.step = "next"
  BY <1>1, <1>2, HandledIs
<1>. QED  BY <1>1, <1>3, DeploymentDataAssumption

LEMMA DeleteRowStep ==
    ASSUME Inv, NEW m \in Module, DeleteRow(m)
    PROVE  Inv'
<1>1. /\ At(m, "write") /\ op.kind = "delete" /\ rows' = [rows EXCEPT ![m] = NoRow]
      /\ op' = [Failed(m) EXCEPT !.errors = op.errors]
      /\ UNCHANGED <<globals, env, outdated, faults>>
  BY DEF DeleteRow
<1>2. /\ op # NoOp /\ op \in Op /\ op.cur = m /\ m # NoModule /\ op.step = "write"
      /\ m \in op.todo /\ op' # NoOp /\ op' \in Op
      /\ op'.kind = op.kind /\ op'.batch = op.batch
      /\ op'.todo = op.todo \ {m} /\ op'.errors = op.errors
      /\ op'.input = op.input /\ op'.ids = op.ids
      /\ op'.cache = op.cache /\ op'.stale = op.stale
      /\ op'.cur = NoModule /\ op'.step = "next"
  BY <1>1, HandledStep
<1>3. env[m] = NoEnv
  BY <1>2 DEF Inv, CurInv
<1>4. /\ rows' \in [Module -> Row \cup {NoRow}] /\ rows'[m] = NoRow
      /\ \A n \in Module : n # m => rows'[n] = rows[n]
  BY <1>1 DEF Inv, TypeOK
<1>5. TypeOK'
  BY <1>1, <1>2, <1>4 DEF Inv, TypeOK
<1>6. RowsInv'
  BY <1>1, <1>4 DEF Inv, RowsInv, DataInv
<1>7. BatchInv' /\ CacheInv' /\ CurInv'
  BY <1>1, <1>2 DEF Inv, BatchInv, CacheInv, CurInv
<1>8. EnvironmentIsCurrent'
  BY <1>1, <1>3, <1>4 DEF Inv, EnvironmentIsCurrent
<1>. QED  BY <1>5, <1>6, <1>7, <1>8 DEF Inv

\* The containers of m are what its row says.
LEMMA BuiltIsCurrent ==
    ASSUME Inv, NEW m \in Module, Build(m)
    PROVE  LET row == rows[m]
               new == op.next IN
           /\ row # NoRow /\ new \in Env
           /\ new.id = row.id /\ new.groups = row.groups
           /\ \A r \in DOMAIN row.globals :
                 Images(row.globals) \cap op.stale = {} =>
                     r \in DOMAIN new.configs /\ new.configs[r] = globals[row.globals[r]]
           /\ \A r \in DOMAIN row.configs \ DOMAIN row.globals :
                 r \in DOMAIN new.configs /\ new.configs[r] = row.configs[r]
           /\ \A r \in DOMAIN ConfigSpec[m] \ (DOMAIN row.globals \cup DOMAIN row.configs) :
                 IF ConfigSpec[m][r].default = NoValue THEN r \notin DOMAIN new.configs
                 ELSE r \in DOMAIN new.configs /\ new.configs[r] = ConfigSpec[m][r].default
           /\ \A r \in DOMAIN row.files :
                 r \in DOMAIN new.files /\ new.files[r] = row.files[r]
           /\ \A r \in DOMAIN row.secrets :
                 \/ SecretSpec[m][r].env /\ SecretSpec[m][r].mount
                 \/ /\ SecretSpec[m][r].env =>
                           r \in DOMAIN new.secretVars /\ new.secretVars[r] = row.secrets[r]
                    /\ SecretSpec[m][r].mount =>
                           r \in DOMAIN new.secretMounts /\ new.secretMounts[r] = row.secrets[r]
<1>. DEFINE row == rows[m]
            new == op.next
<1>1. /\ op # NoOp /\ op \in Op /\ op.cur = m /\ op.step = "build" /\ m # NoModule
  BY DeploymentDataAssumption DEF Build, At, Inv, TypeOK
<1>2. /\ op.kind # "delete" /\ row = op.data /\ row \in Row /\ row # NoRow
      /\ Images(row.globals) \subseteq DOMAIN op.cache
      /\ new = NewEnv(m, row, op.cache, op.ids)
  BY <1>1, DeploymentDataAssumption DEF Inv, CurInv
<1>3. op.cache \in Partial(Global, Value) /\ op.ids \in Partial(Module, Id)
  BY <1>1 DEF Op
<1>. DEFINE merged == MergeConfigs(m, row, op.cache)
<1>4. /\ new.id = row.id /\ new.groups = row.groups /\ new.configs = merged
      /\ new.files = Override(DefaultFiles(m), row.files)
      /\ new.secretVars = SecretVars(m, row) /\ new.secretMounts = SecretMounts(m, row)
  BY <1>2 DEF NewEnv, MergeFiles
<1>5. /\ DOMAIN merged = DOMAIN DefaultConfigs(m) \cup DOMAIN row.configs \cup DOMAIN row.globals
      /\ \A r \in DOMAIN row.globals : merged[r] = op.cache[row.globals[r]]
      /\ \A r \in DOMAIN row.configs \ DOMAIN row.globals : merged[r] = row.configs[r]
      /\ \A r \in DOMAIN DefaultConfigs(m) \ (DOMAIN row.configs \cup DOMAIN row.globals) :
            merged[r] = DefaultConfigs(m)[r]
  BY <1>2, <1>3, MergeConfigsIs
<1>6. new \in Env
  BY <1>2, <1>3, NewEnvType
<1>7. ASSUME NEW r \in DOMAIN row.globals, Images(row.globals) \cap op.stale = {}
      PROVE  r \in DOMAIN new.configs /\ new.configs[r] = globals[row.globals[r]]
  <2>1. row.globals[r] \in Images(row.globals)
    BY DEF Images
  <2>2. globals[row.globals[r]] \in {op.cache[row.globals[r]], NoValue}
    BY <1>1, <1>2, <1>7, <2>1 DEF Inv, CacheInv
  <2>3. globals[row.globals[r]] # NoValue
    BY <1>2, <2>1 DEF Inv, RowsInv
  <2>. QED  BY <1>4, <1>5, <2>2, <2>3
<1>8. ASSUME NEW r \in DOMAIN ConfigSpec[m] \ (DOMAIN row.globals \cup DOMAIN row.configs)
      PROVE  IF ConfigSpec[m][r].default = NoValue THEN r \notin DOMAIN new.configs
             ELSE r \in DOMAIN new.configs /\ new.configs[r] = ConfigSpec[m][r].default
  <2>1. r \in DOMAIN DefaultConfigs(m) <=> ConfigSpec[m][r].default # NoValue
    BY DEF DefaultConfigs
  <2>2. r \in DOMAIN DefaultConfigs(m) => DefaultConfigs(m)[r] = ConfigSpec[m][r].default
    BY DEF DefaultConfigs
  <2>. QED  BY <1>4, <1>5, <2>1, <2>2
<1>9. \A r \in DOMAIN row.files : r \in DOMAIN new.files /\ new.files[r] = row.files[r]
  BY <1>4 DEF Override
<1>10. \A r \in DOMAIN row.secrets :
          \/ SecretSpec[m][r].env /\ SecretSpec[m][r].mount
          \/ /\ SecretSpec[m][r].env =>
                    r \in DOMAIN new.secretVars /\ new.secretVars[r] = row.secrets[r]
             /\ SecretSpec[m][r].mount =>
                    r \in DOMAIN new.secretMounts /\ new.secretMounts[r] = row.secrets[r]
  BY <1>4, SecretsSplit
<1>. QED  BY <1>2, <1>4, <1>5, <1>6, <1>7, <1>8, <1>9, <1>10

LEMMA BuildStep ==
    ASSUME Inv, NEW m \in Module, Build(m)
    PROVE  Inv'
<1>1. /\ At(m, "build") /\ env' = [env EXCEPT ![m] = op.next]
      /\ outdated' = IF Images(op.data.globals) \cap op.stale = {}
                     THEN outdated \ {m} ELSE outdated \cup {m}
      /\ op' = [Failed(m) EXCEPT !.errors = op.errors]
      /\ UNCHANGED <<globals, rows, faults>>
  BY DEF Build
<1>2. /\ op # NoOp /\ op \in Op /\ op.cur = m /\ m # NoModule /\ op.step = "build"
      /\ m \in op.todo /\ op' # NoOp /\ op' \in Op
      /\ op'.kind = op.kind /\ op'.batch = op.batch
      /\ op'.todo = op.todo \ {m} /\ op'.errors = op.errors
      /\ op'.input = op.input /\ op'.ids = op.ids
      /\ op'.cache = op.cache /\ op'.stale = op.stale
      /\ op'.cur = NoModule /\ op'.step = "next"
  BY <1>1, HandledStep
<1>3. /\ op.kind # "delete" /\ rows[m] = op.data /\ op.data \in Row /\ op.data # NoRow
      /\ op.data.id = op.ids[m]
  BY <1>2, DeploymentDataAssumption DEF Inv, CurInv
<1>4. op.next \in Env
  BY BuiltIsCurrent
<1>5. /\ env' \in [Module -> Env \cup {NoEnv}] /\ env'[m] = op.next
      /\ \A n \in Module : n # m => env'[n] = env[n] /\ (n \in outdated' <=> n \in outdated)
  BY <1>1, <1>4 DEF Inv, TypeOK
<1>6. TypeOK'
  BY <1>1, <1>2, <1>5 DEF Inv, TypeOK
<1>7. RowsInv'
  BY <1>1, RowsFrame DEF Inv
<1>8. BatchInv'
  BY <1>1, <1>2, <1>3 DEF Inv, BatchInv
<1>9. CacheInv' /\ CurInv'
  BY <1>1, <1>2 DEF Inv, CacheInv, CurInv
<1>10. m \notin outdated' => Images(rows[m].globals) \cap op.stale = {}
  BY <1>1, <1>3
<1>11. EnvironmentIsCurrent'
  <2>. SUFFICES ASSUME NEW n \in Module, env'[n] # NoEnv
                PROVE  LET row == rows'[n] IN
        /\ row # NoRow
        /\ env'[n].id = row.id
        /\ \A r \in DOMAIN ConfigSpec[n] :
              CASE r \in DOMAIN row.globals ->
                       n \notin outdated' =>
                           /\ r \in DOMAIN env'[n].configs
                           /\ env'[n].configs[r] = globals'[row.globals[r]]
                [] r \notin DOMAIN row.globals /\ r \in DOMAIN row.configs ->
                       r \in DOMAIN env'[n].configs /\ env'[n].configs[r] = row.configs[r]
                [] OTHER ->
                       IF ConfigSpec[n][r].default = NoValue
                       THEN r \notin DOMAIN env'[n].configs
                       ELSE r \in DOMAIN env'[n].configs /\
                            env'[n].configs[r] = ConfigSpec[n][r].default
        /\ env'[n].groups = row.groups
        /\ \A r \in DOMAIN row.files :
              r \in DOMAIN env'[n].files /\ env'[n].files[r] = row.files[r]
        /\ \A r \in DOMAIN row.secrets :
              \/ SecretSpec[n][r].env /\ SecretSpec[n][r].mount
              \/ /\ SecretSpec[n][r].env =>
                        r \in DOMAIN env'[n].secretVars /\ env'[n].secretVars[r] = row.secrets[r]
                 /\ SecretSpec[n][r].mount =>
                        r \in DOMAIN env'[n].secretMounts /\ env'[n].secretMounts[r] = row.secrets[r]
    BY DEF EnvironmentIsCurrent
  <2>1. CASE n # m
    BY <1>1, <1>5, <2>1 DEF Inv, EnvironmentIsCurrent
  <2>2. CASE n = m
    BY <1>1, <1>5, <1>10, <2>2, BuiltIsCurrent
  <2>. QED  BY <2>1, <2>2
<1>. QED  BY <1>6, <1>7, <1>8, <1>9, <1>11 DEF Inv

LEMMA Inductive ==
    ASSUME Inv, [Next]_vars
    PROVE  Inv'
<1>1. CASE GlobalsNext
  BY <1>1, CreateGlobalStep, UpdateGlobalStep, DeleteGlobalsStep DEF GlobalsNext
<1>2. CASE Request
  BY <1>2, CreateStep, UpdateStep, RecreateStep, DeleteStep DEF Request
<1>3. CASE \E m \in Module : Step(m)
  BY <1>3, CheckStep, BeginDeletionStep, RemoveStep, WriteStep, WriteNamesStep,
     DeleteRowStep, BuildStep, FailuresStep DEF Step
<1>4. CASE End \/ Crash
  BY <1>4, EndStep
<1>5. CASE UNCHANGED vars
  BY <1>5 DEF vars, Inv, TypeOK, RowsInv, DataInv, BatchInv, CacheInv, CurInv,
     EnvironmentIsCurrent
<1>. QED  BY <1>1, <1>2, <1>3, <1>4, <1>5 DEF Next

LEMMA Invariance == Spec => []Inv
  BY Initially, Inductive, PTL DEF Spec

-----------------------------------------------------------------------------
(* The theorems. *)

\* The tables, the containers and the local variables of an operation are typed.
THEOREM TypeCorrect == Spec => []TypeOK
<1>1. Inv => TypeOK
  BY DEF Inv
<1>. QED  BY <1>1, Invariance, PTL

\* Containers are made from what the rows say, for any modules and any input: the
\* merge (GetDefaultData, MergeConfigs) and the way through the database and back
\* (recreateDeployment) agree, and only a global config that changed after the
\* operation had read it, and a secret asked for in both ways, are different.
THEOREM EnvironmentCurrent == Spec => []EnvironmentIsCurrent
<1>1. Inv => EnvironmentIsCurrent
  BY DEF Inv
<1>. QED  BY <1>1, Invariance, PTL

\* What was accepted and stored passes the same checks when a recreate or an enable
\* reads it again, as long as it can be read and global configs keep their type.
THEOREM DataStaysUsable == Spec => []StoredDataStaysUsable
<1>1. ASSUME Inv PROVE StoredDataStaysUsable
  <2>. DEFINE all == [g \in {h \in Global : globals[h] # NoValue} |-> globals[g]]
  <2>1. all \in Partial(Global, Value) /\ DOMAIN all = {h \in Global : globals[h] # NoValue}
    <3>1. all \in [{h \in Global : globals[h] # NoValue} -> Value]
      BY <1>1 DEF Inv, TypeOK
    <3>. QED  BY <3>1, PartialIs
  <2>2. SUFFICES ASSUME NEW m \in Deployed,
                        \A r \in DOMAIN rows[m].globals :
                            LET v == globals[rows[m].globals[r]] IN
                            v = NoValue \/ ValidateValue(v, ConfigSpec[m][r])
                 PROVE  Accepted(m, rows[m], all)
    BY DEF StoredDataStaysUsable
  <2>. DEFINE data == rows[m]
  <2>3. /\ m \in Module /\ data \in Row /\ DataInv(m, data)
        /\ \A g \in Images(data.globals) : globals[g] # NoValue
    BY <1>1 DEF Inv, TypeOK, RowsInv, Deployed
  <2>4. /\ Images(data.globals) \subseteq DOMAIN all
        /\ \A r \in DOMAIN data.globals : data.globals[r] \in Images(data.globals)
    BY <2>1, <2>3, ImagesType DEF Row
  <2>5. \A r \in DOMAIN data.globals : ValidateValue(all[data.globals[r]], ConfigSpec[m][r])
    BY <2>1, <2>2, <2>3, <2>4
  <2>6. DOMAIN MergeConfigs(m, data, all) =
            DOMAIN DefaultConfigs(m) \cup DOMAIN data.configs \cup DOMAIN data.globals
    <3>1. PICK c \in Partial(Global, Value) : c = all
      BY <2>1
    <3>2. PICK row \in Row : row = data
      BY <2>3
    <3>. HIDE DEF all, data
    <3>3. Images(row.globals) \subseteq DOMAIN c
      BY <2>4, <3>1, <3>2
    <3>4. DOMAIN MergeConfigs(m, row, c) =
              DOMAIN DefaultConfigs(m) \cup DOMAIN row.configs \cup DOMAIN row.globals
      BY <2>3, <3>3, MergeConfigsIs
    <3>. QED  BY <3>1, <3>2, <3>4
  <2>7. /\ CheckConfigs(m, MergeConfigs(m, data, all)) /\ CheckFiles(m, MergeFiles(m, data))
        /\ SecretsFound(m, data)
    BY <2>3, <2>6 DEF DataInv, CheckConfigs
  <2>. QED  BY <2>4, <2>5, <2>7 DEF Accepted
<1>. QED  BY <1>1, Invariance, PTL

\* An alias that containers are given belongs to a deployment that exists, but for the
\* two ways that are named (updateDeploymentsCache, DeleteDeployments).
THEOREM MisledKnown == Spec => MisledOnlyWhereKnown
<1>1. ASSUME Inv, [Next]_vars, NEW m \in Module, NEW d \in Module,
             Misled(m, d)', ~ Misled(m, d)
      PROVE  \/ rows[d] # NoRow /\ rows'[d] = NoRow
             \/ op.kind = "create" /\ d \in op.batch /\ d \in op.todo \cup op.errors
  <2>1. /\ env'[m] # NoEnv /\ d \in DOMAIN env'[m].deps
        /\ rows'[d] = NoRow \/ rows'[d].id # env'[m].deps[d]
    BY <1>1 DEF Misled
  <2>2. ASSUME env'[m] = env[m], rows'[d] # NoRow
        PROVE  rows[d] # NoRow /\ rows'[d].id # rows[d].id
    BY <1>1, <2>1, <2>2 DEF Misled
  <2>3. CASE \E n \in Module : Write(n)
    <3>. PICK n \in Module : Write(n)
      BY <2>3
    <3>1. /\ At(n, "write") /\ op.kind \in {"create", "update"}
          /\ rows' = [rows EXCEPT ![n] = op.data] /\ UNCHANGED env
      BY DEF Write
    <3>2. /\ op # NoOp /\ op.cur = n /\ n # NoModule /\ n \in op.todo /\ n \in op.batch
          /\ op.step = "write"
      BY <1>1, <3>1, DeploymentDataAssumption DEF At, Inv, BatchInv
    <3>3. /\ op.data \in Row /\ op.data # NoRow /\ op.data.id = op.ids[n]
      BY <1>1, <3>1, <3>2, DeploymentDataAssumption DEF Inv, CurInv
    <3>4. rows[n] = NoRow \/ rows[n].id = op.data.id
      BY <1>1, <3>1, <3>2, <3>3 DEF Inv, BatchInv
    <3>5. rows'[n] = op.data /\ \A k \in Module : k # n => rows'[k] = rows[k]
      BY <1>1, <3>1 DEF Inv, TypeOK
    <3>6. CASE rows'[d] # NoRow
      <4>1. rows[d] # NoRow /\ rows'[d].id # rows[d].id
        BY <2>2, <3>1, <3>6
      <4>. QED  BY <3>4, <3>5, <4>1
    <3>7. CASE rows'[d] = NoRow
      BY <1>1, <2>1, <3>1, <3>3, <3>5, <3>7 DEF Misled
    <3>. QED  BY <3>6, <3>7
  <2>4. CASE \E n \in Module : Build(n)
    <3>. PICK n \in Module : Build(n)
      BY <2>4
    <3>1. /\ At(n, "build") /\ env' = [env EXCEPT ![n] = op.next] /\ UNCHANGED rows
      BY DEF Build
    <3>2. n = m
      BY <1>1, <2>1, <3>1 DEF Misled, Inv, TypeOK
    <3>3. /\ op # NoOp /\ op \in Op /\ op.cur = m /\ m # NoModule /\ op.step = "build"
      BY <1>1, <3>1, <3>2, DeploymentDataAssumption DEF At, Inv, TypeOK
    <3>4. op.kind # "delete" /\ op.next = NewEnv(m, op.data, op.cache, op.ids)
      BY <1>1, <3>3 DEF Inv, CurInv
    <3>5. env'[m].deps = Restricted(op.ids, DependsOn[m])
      BY <1>1, <3>1, <3>2, <3>4 DEF Inv, TypeOK, NewEnv
    <3>6. d \in DOMAIN op.ids /\ env'[m].deps[d] = op.ids[d]
      BY <2>1, <3>5 DEF Restricted
    <3>. QED  BY <1>1, <2>1, <3>1, <3>3, <3>4, <3>6 DEF Inv, BatchInv
  <2>5. CASE \E n \in Module : DeleteRow(n)
    <3>1. UNCHANGED env /\ \A k \in Module : rows'[k] \in {rows[k], NoRow}
      BY <1>1, <2>5 DEF DeleteRow, Inv, TypeOK
    <3>. QED  BY <1>1, <2>1, <3>1 DEF Misled
  <2>6. CASE UNCHANGED rows /\ env'[m] \in {env[m], NoEnv}
    BY <1>1, <2>1, <2>6 DEF Misled
  <2>. QED
    BY <1>1, <2>3, <2>4, <2>5, <2>6
    DEF Next, GlobalsNext, Request, Step, CreateGlobal, UpdateGlobal, DeleteGlobals,
        Create, Update, Recreate, Delete, Begin, Check, CheckFails, BeginDeletion,
        Remove, RemoveFails, WriteNames, WriteFails, BuildFails, End, Crash, vars, Inv, TypeOK
<1>2. Inv /\ [Next]_vars =>
          \A m, d \in Module :
              (Misled(m, d)' /\ ~ Misled(m, d)) =>
                  \/ rows[d] # NoRow /\ rows'[d] = NoRow
                  \/ /\ op.kind = "create" /\ d \in op.batch
                     /\ d \in op.todo \cup op.errors
  BY <1>1
<1>. QED  BY <1>2, Invariance, PTL DEF Spec, MisledOnlyWhereKnown

\* A request that is refused with nothing failing has changed nothing, but for data that
\* the transaction or the engine refuses and that no check has looked at
\* (createDeployment, updateDeployment, recreateDeployment).
THEOREM LateRefusalsKnown == Spec => LateRefusalsAreKnown
<1>1. ASSUME Inv, [Next]_vars, NEW m \in Module,
             op # NoOp, op' # NoOp, m \in op'.errors \ op.errors, faults' = faults
      PROVE  \/ op.cur # m /\ rows'[m] = rows[m] /\ env'[m] = env[m]
             \/ /\ op.cur = m /\ op.step = "write" /\ op.kind \in {"create", "update"}
                /\ Dangling(op.data) \/ ~ Storable(op.data)
                /\ rows'[m] = rows[m]
             \/ /\ op.cur = m /\ op.step = "build"
                /\ \/ Images(rows[m].groups) \cap Unusable.groups # {}
                   \/ \E r \in DOMAIN rows[m].secrets :
                         SecretSpec[m][r].mount /\ rows[m].secrets[r] \in Unusable.secrets
                /\ rows'[m] = op.data
  <2>1. ~ Fault
    BY <1>1, FaultType DEF Inv
  <2>2. op \in Op
    BY <1>1 DEF Inv, TypeOK
  <2>3. CASE \E n \in Module : Check(n)
    <3>1. op.cur = NoModule /\ UNCHANGED <<rows, env>>
      BY <2>3 DEF Check, Unhandled
    <3>. QED  BY <3>1, DeploymentDataAssumption
  <2>4. CASE \E n \in Module : WriteFails(n)
    <3>. PICK n \in Module : WriteFails(n)
      BY <2>4
    <3>1. /\ op' = Failed(n) /\ op.cur = n /\ op.step = "write" /\ WriteRefused
          /\ UNCHANGED rows
      BY <2>1 DEF WriteFails, At
    <3>2. op'.errors = op.errors \cup {n}
      BY <2>2, <3>1, FailedIs
    <3>. QED  BY <1>1, <3>1, <3>2 DEF WriteRefused
  <2>5. CASE \E n \in Module : BuildFails(n)
    <3>. PICK n \in Module : BuildFails(n)
      BY <2>5
    <3>1. /\ op' = Failed(n) /\ op.cur = n /\ op.step = "build" /\ ~ Mountable(op.next)
          /\ UNCHANGED rows
      BY <2>1 DEF BuildFails, At
    <3>2. op'.errors = op.errors \cup {n}
      BY <2>2, <3>1, FailedIs
    <3>3. op.kind # "delete" /\ rows[n] = op.data
          /\ op.next = NewEnv(n, op.data, op.cache, op.ids)
      BY <1>1, <3>1, DeploymentDataAssumption DEF Inv, CurInv
    <3>4. \/ Images(rows[n].groups) \cap Unusable.groups # {}
          \/ \E r \in DOMAIN rows[n].secrets :
                SecretSpec[n][r].mount /\ rows[n].secrets[r] \in Unusable.secrets
      BY <3>1, <3>3, UnmountableIs
    <3>. QED  BY <1>1, <3>1, <3>2, <3>3, <3>4
  <2>6. CASE \E n \in Module : DeleteRow(n) \/ Build(n)
    <3>1. \E n \in Module : op' = Handled(n)
      BY <2>6 DEF DeleteRow, Build, Handled
    <3>2. op'.errors = op.errors
      BY <2>2, <3>1, HandledIs
    <3>. QED  BY <1>1, <3>2
  <2>7. CASE \E n \in Module : BeginDeletion(n) \/ Remove(n) \/ Write(n) \/ WriteNames(n)
    <3>1. op'.errors = op.errors
      BY <2>2, <2>7 DEF BeginDeletion, Remove, Write, WriteNames, Written, Op
    <3>. QED  BY <1>1, <3>1
  <2>8. CASE GlobalsNext
    <3>1. op'.errors = op.errors
      BY <2>2, <2>8 DEF GlobalsNext, CreateGlobal, UpdateGlobal, DeleteGlobals, Op
    <3>. QED  BY <1>1, <3>1
  <2>. QED
    BY <1>1, <2>1, <2>3, <2>4, <2>5, <2>6, <2>7, <2>8
    DEF Next, Request, Step, Create, Update, Recreate, Delete, Begin, CheckFails,
        RemoveFails, End, Crash, vars
<1>2. Inv /\ [Next]_vars =>
          \A m \in Module :
              (op # NoOp /\ op' # NoOp /\ m \in op'.errors \ op.errors /\ faults' = faults) =>
                  \/ op.cur # m /\ rows'[m] = rows[m] /\ env'[m] = env[m]
                  \/ /\ op.cur = m /\ op.step = "write" /\ op.kind \in {"create", "update"}
                     /\ Dangling(op.data) \/ ~ Storable(op.data)
                     /\ rows'[m] = rows[m]
                  \/ /\ op.cur = m /\ op.step = "build"
                     /\ \/ Images(rows[m].groups) \cap Unusable.groups # {}
                        \/ \E r \in DOMAIN rows[m].secrets :
                              SecretSpec[m][r].mount /\ rows[m].secrets[r] \in Unusable.secrets
                     /\ rows'[m] = op.data
  BY <1>1
<1>. QED  BY <1>2, Invariance, PTL DEF Spec, LateRefusalsAreKnown

=============================================================================
