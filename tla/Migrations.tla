------------------------------ MODULE Migrations ------------------------------
(***************************************************************************)
(* The database migrations that run at every start, before anything else   *)
(* uses the database: `restructure' turns the tables of the previous       *)
(* version into those of this one, `db_init' creates what is missing.      *)
(*                                                                         *)
(* MySQL commits every statement that changes the schema by itself, so a   *)
(* crash, a lost connection or a restart may come between any two of them, *)
(* and the next start begins with the first function again.  Each function *)
(* is a sequence of statements here, each behind the look-up that guards   *)
(* it in the code; one step executes one statement.                        *)
(*                                                                         *)
(* The previous schema is not part of the repository.  It is taken to have *)
(* the columns the migrations look for and, unchanged, those that they     *)
(* neither add nor rename.  Types, positions and the foreign keys of       *)
(* existing tables are left out; what they and the rows do not admit is an *)
(* input, the set `refused'.                                               *)
(***************************************************************************)
EXTENDS Naturals, Sequences, FiniteSets

CONSTANTS
    ConfigKey,     \* (dep_id, ref) of the rows of configs of the previous version
    ListConfigKey, \* (dep_id, ref) of the rows of list_configs
    Types,         \* the values of configs, by their type
    Null,          \* a row of either table with no value in any of its columns
    Lists,         \* what the list configs may contain
    Container,     \* rows of aux_containers
    Refusals       \* what the previous version may have left that MySQL refuses

ASSUME MigrationsAssumption ==
    /\ ConfigKey \cap ListConfigKey = {}
    /\ Null \notin UNION Types
    /\ Lists \subseteq Seq(UNION Types \cup {Null}) \ {<<>>}

VARIABLES
    tables,      \* the schema: per table its columns and keys
    rows,        \* the data that is moved from one table to another
    refused,     \* <<table, name>>: statements that MySQL refuses because of the
                 \* rows and foreign keys of the previous version
    next,        \* position in Migrate, the end when the service is up
    interrupted, \* history: stopped between a copy and the drop of its source
    cut          \* history: tables whose rows were last read only in part

migrationVars == <<tables, rows, refused, next, interrupted, cut>>

Table(cols, keys) == [cols |-> cols, keys |-> keys]

-----------------------------------------------------------------------------
(* Statements.  "test" is what the look-up in front of the statement asks  *)
(* for, "name" what the statement changes, "to" the new name, "on" further *)
(* columns or keys.                                                        *)

Statement(do, table, test, name, to, on) ==
    [do |-> do, table |-> table, test |-> test, name |-> name, to |-> to, on |-> on]

\* The look-up and the statement need not name the same column.
DropColumnTesting(t, test, c) == Statement("dropColumn", t, test, c, "", {})
DropColumn(t, c) == DropColumnTesting(t, c, c)
ChangeColumn(t, c, d) == Statement("changeColumn", t, c, c, d, {})
AddColumn(t, c) == Statement("addColumn", t, c, c, "", {})
AddIndex(t, k, cols) == Statement("addIndex", t, k, k, "", cols)
AddUniqueIndex(t, k, cols) == Statement("addUniqueIndex", t, k, k, "", cols)
AddPrimaryKey(t) == Statement("addPrimaryKey", t, "PRIMARY", "PRIMARY", "", {"id"})
DropOtherIndexes(t, keys) == Statement("dropIndexes", t, "", "", "", keys)
RenameTable(t, u) == Statement("renameTable", t, "", t, u, {})
DropTable(t) == Statement("dropTable", t, "", t, "", {})
\* A transaction that copies the rows of t to u.
Insert(t, u) == Statement("insert", t, "", t, u, {})
Update(t, u) == Statement("update", t, "", t, u, {})
\* CREATE TABLE IF NOT EXISTS, in Run of db_init or behind a look-up of t.
CreateTable(u) == Statement("createTable", "", "", u, "", {})
CreateTableIf(t, u) == Statement("createTable", t, "", u, "", {})

-----------------------------------------------------------------------------
(* The tables that db_init creates.                                        *)

AuxDeploymentsTables ==
    [aux_deployments |-> Table({"id", "dep_id", "image", "created", "updated",
        "ref", "name", "enabled", "ctr_name", "ctr_alias", "recreate",
        "command", "pseudo_tty"}, {"PRIMARY", "i_dep_id", "i_dep_id_ref"}),
     aux_dep_labels |-> Table({"aux_dep_id", "name", "value"},
        {"uk_aux_dep_id_name", "i_aux_dep_id"}),
     aux_dep_configs |-> Table({"aux_dep_id", "name", "value"},
        {"uk_aux_dep_id_name", "i_aux_dep_id"}),
     aux_dep_volumes |-> Table({"id", "dep_id", "ref", "name"},
        {"PRIMARY", "uk_dep_id_ref", "i_dep_id"}),
     aux_dep_volume_mounts |-> Table({"vol_id", "aux_dep_id", "mnt_path"},
        {"uk_aux_dep_id_mnt_path", "i_aux_dep_id"})]

DepAdvertisementsTables ==
    [dep_advertisements |-> Table({"id", "dep_id", "mod_id", "ref", "timestamp"},
        {"PRIMARY", "uk_dep_id_ref", "i_dep_id", "i_mod_id", "i_ref"}),
     dep_adv_items |-> Table({"dep_adv_id", "item_key", "item_value"},
        {"uk_dep_adv_id_item_key", "i_dep_adv_id"})]

\* The other tables of dep_* are not touched by restructure and are created
\* like these; dep_volumes stands for them.
DeploymentsTables ==
    [deployments |-> Table({"id", "mod_id", "mod_source", "mod_channel",
        "mod_ver", "dir", "files_dir", "enabled", "created", "updated"},
        {"PRIMARY", "uk_mod_id"}),
     dep_containers |-> Table({"dep_id", "name", "srv_ref", "alias"},
        {"uk_dep_id_name_srv_ref", "i_dep_id", "i_name"}),
     dep_volumes |-> Table({"dep_id", "ref", "name"}, {"uk_dep_id_ref", "i_dep_id"}),
     dep_host_resources |-> Table({"dep_id", "ref", "res_id"},
        {"uk_dep_id_ref", "i_dep_id"}),
     dep_secrets |-> Table({"dep_id", "ref", "sec_id", "item", "as_mount", "as_env"},
        {"uk_dep_id_ref_item", "i_dep_id"}),
     dep_configs |-> Table({"id", "dep_id", "ref", "data_type", "is_list"},
        {"PRIMARY", "uk_dep_id_ref", "i_dep_id"}),
     dep_config_values |-> Table({"c_id", "v_string", "v_int", "v_float",
        "v_bool", "ord"}, {"uk_c_id_ord", "i_c_id"})]

ModulesTables ==
    [modules |-> Table({"id", "dir", "source", "channel", "added", "updated"},
        {"PRIMARY"})]

GlobalConfigsTables ==
    [global_configs |-> Table({"id", "name", "data_type", "is_list"}, {"PRIMARY"})]

Target ==
    LET A == AuxDeploymentsTables
        D == DepAdvertisementsTables
        P == DeploymentsTables
        M == ModulesTables
        G == GlobalConfigsTables
    IN [t \in DOMAIN A \cup DOMAIN D \cup DOMAIN P \cup DOMAIN M \cup DOMAIN G |->
            CASE t \in DOMAIN A -> A[t]
              [] t \in DOMAIN D -> D[t]
              [] t \in DOMAIN P -> P[t]
              [] t \in DOMAIN M -> M[t]
              [] t \in DOMAIN G -> G[t]]

\* The column of another table that a foreign key of a new table refers to.
References(t) ==
    CASE t = "deployments" -> {<<"modules", "id">>}
      [] t = "dep_config_values" -> {<<"dep_configs", "id">>}
      [] t = "dep_adv_items" -> {<<"dep_advertisements", "id">>}
      [] t \in {"aux_dep_labels", "aux_dep_configs"} -> {<<"aux_deployments", "id">>}
      [] t = "aux_dep_volume_mounts" ->
            {<<"aux_dep_volumes", "id">>, <<"aux_deployments", "id">>}
      [] t \in {"modules", "global_configs"} -> {}
      [] OTHER -> {<<"deployments", "id">>}

-----------------------------------------------------------------------------
(* restructure, in the order of Migration.                                 *)

MigrateAuxConfigsTab ==
    LET t == "aux_configs" IN
    <<DropColumn(t, "index"),
      ChangeColumn(t, "aux_id", "aux_dep_id"),
      ChangeColumn(t, "ref", "name"),
      AddUniqueIndex(t, "uk_aux_dep_id_name", {"aux_dep_id", "name"}),
      AddIndex(t, "i_aux_dep_id", {"aux_dep_id"}),
      DropOtherIndexes(t, {"uk_aux_dep_id_name", "i_aux_dep_id"}),
      RenameTable(t, "aux_dep_configs")>>

MigrateAuxLabelsTab ==
    LET t == "aux_labels" IN
    <<DropColumn(t, "index"),
      ChangeColumn(t, "aux_id", "aux_dep_id"),
      AddUniqueIndex(t, "uk_aux_dep_id_name", {"aux_dep_id", "name"}),
      AddIndex(t, "i_aux_dep_id", {"aux_dep_id"}),
      DropOtherIndexes(t, {"uk_aux_dep_id_name", "i_aux_dep_id"}),
      RenameTable(t, "aux_dep_labels")>>

MigrateAuxVolumesTab ==
    LET t == "aux_volumes" IN
    <<DropColumn(t, "index"), DropColumn(t, "aux_id"), DropColumn(t, "mnt_point"),
      AddColumn(t, "dep_id"), AddColumn(t, "ref"),
      AddUniqueIndex(t, "uk_dep_id_ref", {"dep_id", "ref"}),
      AddIndex(t, "i_dep_id", {"dep_id"}),
      DropOtherIndexes(t, {"uk_dep_id_ref", "i_dep_id"}),
      RenameTable(t, "aux_dep_volumes")>>

MigrateAuxDeploymentsTab ==
    LET t == "aux_deployments" IN
    <<DropColumn(t, "index"),
      AddColumn(t, "ctr_name"), AddColumn(t, "ctr_alias"), AddColumn(t, "recreate"),
      AddPrimaryKey(t),
      AddIndex(t, "i_dep_id", {"dep_id"}),
      AddIndex(t, "i_dep_id_ref", {"dep_id", "ref"}),
      DropOtherIndexes(t, {"i_dep_id", "i_dep_id_ref"})>>

\* Faulty variant: the table is dropped before the transaction is committed.
MigrateAuxContainersTabDropFirst ==
    <<DropTable("aux_containers"), Update("aux_containers", "aux_deployments")>>

MigrateAuxContainersTab ==
    <<Update("aux_containers", "aux_deployments"), DropTable("aux_containers")>>

MigrateDepAdvItemsTab ==
    LET t == "dep_adv_items" IN
    <<DropColumn(t, "index"),
      ChangeColumn(t, "adv_id", "dep_adv_id"),
      ChangeColumn(t, "key", "item_key"),
      ChangeColumn(t, "value", "item_value"),
      AddUniqueIndex(t, "uk_dep_adv_id_item_key", {"dep_adv_id", "item_key"}),
      AddIndex(t, "i_dep_adv_id", {"dep_adv_id"}),
      DropOtherIndexes(t, {"uk_dep_adv_id_item_key", "i_dep_adv_id"})>>

MigrateDepAdvertisementsTab ==
    LET t == "dep_advertisements" IN
    <<DropColumn(t, "index"), DropColumn(t, "origin"),
      AddPrimaryKey(t),
      AddUniqueIndex(t, "uk_dep_id_ref", {"dep_id", "ref"}),
      AddIndex(t, "i_dep_id", {"dep_id"}),
      AddIndex(t, "i_mod_id", {"mod_id"}),
      AddIndex(t, "i_ref", {"ref"}),
      DropOtherIndexes(t, {"uk_dep_id_ref", "i_dep_id", "i_mod_id", "i_ref"})>>

CreateDepConfigTables ==
    <<CreateTableIf("deployments", "dep_configs"),
      CreateTableIf("deployments", "dep_config_values")>>

MigrateConfigsTab == <<Insert("configs", "dep_configs"), DropTable("configs")>>

MigrateListConfigsTab ==
    <<Insert("list_configs", "dep_configs"), DropTable("list_configs")>>

MigrateContainersTab ==
    LET t == "containers" IN
    <<DropColumn(t, "index"), DropColumn(t, "order"),
      ChangeColumn(t, "ctr_id", "name"),
      AddUniqueIndex(t, "uk_dep_id_name_srv_ref", {"dep_id", "name", "srv_ref"}),
      AddIndex(t, "i_dep_id", {"dep_id"}),
      AddIndex(t, "i_name", {"name"}),
      DropOtherIndexes(t, {"uk_dep_id_name_srv_ref", "i_dep_id", "i_name"}),
      RenameTable(t, "dep_containers")>>

MigrateHostResourcesTab ==
    LET t == "host_resources" IN
    <<DropColumn(t, "index"),
      AddUniqueIndex(t, "uk_dep_id_ref", {"dep_id", "ref"}),
      AddIndex(t, "i_dep_id", {"dep_id"}),
      DropOtherIndexes(t, {"uk_dep_id_ref", "i_dep_id"}),
      RenameTable(t, "dep_host_resources")>>

MigrateSecretsTab ==
    LET t == "secrets" IN
    <<DropColumn(t, "index"),
      AddUniqueIndex(t, "uk_dep_id_ref_item", {"dep_id", "ref", "item"}),
      AddIndex(t, "i_dep_id", {"dep_id"}),
      DropOtherIndexes(t, {"uk_dep_id_ref_item", "i_dep_id"}),
      RenameTable(t, "dep_secrets")>>

\* The look-up for column order asks for `order`, with the quotes of the
\* statement, which is the name of no column.
MigrateDeploymentsTab ==
    LET t == "deployments" IN
    <<DropColumn(t, "index"), DropColumn(t, "name"), DropColumn(t, "indirect"),
      DropColumnTesting(t, "quoted_order", "order"),
      AddColumn(t, "mod_source"), AddColumn(t, "mod_channel"),
      AddColumn(t, "files_dir"),
      AddPrimaryKey(t),
      AddUniqueIndex(t, "uk_mod_id", {"mod_id"}),
      DropOtherIndexes(t, {"uk_mod_id"})>>

\* Faulty variant: the same mistake in a look-up of the modules table.
MigrateModulesTabQuoted ==
    <<DropColumn("modules", "index"),
      DropColumnTesting("modules", "quoted_modfile", "modfile"),
      AddPrimaryKey("modules"),
      DropOtherIndexes("modules", {}),
      AddColumn("modules", "source"), AddColumn("modules", "channel")>>

MigrateModulesTab ==
    <<DropColumn("modules", "index"), DropColumn("modules", "modfile"),
      AddPrimaryKey("modules"),
      DropOtherIndexes("modules", {}),
      AddColumn("modules", "source"), AddColumn("modules", "channel")>>

DropTables == <<DropTable("dependencies"), DropTable("mod_dependencies")>>

Restructure ==
    MigrateAuxConfigsTab \o MigrateAuxLabelsTab \o MigrateAuxVolumesTab
        \o MigrateAuxDeploymentsTab \o MigrateAuxContainersTab
        \o MigrateDepAdvItemsTab \o MigrateDepAdvertisementsTab
        \o CreateDepConfigTables \o MigrateConfigsTab \o MigrateListConfigsTab
        \o MigrateContainersTab \o MigrateHostResourcesTab \o MigrateSecretsTab
        \o MigrateDeploymentsTab \o MigrateModulesTab \o DropTables

DbInit ==
    <<CreateTable("global_configs"), CreateTable("modules"),
      CreateTable("deployments"), CreateTable("dep_containers"),
      CreateTable("dep_volumes"), CreateTable("dep_host_resources"),
      CreateTable("dep_secrets"), CreateTable("dep_configs"),
      CreateTable("dep_config_values"), CreateTable("aux_deployments"),
      CreateTable("aux_dep_labels"), CreateTable("aux_dep_configs"),
      CreateTable("aux_dep_volumes"), CreateTable("aux_dep_volume_mounts"),
      CreateTable("dep_advertisements"), CreateTable("dep_adv_items")>>

\* Faulty variant: the migrations are passed in the other order.
MigrateDbInitFirst == DbInit \o Restructure

\* Handler.Migrate, as main calls it.
Migrate == Restructure \o DbInit

Up == next > Len(Migrate)
-----------------------------------------------------------------------------
(* The database at the first start of this version: empty, or with all the *)
(* tables of the previous one.  "old" stands for the keys that this        *)
(* version does not know.                                                  *)

Legacy(order, volumeId) ==
    LET T(cols) == Table(cols \cup {"index"}, {"old"}) IN
    [aux_configs |-> T({"aux_id", "ref", "value"}),
     aux_labels |-> T({"aux_id", "name", "value"}),
     aux_volumes |-> T({"aux_id", "mnt_point", "name"} \cup volumeId),
     aux_deployments |-> T({"id", "dep_id", "image", "created", "updated", "ref",
                            "name", "enabled", "command", "pseudo_tty"}),
     aux_containers |-> T({"aux_id", "ctr_id", "alias"}),
     dep_adv_items |-> T({"adv_id", "key", "value"}),
     dep_advertisements |-> T({"id", "dep_id", "mod_id", "origin", "ref", "timestamp"}),
     configs |-> T({"dep_id", "ref"}),
     list_configs |-> T({"dep_id", "ref", "ord"}),
     containers |-> T({"dep_id", "ctr_id", "srv_ref", "alias", "order"}),
     host_resources |-> T({"dep_id", "ref", "res_id"}),
     secrets |-> T({"dep_id", "ref", "sec_id", "item", "as_mount", "as_env"}),
     deployments |-> T({"id", "mod_id", "mod_ver", "name", "dir", "enabled",
                        "indirect", "created", "updated"} \cup order),
     modules |-> T({"id", "dir", "modfile", "added", "updated"}),
     dependencies |-> T({}),
     mod_dependencies |-> T({})]

\* A config: the values of a list in their order, or one value.  In the tables of
\* the previous version the table says which of them it is.
Config == [key : ConfigKey, list : {FALSE}, vals : {<<v>> : v \in UNION Types \cup {Null}}]
ListConfig == [key : ListConfigKey, list : {TRUE}, vals : Lists]

Keys(R) == {c.key : c \in R}
OnePerKey(R) == \A c, d \in R : c.key = d.key => c = d

Nothing == [configs |-> {}, list_configs |-> {}, aux_containers |-> {},
            dep_configs |-> {}, aux_deployments |-> {}]

MigrationsInit ==
    /\ \/ /\ tables = <<>>
          /\ rows = Nothing
          /\ refused = {}
       \/ /\ \E order \in {{}, {"order"}}, volumeId \in {{}, {"id"}} :
                tables = Legacy(order, volumeId)
          /\ \E C \in SUBSET Config, L \in SUBSET ListConfig,
                X \in SUBSET Container :
                /\ OnePerKey(C) /\ OnePerKey(L)
                /\ rows = [Nothing EXCEPT !.configs = C, !.list_configs = L,
                                          !.aux_containers = X]
          /\ refused \in Refusals
    /\ next = 1
    /\ interrupted = FALSE
    /\ cut = {}

-----------------------------------------------------------------------------
(* Execution of a statement.                                               *)

Current == Migrate[next]

OtherKeys(s) == tables[s.table].keys \ (s.on \cup {"PRIMARY"})

\* What the look-ups find: whether the statement is executed.
Required(s) ==
    /\ s.table # "" => s.table \in DOMAIN tables
    /\ CASE s.do \in {"dropColumn", "changeColumn"} -> s.test \in tables[s.table].cols
         [] s.do = "addColumn" -> s.test \notin tables[s.table].cols
         [] s.do \in {"addIndex", "addUniqueIndex", "addPrimaryKey"} ->
               s.test \notin tables[s.table].keys
         [] s.do = "dropIndexes" -> OtherKeys(s) # {}
         [] s.do = "createTable" -> s.name \notin DOMAIN tables
         [] OTHER -> TRUE

Copying == {"insert", "update"}

\* The rows that are copied.  The queries end without an error when the
\* connection is lost between two rows, and the transaction gets another one.
Seen(s) == IF s.do \in Copying THEN SUBSET rows[s.name] ELSE {{}}

\* A single config must have a value, which determines the column it is written
\* to; the rows of a list must be of one type, none counting as one.
Copyable(c) ==
    IF c.list
    THEN \E T \in Types \cup {{Null}} : \A i \in DOMAIN c.vals : c.vals[i] \in T
    ELSE c.vals # <<Null>>

\* What is written of it: never a list, and nothing of the rows without a value.
Migrated(c) ==
    [key |-> c.key, list |-> FALSE, vals |-> IF c.vals[1] = Null THEN <<>> ELSE c.vals]

\* What stops a start: what MySQL does not admit of the previous version, a new
\* name that is taken, a key on a column that is not there, configs that cannot be
\* copied or whose id is there, a reference to a column that is not.
Fails(s, seen) ==
    \/ <<s.table, s.name>> \in refused
    \/ CASE s.do = "changeColumn" -> s.to \in tables[s.table].cols
         [] s.do \in {"addIndex", "addUniqueIndex", "addPrimaryKey"} ->
               ~ s.on \subseteq tables[s.table].cols
         [] s.do = "renameTable" -> s.to \in DOMAIN tables
         [] s.do = "insert" ->
               \/ \E c \in seen : ~ Copyable(c)
               \/ Keys(seen) \cap Keys(rows[s.to]) # {}
         [] s.do = "createTable" ->
               \E r \in References(s.name) :
                  r[1] \notin DOMAIN tables \/ r[2] \notin tables[r[1]].cols
         [] OTHER -> FALSE

Without(t) == [u \in DOMAIN tables \ {t} |-> tables[u]]

With(tabs, t, tab) == [u \in DOMAIN tabs \cup {t} |-> IF u = t THEN tab ELSE tabs[u]]

NewTables(s) ==
    CASE s.do = "dropColumn" -> [tables EXCEPT ![s.table].cols = @ \ {s.name}]
      [] s.do = "changeColumn" ->
            [tables EXCEPT ![s.table].cols = (@ \ {s.name}) \cup {s.to}]
      [] s.do = "addColumn" -> [tables EXCEPT ![s.table].cols = @ \cup {s.name}]
      [] s.do \in {"addIndex", "addUniqueIndex", "addPrimaryKey"} ->
            [tables EXCEPT ![s.table].keys = @ \cup {s.name}]
      [] s.do = "renameTable" -> With(Without(s.name), s.to, tables[s.name])
      [] s.do = "dropTable" -> Without(s.name)
      [] s.do = "createTable" -> With(tables, s.name, Target[s.name])
      [] OTHER -> tables

NewRows(s, seen) ==
    CASE s.do = "insert" -> [rows EXCEPT ![s.to] = @ \cup {Migrated(c) : c \in seen}]
      [] s.do = "update" -> [rows EXCEPT ![s.to] = @ \cup seen]
      [] s.do = "dropTable" /\ s.name \in DOMAIN rows -> [rows EXCEPT ![s.name] = {}]
      [] OTHER -> rows

NewCut(s, seen) ==
    IF s.do \in Copying /\ seen # rows[s.name] THEN cut \cup {s.name}
    ELSE IF s.do \in Copying THEN cut \ {s.name} ELSE cut

Skip ==
    /\ ~ Up
    /\ ~ Required(Current)
    /\ next' = next + 1
    /\ UNCHANGED <<tables, rows, refused, interrupted, cut>>

Execute ==
    /\ ~ Up
    /\ Required(Current) /\ Current.do # "dropIndexes"
    /\ \E seen \in Seen(Current) :
          /\ ~ Fails(Current, seen)
          /\ rows' = NewRows(Current, seen)
          /\ cut' = NewCut(Current, seen)
    /\ tables' = NewTables(Current)
    /\ next' = next + 1
    /\ UNCHANGED <<refused, interrupted>>

\* One statement per key.
DropIndex ==
    /\ ~ Up
    /\ Required(Current) /\ ~ Fails(Current, {})
    /\ Current.do = "dropIndexes"
    /\ \E k \in OtherKeys(Current) :
          tables' = [tables EXCEPT ![Current.table].keys = @ \ {k}]
    /\ UNCHANGED <<rows, refused, next, interrupted, cut>>

\* The next start begins with the first function, whatever has been copied.
StartAgain ==
    /\ next' = 1
    /\ interrupted' =
          \/ interrupted
          \/ ~ Up /\ \E t \in {"configs", "list_configs"} :
                        Keys(rows[t]) \cap Keys(rows["dep_configs"]) # {}
    /\ UNCHANGED <<tables, rows, refused, cut>>

\* main returns, and the process is started again.
Fail ==
    /\ ~ Up
    /\ Required(Current)
    /\ \E seen \in Seen(Current) : Fails(Current, seen)
    /\ StartAgain

\* The process ends or loses the database, before the migrations are through or
\* after.
Restart == StartAgain

MigrationsNext == Skip \/ Execute \/ DropIndex \/ Fail \/ Restart

MigrationsSpec == MigrationsInit /\ [][MigrationsNext]_migrationVars

-----------------------------------------------------------------------------
(* Properties *)

\* The value that a reader gets of a config that is no list: of several it keeps
\* the last (ReadDeploymentsConfigs).
Scalar(c) == c.vals[Len(c.vals)]

\* Config c is kept in row d: a single config is read as before; of a list all values
\* are there, in their order.
KeptAs(c, d) ==
    /\ d.key = c.key
    /\ ~ c.list => ~ d.list /\ d.vals # <<>> /\ Scalar(d) = Scalar(c)
    /\ c.list => d.vals = c.vals \/ \A i \in DOMAIN c.vals : c.vals[i] = Null

\* No interruption loses a value of a config or the container of an auxiliary
\* deployment: it is where it comes from until it is where it goes to, and stays
\* there; unless a query ended early, which the code does not look at
\* (migrateConfigsTab, migrateListConfigsTab, migrateAuxContainersTab).  Lists come
\* out as single configs, of which a reader gets the last value.
ValuesStayStored ==
    [][/\ \A t \in {"configs", "list_configs"} \ cut : \A c \in rows[t] :
             c \in rows'[t] \/ \E d \in rows'["dep_configs"] : KeptAs(c, d)
       /\ rows["dep_configs"] \subseteq rows'["dep_configs"]
       /\ "aux_containers" \notin cut => rows["aux_containers"] \subseteq
             rows'["aux_containers"] \cup rows'["aux_deployments"]
       /\ rows["aux_deployments"] \subseteq rows'["aux_deployments"]]_migrationVars

\* However often the start was interrupted and wherever, the service comes up
\* with the schema of db_init, but for a column order of table deployments,
\* which is never dropped, and for the primary key of the volumes of auxiliary
\* deployments, which a table of the previous version does not get.
SchemaIsCurrent ==
    Up =>
        /\ DOMAIN tables = DOMAIN Target
        /\ \A t \in DOMAIN Target :
              /\ tables[t].cols \ (IF t = "deployments" THEN {"order"} ELSE {})
                    = Target[t].cols
              /\ Target[t].keys \ tables[t].keys
                    \subseteq (IF t = "aux_dep_volumes" THEN {"PRIMARY"} ELSE {})
              /\ tables[t].keys \subseteq Target[t].keys

\* A start fails only because of what the previous version left, rows that the
\* changed tables do not admit, a config without a value, a list of several types,
\* volumes without an id; or because an earlier start was stopped between a copy
\* and the drop of the table.  No other interruption, and no order of the
\* statements, makes one fail (helper.go, configs.go, aux_deployments.sql).
FailsOnlyWhereKnown ==
    ~ Up /\ Required(Current) =>
        \A seen \in Seen(Current) : Fails(Current, seen) =>
            \/ <<Current.table, Current.name>> \in refused
            \/ Current.do = "insert" /\ (interrupted \/ \E c \in seen : ~ Copyable(c))
            \/ Current.name = "aux_dep_volume_mounts"
               /\ "id" \notin tables["aux_dep_volumes"].cols

=============================================================================
