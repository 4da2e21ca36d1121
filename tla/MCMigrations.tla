----------------------------- MODULE MCMigrations -----------------------------
(* Instance of Migrations for TLC: one config of each kind, with values of *)
(* two types, a container, and one refusal at a time.                      *)
EXTENDS Migrations

CONSTANTS v1, v2, w1

TheTypes == {{v1, v2}, {w1}}

\* A list of one type, one without values, and two that cannot be copied.
TheLists == {<<v1, v2>>, <<Null, Null>>, <<v1, w1>>, <<v1, Null>>}

\* Equal rows under a new key, also one of columns that the migration itself adds
\* (two volumes), an index that a foreign key needs, a value that is too long.
TheRefusals ==
    {{}, {<<"deployments", "uk_mod_id">>}, {<<"aux_volumes", "uk_dep_id_ref">>},
     {<<"secrets", "">>}, {<<"configs", "configs">>}}

===============================================================================
