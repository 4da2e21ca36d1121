---------------------------- MODULE MCDeploymentData ----------------------------
(* Instance of DeploymentData for TLC.  Module a has a required config, which    *)
(* is a list and may come from a global config, a file with a default, a file    *)
(* group and a secret that services use as variable and as mount; module b       *)
(* depends on a and has a config with a default and a secret that is only        *)
(* mounted.  Item i3 is too long for its column, path p2 cannot be mounted, and  *)
(* the secret manager does not know s2.  Ids are interchangeable.                *)
EXTENDS DeploymentData, TLC

CONSTANTS a, b, i1, i2, i3, g1, t1, c1, c2, p1, p2, s1, s2, u1, u2, u3, r1, r2

\* References of different kinds need not differ.
cfg == r1
file == r1
group == r1
both == r1
var == r2
mnt == r1

None == [r \in {} |-> r]

List(items) == [type |-> t1, list |-> TRUE, items |-> items]
Scalar(i) == [type |-> t1, list |-> FALSE, items |-> {i}]

ConfigA == [type |-> t1, list |-> TRUE, options |-> {i1}, extend |-> FALSE,
            default |-> NoValue, required |-> TRUE]
ConfigB == [type |-> t1, list |-> FALSE, options |-> {}, extend |-> FALSE,
            default |-> Scalar(i1), required |-> FALSE]

TheConfigSpec == a :> (cfg :> ConfigA) @@ b :> (cfg :> ConfigB)
TheFileSpec == a :> (file :> [default |-> c1, required |-> TRUE]) @@ b :> None
TheGroupSpec == a :> {group} @@ b :> {}
TheSecretSpec == a :> (both :> [required |-> FALSE, env |-> TRUE, mount |-> TRUE] @@
                       var :> [required |-> TRUE, env |-> TRUE, mount |-> FALSE])
                 @@ b :> (mnt :> [required |-> FALSE, env |-> FALSE, mount |-> TRUE])
TheDependsOn == a :> {} @@ b :> {a}

Ask(configs, selected, files, groups, secrets) ==
    [configs |-> configs, globals |-> selected, files |-> files, groups |-> groups,
     secrets |-> secrets]

TheInput == {
    Ask(cfg :> List({i1}), None, file :> c2, group :> {}, var :> s1),
    Ask(None, cfg :> g1, None, group :> {p2}, var :> s1 @@ mnt :> s2),
    Ask(cfg :> List({i1}), None, None, None, var :> s2),
    Ask(cfg :> List({}), cfg :> g1, None, group :> {p1}, var :> s1 @@ both :> s2),
    Ask(cfg :> Scalar(i2), None, None, None, mnt :> s1),
    Ask(cfg :> Scalar(i3), None, None, None, None),
    Ask(None, None, file :> NoContent, None, None),
    Ask(None, cfg :> g1, None, None, var :> s1)}

TheGlobalInput == {List({i1}), List({i1, i2}), List({})}

TheUnstorable == [values |-> {Scalar(i3)}, groups |-> {}, secrets |-> {}]
TheUnusable == [groups |-> {{p2}}, secrets |-> {s2}]

IdSymmetry == Permutations(Id)

=============================================================================
