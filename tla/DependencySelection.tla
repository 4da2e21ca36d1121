-------------------------- MODULE DependencySelection --------------------------
(***************************************************************************)
(* Which modules a request is about.  A modules change request             *)
(* (pkg/service/repository.go, module.go) takes the modules that are asked *)
(* for from the variant that is asked for and adds what they depend on, in *)
(* two passes over what the repositories offer: first from the repository  *)
(* of the highest priority, then from where each module comes from.        *)
(* Deployments are created and enabled together with what their modules    *)
(* depend on, by the modfiles that are installed                           *)
(* (handler/modules/handler.go).  Both walks meet maps, whose order is     *)
(* arbitrary, and dependencies may be cyclic.                              *)
(*                                                                         *)
(* Change requests are made and deployments enabled under Service.mu; for  *)
(* new deployments the walk is done by their job, which holds the slot of  *)
(* deployments.  The walk over what is installed holds the read lock of    *)
(* the modules handler from its first call to its last.  A refresh comes   *)
(* between requests.  Module ModulesChange follows a request while it is   *)
(* pending and its execution next to other jobs; here it is executed at    *)
(* once or never.                                                          *)
(***************************************************************************)
EXTENDS Integers, FiniteSets, Sequences, Functions

CONSTANTS
    Module, Source, Channel, Version,
    Repository, \* per source: its priority and the sequence of its channels
    Catalog,    \* what the repositories may offer, one after the other
    Asked,      \* the items of change requests
    Named,      \* the modules that requests about deployments name
    NotOffered, NotInstalled, NoSelection, NoCollection, NoModule

VARIABLES
    offer,      \* the repositories handler: the modfile of every variant
    installed,  \* the modules handler: the variant of each module
    sel,        \* selectRepoModules under way
    deployed,   \* modules that have a deployment
    enabled,    \* those whose deployment is enabled
    col         \* getModulesWithDependencies under way, and for what

vars == <<offer, installed, sel, deployed, enabled, col>>

Partial(S, T) == UNION {[D -> T] : D \in SUBSET S}

Last(s) == s[Len(s)]

Origin == {o \in Source \X Channel :
              \E i \in DOMAIN Repository[o[1]].channels :
                  Repository[o[1]].channels[i].name = o[2]}

Modfile == [version: Version, deps: SUBSET Module]

Offer == [Origin -> [Module -> Modfile \cup {NotOffered}]]

\* modWrapper, and what the store keeps of it.
Variant == [origin: Origin, version: Version, deps: SUBSET Module]

\* lib_models.ChangeRequestItem
Item == [kind: {"add"}, id: Module, origin: Origin] \cup
        [kind: {"update", "remove"}, id: Module]

Frame == [origin: Origin, pending: SUBSET Module]

\* mods: what was asked for; roots: those whose dependencies are still to be looked
\* at in this pass; stack: the calls of addRepoModDepsToMap; missing: the
\* dependency whose error ends it.
Selection == [mods: Partial(Module, Variant), remove: SUBSET Module, main: Origin,
              pass: {"main", "origin"}, roots: SUBSET Module,
              deps: Partial(Module, Variant), stack: Seq(Frame),
              missing: Module \cup {NoModule}]

\* wanted: the modules named in the request; next: the ids of the next call; failed:
\* a read or write has ended it with an error.
Collection == [purpose: {"deploy", "enable"}, wanted: SUBSET Module,
               next: SUBSET Module, found: SUBSET Module, failed: BOOLEAN]

ASSUME DependencySelectionAssumption ==
    /\ Repository \in [Source -> [priority: Int, channels: Seq([name: Channel, priority: Int])]]
    /\ \A s \in Source : Repository[s].channels # <<>>
    /\ \A f \in Catalog : f \in Offer
    /\ \A items \in Asked : items \subseteq Item
    /\ \A S \in Named : S \subseteq Module
    /\ NotOffered \notin Modfile /\ NotInstalled \notin Variant
    /\ NoModule \notin Module
    /\ NoSelection \notin Selection /\ NoCollection \notin Collection

TypeOK ==
    /\ offer \in Catalog
    /\ installed \in [Module -> Variant \cup {NotInstalled}]
    /\ sel \in Selection \cup {NoSelection}
    /\ enabled \in SUBSET deployed /\ deployed \in SUBSET Module
    /\ col \in Collection \cup {NoCollection}

Init ==
    /\ offer \in Catalog
    /\ installed = [m \in Module |-> NotInstalled]
    /\ sel = NoSelection
    /\ deployed = {} /\ enabled = {}
    /\ col = NoCollection

Idle == sel = NoSelection /\ col = NoCollection

Offered(m, o) == offer[o][m] # NotOffered

GetModuleFS(m, o) == [origin |-> o, version |-> offer[o][m].version, deps |-> offer[o][m].deps]

Present == {m \in Module : installed[m] # NotInstalled}

-----------------------------------------------------------------------------
(* What is asked for. *)

\* selectByPriority takes the last of those with the highest priority.  Channels
\* have an order; repositories come from a map, so any of the highest may be last.
MainChannel(s) ==
    LET c == Repository[s].channels IN
    c[CHOOSE i \in DOMAIN c : \A j \in DOMAIN c :
          c[j].priority < c[i].priority \/ (c[j].priority = c[i].priority /\ j <= i)].name

MainOrigins == {<<s, MainChannel(s)>> :
    s \in {r \in Source : \A q \in Source : Repository[q].priority <= Repository[r].priority}}

\* Items that ask for an update take the variant's origin from what is installed;
\* what is not installed or not newer is left out.
Wanted(items) ==
    {i \in items : \/ i.kind = "add"
                   \/ i.kind = "update" /\ i.id \in Present}

OriginOf(i) == IF i.kind = "update" THEN installed[i.id].origin ELSE i.origin

Newer(i) ==
    i.kind = "update" => offer[OriginOf(i)][i.id].version # installed[i.id].version

Selected(items) ==
    LET chosen == {i \in Wanted(items) : Newer(i)} IN
    [m \in {i.id : i \in chosen} |->
        GetModuleFS(m, OriginOf(CHOOSE i \in chosen : i.id = m))]

Begin(mods, remove) ==
    /\ \E main \in MainOrigins :
          sel' = [mods |-> mods, remove |-> remove, main |-> main, pass |-> "main",
                  roots |-> DOMAIN mods, deps |-> [m \in {} |-> NotInstalled],
                  stack |-> <<>>, missing |-> NoModule]
    /\ UNCHANGED <<offer, installed, deployed, enabled, col>>

\* validateReqItems: no two items for a module.  An item that is not offered refuses
\* the request.
CreateModulesChangeRequest(items) ==
    /\ Idle
    /\ \A i, j \in items : i.id = j.id => i = j
    /\ \A i \in Wanted(items) : Offered(i.id, OriginOf(i))
    /\ Begin(Selected(items), {i.id : i \in {j \in items : j.kind = "remove"}})

\* The installed modules for which getNextVersion has a version.
Updatable ==
    {m \in Present : /\ Offered(m, installed[m].origin)
                     /\ offer[installed[m].origin][m].version # installed[m].version}

CreateModulesUpdateAllChangeRequest ==
    /\ Idle
    /\ Begin([m \in Updatable |-> GetModuleFS(m, installed[m].origin)], {})

-----------------------------------------------------------------------------
(* addRepoModDepsToMap and its two passes. *)

Selecting == sel # NoSelection /\ sel.missing = NoModule

Keep == UNCHANGED <<offer, installed, deployed, enabled, col>>

\* Faulty variant: the passes are swapped.
NextRootSwapped(m) ==
    /\ Selecting
    /\ sel.stack = <<>> /\ m \in sel.roots
    /\ sel' = [sel EXCEPT
          !.roots = @ \ {m},
          !.stack = <<[origin |-> IF sel.pass = "origin" THEN sel.main ELSE sel.mods[m].origin,
                       pending |-> sel.mods[m].deps]>>]
    /\ Keep

NextRoot(m) ==
    /\ Selecting
    /\ sel.stack = <<>> /\ m \in sel.roots
    /\ sel' = [sel EXCEPT
          !.roots = @ \ {m},
          !.stack = <<[origin |-> IF sel.pass = "main" THEN sel.main ELSE sel.mods[m].origin,
                       pending |-> sel.mods[m].deps]>>]
    /\ Keep

Pending(d) == Selecting /\ sel.stack # <<>> /\ d \in Last(sel.stack).pending

Visited(d) == [sel.stack EXCEPT ![Len(sel.stack)].pending = @ \ {d}]

Known(d) ==
    /\ Pending(d) /\ d \in DOMAIN sel.deps
    /\ sel' = [sel EXCEPT !.stack = Visited(d)]
    /\ Keep

Add(d) ==
    LET o == Last(sel.stack).origin IN
    /\ Pending(d) /\ d \notin DOMAIN sel.deps
    /\ Offered(d, o)
    /\ sel' = [sel EXCEPT
          !.deps = [m \in DOMAIN @ \cup {d} |-> IF m = d THEN GetModuleFS(d, o) ELSE @[m]],
          !.stack = Append(Visited(d), [origin |-> o, pending |-> offer[o][d].deps])]
    /\ Keep

\* Faulty variant: skipNotFound in both passes.
SkipAlways(d) ==
    /\ Pending(d) /\ d \notin DOMAIN sel.deps
    /\ ~ Offered(d, Last(sel.stack).origin)
    /\ sel' = [sel EXCEPT !.stack = Visited(d)]
    /\ Keep

\* skipNotFound
Skip(d) ==
    /\ Pending(d) /\ d \notin DOMAIN sel.deps
    /\ sel.pass = "main"
    /\ ~ Offered(d, Last(sel.stack).origin)
    /\ sel' = [sel EXCEPT !.stack = Visited(d)]
    /\ Keep

NotFound(d) ==
    /\ Pending(d) /\ d \notin DOMAIN sel.deps
    /\ sel.pass = "origin"
    /\ ~ Offered(d, Last(sel.stack).origin)
    /\ sel' = [sel EXCEPT !.missing = d]
    /\ Keep

Return ==
    /\ Selecting
    /\ sel.stack # <<>> /\ Last(sel.stack).pending = {}
    /\ sel' = [sel EXCEPT !.stack = SubSeq(@, 1, Len(@) - 1)]
    /\ Keep

PassEnds == Selecting /\ sel.stack = <<>> /\ sel.roots = {}

SecondPass ==
    /\ PassEnds /\ sel.pass = "main"
    /\ sel' = [sel EXCEPT !.pass = "origin", !.roots = DOMAIN sel.mods]
    /\ Keep

-----------------------------------------------------------------------------
(* The request and its execution. *)

Complete == PassEnds /\ sel.pass = "origin"

\* What was asked for goes before what others depend on.
Merged == [m \in DOMAIN sel.mods \cup DOMAIN sel.deps |->
                  IF m \in DOMAIN sel.mods THEN sel.mods[m] ELSE sel.deps[m]]

\* newModulesChangeRequest
NewRequest ==
    LET mods == Merged IN
    [install |-> [m \in DOMAIN mods \ Present |-> mods[m]],
     change |-> [m \in {n \in DOMAIN mods \cap Present :
                           \/ mods[n].origin # installed[n].origin
                           \/ mods[n].version # installed[n].version} |-> mods[m]],
     remove |-> (sel.remove \cap Present) \ DOMAIN mods]

\* The answer, and the execution of the request that follows it or never comes: any
\* of the items may fail, those that remove a deployed module do.
EndSelection(done) ==
    /\ Complete
    /\ done \subseteq DOMAIN NewRequest.install \cup DOMAIN NewRequest.change
                      \cup (NewRequest.remove \ deployed)
    /\ installed' = [m \in Module |->
          IF m \notin done THEN installed[m]
          ELSE IF m \in NewRequest.remove THEN NotInstalled ELSE Merged[m]]
    /\ sel' = NoSelection
    /\ UNCHANGED <<offer, deployed, enabled, col>>

\* The error of the dependency that was not found, or any other on the way.
Refuse ==
    /\ sel # NoSelection
    /\ sel' = NoSelection
    /\ Keep

RefreshRepositories ==
    /\ Idle
    /\ offer' \in Catalog
    /\ UNCHANGED <<installed, sel, deployed, enabled, col>>

-----------------------------------------------------------------------------
(* getModulesWithDependencies, for deployments. *)

BeginCollection(purpose, S) ==
    /\ Idle /\ S # {}
    /\ col' = [purpose |-> purpose, wanted |-> S, next |-> S, found |-> {},
               failed |-> FALSE]
    /\ UNCHANGED <<offer, installed, sel, deployed, enabled>>

CreateDeployments(S) == BeginCollection("deploy", S)

EnableDeployments(S) == BeginCollection("enable", S)

\* Without ids every installed module is taken, in one call.
EnableAllDeployments ==
    /\ Idle
    /\ col' = [purpose |-> "enable", wanted |-> Present, next |-> {}, found |-> Present,
               failed |-> FALSE]
    /\ UNCHANGED <<offer, installed, sel, deployed, enabled>>

DepsOf(S) == UNION {installed[m].deps : m \in S \cap Present}

Collecting == col # NoCollection /\ ~ col.failed

\* Faulty variant: ids that have been found already are read again.
CollectAgain ==
    /\ Collecting /\ col.next # {}
    /\ col' = [col EXCEPT !.found = @ \cup (col.next \cap Present), !.next = DepsOf(col.next)]
    /\ UNCHANGED <<offer, installed, sel, deployed, enabled>>

\* One call.  Whether a module of this call counts as found when a dependency on it
\* is met depends on the order of the map.  Unknown ids are left out.
Collect ==
    LET modules == col.next \cap Present IN
    /\ Collecting /\ col.next # {}
    /\ \E place \in Bijection(modules, 1..Cardinality(modules)) :
          col' = [col EXCEPT
             !.found = @ \cup modules,
             !.next = {d \in DepsOf(modules) \ col.found :
                          \E m \in modules : /\ d \in installed[m].deps
                                           /\ d \in modules => place[m] < place[d]}]
    /\ UNCHANGED <<offer, installed, sel, deployed, enabled>>

\* The database, in a call of the walk, in ReadDeployments or in the transaction that
\* writes the states: no deployment is enabled.
CollectionFails ==
    /\ Collecting
    /\ col' = [col EXCEPT !.failed = TRUE]
    /\ UNCHANGED <<offer, installed, sel, deployed, enabled>>

\* The answer is the error.
RefuseCollection ==
    /\ col # NoCollection /\ col.failed
    /\ col' = NoCollection
    /\ UNCHANGED <<offer, installed, sel, deployed, enabled>>

Collected(purpose) == Collecting /\ col.next = {} /\ col.purpose = purpose

\* Modules that are deployed are left out, others may fail.
Deploy ==
    /\ Collected("deploy")
    /\ deployed' \in {deployed \cup S : S \in SUBSET col.found}
    /\ col' = NoCollection
    /\ UNCHANGED <<offer, installed, sel, enabled>>

\* A filter without ids selects every deployment: ReadDeployments.
Filtered(S) == IF S = {} THEN deployed ELSE deployed \cap S

\* Faulty variant: the ids of the request, not the modules found for them.
EnableWanted ==
    /\ Collected("enable")
    /\ enabled' = enabled \cup Filtered(col.wanted)
    /\ col' = NoCollection
    /\ UNCHANGED <<offer, installed, sel, deployed>>

Enable ==
    /\ Collected("enable")
    /\ enabled' = enabled \cup Filtered(col.found)
    /\ col' = NoCollection
    /\ UNCHANGED <<offer, installed, sel, deployed>>

DisableDeployments(S) ==
    /\ Idle
    /\ enabled' = enabled \ Filtered(S)
    /\ UNCHANGED <<offer, installed, sel, deployed, col>>

DeleteDeployments(S) ==
    /\ Idle
    /\ deployed' = deployed \ S
    /\ enabled' = enabled \ S
    /\ UNCHANGED <<offer, installed, sel, col>>

SelectionStep ==
    \/ \E m \in Module : NextRoot(m) \/ Known(m) \/ Add(m) \/ Skip(m) \/ NotFound(m)
    \/ Return \/ SecondPass \/ Refuse
    \/ \E done \in SUBSET Module : EndSelection(done)

CollectionStep == Collect \/ CollectionFails \/ RefuseCollection \/ Deploy \/ Enable

Next ==
    \/ \E items \in Asked : CreateModulesChangeRequest(items)
    \/ CreateModulesUpdateAllChangeRequest
    \/ SelectionStep
    \/ RefreshRepositories
    \/ \E S \in Named : CreateDeployments(S) \/ EnableDeployments(S)
    \/ EnableAllDeployments \/ CollectionStep
    \/ \E S \in Named : DisableDeployments(S) \/ DeleteDeployments(S)

Spec == Init /\ [][Next]_vars

\* A request that has begun is worked on by its goroutine until it is answered.
Fairness == WF_vars(SelectionStep) /\ WF_vars(CollectionStep)

FairSpec == Spec /\ Fairness

-----------------------------------------------------------------------------
(* Properties *)

\* What the main origin offers of the dependencies of the modules asked for, by a
\* definition without order: the least set that is closed in what main offers.
MainClosed(S) ==
    \A d \in Module : (/\ Offered(d, sel.main)
                     /\ \/ \E m \in DOMAIN sel.mods : d \in sel.mods[m].deps
                        \/ \E m \in S : d \in offer[sel.main][m].deps) => d \in S

OfMain(m) == Offered(m, sel.main)

FromMain ==
    {d \in Module : OfMain(d) /\
        \A S \in SUBSET {m \in Module : OfMain(m)} : MainClosed(S) => d \in S}

\* Whatever the order of the maps: a dependency comes from the main origin if the
\* modules that main offers lead to it, else from the origin of a module that was
\* asked for; the request is refused only for a dependency of the second kind; and a
\* module that was asked for itself is the variant that was asked for.
\* (addRepoModDepsToMap, called twice by selectRepoModules.)
MainComesFirst ==
    sel # NoSelection =>
        /\ sel.missing \notin FromMain
        /\ \A d \in DOMAIN sel.deps :
              IF d \in FromMain THEN sel.deps[d].origin = sel.main
              ELSE /\ sel.pass = "origin"
                   /\ \E m \in DOMAIN sel.mods : sel.deps[d].origin = sel.mods[m].origin
        /\ sel.pass = "origin" => FromMain \subseteq DOMAIN sel.deps
        /\ Complete => \A m \in DOMAIN sel.mods : Merged[m] = sel.mods[m]

\* Whatever a selected module depends on is selected too.  What a dependency from
\* the main origin needs and main does not offer is not: the second pass does not
\* descend into it again, even if the module's own origin offers both.
SelectionIsClosed ==
    Complete => \A m \in DOMAIN Merged : \A d \in Merged[m].deps :
        \/ d \in DOMAIN Merged
        \/ m \in FromMain \ DOMAIN sel.mods /\ ~ OfMain(d)

\* Installed modules that a set of modules needs, by the least closed set.
Needed(S) ==
    {m \in Present : \A T \in SUBSET Present :
        (S \cap Present \subseteq T /\ DepsOf(T) \cap Present \subseteq T) => m \in T}

\* EnableDeployments, answered without an error, has enabled the deployments of the
\* modules it names and of what they need, and no others.  If none of them is installed, the list of ids is empty, and
\* for the database that is a filter for every deployment.
EnabledWithDependencies ==
    [][(Collecting /\ col.purpose = "enable" /\ col' = NoCollection) =>
          \/ enabled' = enabled \cup (Needed(col.wanted) \cap deployed)
          \/ col.wanted \cap Present = {} /\ enabled' = deployed]_vars

\* Every request is answered, also if modules depend on each other in a circle.
RequestsEnd == ~ Idle ~> Idle

=============================================================================
