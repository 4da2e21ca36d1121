---------------------------- MODULE ModulesChange ----------------------------
(***************************************************************************)
(* The life of a modules change request (pkg/service/module.go) next to    *)
(* the jobs that disturb it or that it could disturb: a request is made    *)
(* from what is installed and what the repositories offer, waits in        *)
(* Service.changeRequest until it is executed, replaced or cancelled, and  *)
(* is executed item by item by a job that does not hold Service.mu.  That  *)
(* is why a request for all updates, which is made while jobs run, can be  *)
(* old when it is stored: its call is modelled step by step.               *)
(*                                                                         *)
(* Each job slot is a lock (module ServiceJobs).  The modules handler is   *)
(* the store it implements (module ModuleStore): an item succeeds, fails,  *)
(* or leaves a half-deleted module.  A package stands for a variant of a   *)
(* module: source, channel and version.                                    *)
(***************************************************************************)
EXTENDS Naturals, FiniteSets

CONSTANTS
    Module,     \* module ids
    Package,    \* variants of modules
    NoPackage,  \* not installed, not offered
    Broken,     \* installed, but the files are gone
    NoRequest,  \* Service.changeRequest is nil
    ModuleOf,   \* the module of a package
    Offers,     \* what the repositories can offer: a package of each module
    Removable,  \* modules that are asked to be removed
    Deployable  \* modules that deployments are asked for

ASSUME ModulesChangeAssumption ==
    /\ NoPackage \notin Package
    /\ Broken \notin Package \cup {NoPackage}
    /\ ModuleOf \in [Package -> Module]
    /\ \A f \in Offers :
          /\ f \in [Module -> Package \cup {NoPackage}]
          /\ \A m \in Module : f[m] # NoPackage => ModuleOf[f[m]] = m
    /\ Removable \subseteq Module
    /\ Deployable \subseteq Module

VARIABLES
    installed,     \* the modules handler: package of each module
    offered,       \* the repositories handler: package of each module
    deployed,      \* modules that have a deployment
    request,       \* Service.changeRequest
    call,          \* CreateModulesUpdateAllChangeRequest, while it runs
    refreshing,    \* the repository slot: a refresh job runs
    deploymentJob, \* the deployment slot: its job and what is left to do
    pc,            \* the module slot: next step of the job's goroutine
    todo,          \* items left of the loop the goroutine is in
    report,        \* items it has finished, with their outcome
    approved,      \* history: the request when its execution began, until
                   \* Service.changeRequest is set by someone else
    oldModules,    \* history: the modules had changed under the call that
                   \* made the pending request
    oldOffer       \* history: a refresh was under way when that call began,
                   \* or a repository the request is for was deleted later

vars == <<installed, offered, deployed, request, call, refreshing,
          deploymentJob, pc, todo, report, approved, oldModules, oldOffer>>

Request == [remove: SUBSET Module, install: SUBSET Package, change: SUBSET Package]

Item == [action: {"remove"}, item: Module, ok: BOOLEAN]
        \cup [action: {"install", "change"}, item: Package, ok: BOOLEAN]

\* The call, holding Service.mu: the modules it read as installed, the packages
\* it has fetched, and whether it began during a refresh.  It goes on when
\* there are installed modules.
Call == [seen: [Module -> Package \cup {NoPackage, Broken}],
         chosen: [Module -> Package \cup {NoPackage}],
         refresh: BOOLEAN]

NoModule == [m \in Module |-> NoPackage]

NoCall == [seen |-> NoModule, chosen |-> NoModule, refresh |-> FALSE]

NoDeploymentJob == [kind |-> "none", modules |-> {}]

\* "panic": recovered in the goroutine, the report is lost; "clear": the
\* deferred function of execModulesChangeRequest; "done": the deferred
\* function of the goroutine.
ExecStep == {"idle", "readRemove", "remove", "readInstall", "install",
             "readChange", "change", "clear", "panic", "done"}

TypeOK ==
    /\ installed \in [Module -> Package \cup {NoPackage, Broken}]
    /\ offered \in [Module -> Package \cup {NoPackage}]
    /\ \A m \in Module :
          /\ installed[m] \in Package => ModuleOf[installed[m]] = m
          /\ offered[m] \in Package => ModuleOf[offered[m]] = m
    /\ deployed \in SUBSET Module
    /\ request \in Request \cup {NoRequest}
    /\ call \in Call
    /\ refreshing \in BOOLEAN
    /\ deploymentJob \in [kind: {"none", "starting", "create", "delete"},
                          modules: SUBSET Module]
    /\ pc \in ExecStep
    /\ todo \in SUBSET (Module \cup Package)
    /\ report \in SUBSET Item
    /\ approved \in Request \cup {NoRequest}
    /\ oldModules \in BOOLEAN
    /\ oldOffer \in BOOLEAN

Init ==
    /\ installed = [m \in Module |-> NoPackage]
    /\ offered \in Offers
    /\ deployed = {}
    /\ request = NoRequest
    /\ call = NoCall
    /\ refreshing = FALSE
    /\ deploymentJob = NoDeploymentJob
    /\ pc = "idle"
    /\ todo = {}
    /\ report = {}
    /\ approved = NoRequest
    /\ oldModules = FALSE
    /\ oldOffer = FALSE

Executing == pc # "idle"

\* Service.mu is taken; no other operation begins.
Calling == call.seen # NoModule

storeVars == <<installed, offered, deployed>>
execVars == <<pc, todo, report>>
requestVars == <<request, approved, oldModules, oldOffer>>

-----------------------------------------------------------------------------
(* Making a request.  Service.mu is held until it is stored.               *)

\* newModulesChangeRequest: chosen packages are installed or, if they differ
\* from what was seen installed, changed; modules to remove must be installed
\* and not chosen.
NewRequest(seen, chosen, toRemove) ==
    [remove  |-> {m \in toRemove : chosen[m] = NoPackage /\ seen[m] # NoPackage},
     install |-> {chosen[m] : m \in {n \in Module : /\ chosen[n] # NoPackage
                                                    /\ seen[n] = NoPackage}},
     change  |-> {chosen[m] : m \in {n \in Module : /\ chosen[n] # NoPackage
                                                    /\ seen[n] \notin {NoPackage, chosen[n]}}}]

IsEmpty(r) == r.remove = {} /\ r.install = {} /\ r.change = {}

\* The modules selected for a request: those asked for and what they depend
\* on, all of them offered; none of those asked for is also to be removed.
\* Neither the modules nor the repositories can change meanwhile.  An empty
\* request is answered, but an older one stays.
CreateModulesChangeRequest(selected, toRemove) ==
    LET chosen == [m \in Module |-> IF m \in selected THEN offered[m] ELSE NoPackage]
        new == NewRequest(installed, chosen, toRemove) IN
    /\ ~Calling /\ ~Executing /\ ~refreshing
    /\ \A m \in selected : offered[m] # NoPackage
    /\ ~IsEmpty(new)
    /\ request' = new
    /\ oldModules' = FALSE
    /\ oldOffer' = FALSE
    /\ approved' = NoRequest
    /\ UNCHANGED <<storeVars, call, refreshing, deploymentJob, execVars>>

\* CreateModulesUpdateAllChangeRequest looks at no slot.  It begins with the
\* installed modules.
ReadInstalled ==
    /\ ~Calling
    /\ installed # NoModule
    /\ call' = [NoCall EXCEPT !.seen = installed, !.refresh = refreshing]
    /\ UNCHANGED <<storeVars, requestVars, refreshing, deploymentJob, execVars>>

callerVars == <<storeVars, refreshing, deploymentJob, execVars>>

\* selectRepoModules fetches package by package, each as it is offered then.
\* The first are updates: installed modules with another version in the look-up
\* table; as that may be older than what the repositories hold (module
\* Repositories), any installed module can be one, unless it is fetched as it
\* is.  Any other offered module can be a dependency; one that is installed as
\* it is offered makes no item and is left out.
SelectModule(m) ==
    /\ Calling
    /\ offered[m] \notin {NoPackage, call.seen[m]}
    /\ call.chosen[m] = NoPackage
    /\ call.chosen = NoModule => call.seen[m] # NoPackage
    /\ call' = [call EXCEPT !.chosen[m] = offered[m]]
    /\ UNCHANGED <<callerVars, requestVars>>

\* No update, a package that is not offered any more, or any other error.
EndCall ==
    /\ Calling
    /\ call' = NoCall
    /\ UNCHANGED <<callerVars, requestVars>>

\* The request is made of what was seen when the call began, and stored.
CreateModulesUpdateAllChangeRequest ==
    LET new == NewRequest(call.seen, call.chosen, {}) IN
    /\ Calling
    /\ ~IsEmpty(new)
    /\ request' = new
    /\ oldModules' = (call.seen # installed)
    /\ oldOffer' = call.refresh
    /\ approved' = NoRequest
    /\ call' = NoCall
    /\ UNCHANGED callerVars

\* No slot is looked at.
CancelModulesChangeRequest ==
    /\ ~Calling
    /\ request # NoRequest
    /\ request' = NoRequest
    /\ oldModules' = FALSE
    /\ oldOffer' = FALSE
    /\ approved' = NoRequest
    /\ UNCHANGED <<storeVars, call, refreshing, deploymentJob, execVars>>

-----------------------------------------------------------------------------
(* Refreshing the repositories drops the request; only the repository slot *)
(* is looked at.                                                           *)

\* Faulty variant: the request is kept.
RefreshRepositoriesOnly ==
    /\ ~Calling /\ ~refreshing
    /\ refreshing' = TRUE
    /\ UNCHANGED <<storeVars, call, deploymentJob, execVars, requestVars>>

RefreshRepositories ==
    /\ ~Calling /\ ~refreshing
    /\ request' = NoRequest
    /\ refreshing' = TRUE
    /\ oldModules' = FALSE
    /\ oldOffer' = FALSE
    /\ approved' = NoRequest
    /\ UNCHANGED <<storeVars, call, deploymentJob, execVars>>

\* The job replaces the lookup map; then, in a second step, it returns.
UpdateLookupMap ==
    /\ refreshing
    /\ offered' \in Offers
    /\ UNCHANGED <<installed, deployed, requestVars, call, refreshing,
                   deploymentJob, execVars>>

EndRefresh ==
    /\ refreshing
    /\ refreshing' = FALSE
    /\ UNCHANGED <<storeVars, requestVars, call, deploymentJob, execVars>>

\* Packages of a deleted repository can not be fetched any more.  Only the
\* repository slot is looked at, and the request stays.
DeleteRepository(modules) ==
    /\ ~Calling /\ ~refreshing
    /\ offered' = [m \in Module |-> IF m \in modules THEN NoPackage ELSE offered[m]]
    /\ offered' \in Offers
    /\ oldOffer' = \/ oldOffer
                   \/ /\ request # NoRequest
                      /\ \E p \in request.install \cup request.change :
                            ModuleOf[p] \in modules
    /\ UNCHANGED <<installed, deployed, request, call, refreshing, deploymentJob,
                   execVars, approved, oldModules>>

-----------------------------------------------------------------------------
(* The execution.  ExecModulesChangeRequest checks every slot and starts   *)
(* the job under Service.mu; the goroutine then reads and clears           *)
(* Service.changeRequest without it, once before each of its three loops.  *)

ExecModulesChangeRequest ==
    /\ ~Calling
    /\ request # NoRequest
    /\ ~Executing /\ ~refreshing /\ deploymentJob = NoDeploymentJob
    /\ pc' = "readRemove"
    /\ approved' = request
    /\ UNCHANGED <<storeVars, request, call, refreshing, deploymentJob, todo,
                   report, oldModules, oldOffer>>

otherVars == <<offered, deployed, requestVars, call, refreshing, deploymentJob>>

\* A nil request is a nil dereference: the goroutine panics.
ReadLoop(at, next, items) ==
    /\ pc = at
    /\ IF request = NoRequest
       THEN pc' = "panic" /\ UNCHANGED todo
       ELSE pc' = next /\ todo' = items
    /\ UNCHANGED <<installed, report, otherVars>>

ReadRequest ==
    \/ ReadLoop("readRemove", "remove", request.remove)
    \/ ReadLoop("readInstall", "install", request.install)
    \/ ReadLoop("readChange", "change", request.change)

\* Faulty variant: the last loop is left out.
EndLoopWithoutChange ==
    /\ todo = {}
    /\ \/ pc = "remove" /\ pc' = "readInstall"
       \/ pc \in {"install", "change"} /\ pc' = "clear"
    /\ UNCHANGED <<installed, todo, report, otherVars>>

EndLoop ==
    /\ todo = {}
    /\ \/ pc = "remove" /\ pc' = "readInstall"
       \/ pc = "install" /\ pc' = "readChange"
       \/ pc = "change" /\ pc' = "clear"
    /\ UNCHANGED <<installed, todo, report, otherVars>>

Outcome(x, ok) ==
    /\ todo' = todo \ {x}
    /\ report' = report \cup {[action |-> pc, item |-> x, ok |-> ok]}
    /\ UNCHANGED <<pc, otherVars>>

Fails(x) == Outcome(x, FALSE) /\ UNCHANGED installed

\* Faulty variant: deployments are not looked for.
RemoveItemDeployed(m) ==
    /\ pc = "remove"
    /\ m \in todo
    /\ \/ Fails(m)
       \/ /\ installed' = [installed EXCEPT ![m] = NoPackage]
          /\ Outcome(m, TRUE)

\* A deployed module is not removed.  DeleteModule of a module that is not
\* installed succeeds, and a failed one may have removed the files.
RemoveItem(m) ==
    /\ pc = "remove"
    /\ m \in todo
    /\ \/ Fails(m)
       \/ /\ m \notin deployed
          /\ installed' = [installed EXCEPT ![m] = NoPackage]
          /\ Outcome(m, TRUE)
       \/ /\ m \notin deployed
          /\ installed[m] \in Package
          /\ installed' = [installed EXCEPT ![m] = Broken]
          /\ Outcome(m, FALSE)

\* Faulty variant: the error of AddModule is dropped.
InstallItemUnchecked(p) ==
    /\ pc = "install"
    /\ p \in todo
    /\ \/ Outcome(p, TRUE) /\ UNCHANGED installed
       \/ /\ installed[ModuleOf[p]] = NoPackage
          /\ installed' = [installed EXCEPT ![ModuleOf[p]] = p]
          /\ Outcome(p, TRUE)

InstallItem(p) ==
    /\ pc = "install"
    /\ p \in todo
    /\ \/ Fails(p)
       \/ /\ installed[ModuleOf[p]] = NoPackage
          /\ installed' = [installed EXCEPT ![ModuleOf[p]] = p]
          /\ Outcome(p, TRUE)

ChangeItem(p) ==
    /\ pc = "change"
    /\ p \in todo
    /\ \/ Fails(p)
       \/ /\ installed[ModuleOf[p]] # NoPackage
          /\ installed' = [installed EXCEPT ![ModuleOf[p]] = p]
          /\ Outcome(p, TRUE)

\* Faulty variant: the request stays.
ClearNothing ==
    /\ pc \in {"clear", "panic"}
    /\ report' = IF pc = "panic" THEN {} ELSE report
    /\ pc' = "done"
    /\ todo' = {}
    /\ UNCHANGED <<storeVars, requestVars, call, refreshing, deploymentJob>>

\* The deferred function sets the request to nil, whichever it is, on the way
\* of a panic too; the panic loses the report.
ClearRequest ==
    /\ pc \in {"clear", "panic"}
    /\ request' = NoRequest
    /\ report' = IF pc = "panic" THEN {} ELSE report
    /\ pc' = "done"
    /\ todo' = {}
    /\ oldModules' = FALSE
    /\ oldOffer' = FALSE
    /\ UNCHANGED <<storeVars, call, refreshing, deploymentJob, approved>>

EndExec ==
    /\ pc = "done"
    /\ pc' = "idle"
    /\ report' = {}
    /\ approved' = NoRequest
    /\ UNCHANGED <<storeVars, request, call, refreshing, deploymentJob, todo,
                   oldModules, oldOffer>>

-----------------------------------------------------------------------------
(* The jobs of the deployment slot that change what is deployed.           *)

\* Faulty variant: the module slot is not looked at.
CreateDeploymentsAnytime(wanted) ==
    /\ ~Calling /\ deploymentJob = NoDeploymentJob
    /\ deploymentJob' = [kind |-> "starting", modules |-> wanted]
    /\ UNCHANGED <<storeVars, requestVars, call, refreshing, execVars>>

\* The slots of deployments and modules must be free.
CreateDeployments(wanted) ==
    /\ ~Calling /\ deploymentJob = NoDeploymentJob
    /\ ~Executing
    /\ deploymentJob' = [kind |-> "starting", modules |-> wanted]
    /\ UNCHANGED <<storeVars, requestVars, call, refreshing, execVars>>

\* The goroutine reads the installed modules and leaves out the deployed.
SelectModules ==
    /\ deploymentJob.kind = "starting"
    /\ deploymentJob' =
          [kind |-> "create",
           modules |-> {m \in deploymentJob.modules \ deployed : installed[m] # NoPackage}]
    /\ UNCHANGED <<storeVars, requestVars, call, refreshing, execVars>>

\* Only the deployment slot must be free.
DeleteDeployments(wanted) ==
    /\ ~Calling /\ deploymentJob = NoDeploymentJob
    /\ deploymentJob' = [kind |-> "delete", modules |-> wanted \cap deployed]
    /\ UNCHANGED <<storeVars, requestVars, call, refreshing, execVars>>

\* A deployment is created or deleted, or the attempt fails.
DeployItem(m) ==
    /\ m \in deploymentJob.modules
    /\ deploymentJob' = [deploymentJob EXCEPT !.modules = @ \ {m}]
    /\ \/ deploymentJob.kind = "create" /\ deployed' = deployed \cup {m}
       \/ deploymentJob.kind = "delete" /\ deployed' = deployed \ {m}
       \/ deploymentJob.kind \in {"create", "delete"} /\ UNCHANGED deployed
    /\ UNCHANGED <<installed, offered, requestVars, call, refreshing, execVars>>

EndDeploymentJob ==
    /\ deploymentJob.kind \in {"create", "delete"}
    /\ deploymentJob.modules = {}
    /\ deploymentJob' = NoDeploymentJob
    /\ UNCHANGED <<storeVars, requestVars, call, refreshing, execVars>>

-----------------------------------------------------------------------------

RunExec ==
    \/ ReadRequest
    \/ EndLoop
    \/ \E m \in Module : RemoveItem(m)
    \/ \E p \in Package : InstallItem(p) \/ ChangeItem(p)
    \/ ClearRequest
    \/ EndExec

RunDeploymentJob ==
    \/ SelectModules
    \/ \E m \in Module : DeployItem(m)
    \/ EndDeploymentJob

Next ==
    \/ \E selected \in SUBSET Module, toRemove \in SUBSET Removable :
          CreateModulesChangeRequest(selected, toRemove)
    \/ ReadInstalled
    \/ \E m \in Module : SelectModule(m)
    \/ EndCall
    \/ CreateModulesUpdateAllChangeRequest
    \/ CancelModulesChangeRequest
    \/ ExecModulesChangeRequest
    \/ RunExec
    \/ RefreshRepositories
    \/ UpdateLookupMap
    \/ EndRefresh
    \/ \E modules \in SUBSET Module : DeleteRepository(modules)
    \/ \E wanted \in SUBSET Deployable :
          CreateDeployments(wanted) \/ DeleteDeployments(wanted)
    \/ RunDeploymentJob

Spec == Init /\ [][Next]_vars

\* The goroutine of the execution is scheduled until it returns.
FairSpec == Spec /\ WF_vars(RunExec)

-----------------------------------------------------------------------------
(* Properties *)

\* A deployed module stays installed: a removal looks for a deployment before
\* it deletes, and while it does no deployment is created
\* (execModulesChangeRequest, CreateDeployments).
DeployedAreInstalled ==
    \A m \in deployed : installed[m] \in Package \cup {Broken}

\* A module with a deployment is never taken away by a step, nor are its files.
DeployedKeepFiles ==
    [][\A m \in deployed : installed[m] \in Package => installed'[m] \in Package]_vars

\* Someone who looks at the pending request sees what it would do: items to
\* install are not installed, the others are.  The one exception is a request
\* for all updates of modules that an execution changed between the first and
\* the last step of the call (CreateModulesChangeRequest,
\* newModulesUpdateAllChangeRequest, the clearing in execModulesChangeRequest).
PendingRequestIsCurrent ==
    request # NoRequest /\ ~Executing /\ ~oldModules =>
        /\ \A m \in request.remove : installed[m] # NoPackage
        /\ \A p \in request.install : installed[ModuleOf[p]] = NoPackage
        /\ \A p \in request.change : installed[ModuleOf[p]] \notin {NoPackage, p}

\* The request offers what the repositories offer, unless it is one for all
\* updates whose call began during a refresh, or one of its repositories was
\* deleted (RefreshRepositories drops the request before it starts,
\* DeleteRepository does not).
PendingRequestIsOffered ==
    request # NoRequest /\ ~oldOffer /\ ~refreshing =>
        \A p \in request.install \cup request.change : offered[ModuleOf[p]] = p

\* A request that waits for approval is outdated neither by a change of the
\* modules nor by one of the repositories, apart from what was changed under
\* CreateModulesUpdateAllChangeRequest and from a deleted repository
\* (CreateModulesChangeRequest, RefreshRepositories, execModulesChangeRequest).
PendingRequestIsValid == PendingRequestIsCurrent /\ PendingRequestIsOffered

\* An execution that nobody disturbs does what was approved, each item once,
\* and reports it; one that panics was disturbed by a cancellation or a
\* refresh (execModulesChangeRequest reads Service.changeRequest three times).
UndisturbedExecIsApproved ==
    /\ pc = "panic" => approved = NoRequest
    /\ pc = "done" /\ approved # NoRequest =>
          /\ {r.item : r \in {s \in report : s.action = "remove"}} = approved.remove
          /\ {r.item : r \in {s \in report : s.action = "install"}} = approved.install
          /\ {r.item : r \in {s \in report : s.action = "change"}} = approved.change
          /\ \A r, s \in report :
                r.action = s.action /\ r.item = s.item => r = s

\* The report tells the truth, even of an execution whose request was replaced
\* on the way: each module is as the last of its successful items says
\* (execModulesChangeRequest).
Successes(m, action) ==
    {r \in report : /\ r.ok /\ r.action = action
                    /\ m = IF action = "remove" THEN r.item ELSE ModuleOf[r.item]}

ReportIsTrue ==
    pc = "done" =>
        \A m \in Module :
            IF Successes(m, "change") # {}
            THEN \A r \in Successes(m, "change") : installed[m] = r.item
            ELSE IF Successes(m, "install") # {}
            THEN \A r \in Successes(m, "install") : installed[m] = r.item
            ELSE Successes(m, "remove") # {} => installed[m] = NoPackage

\* A request that was executed is not left for a second execution
\* (the deferred function of execModulesChangeRequest).
ExecConsumesRequest == pc \notin {"idle", "done"} ~> request = NoRequest

=============================================================================
