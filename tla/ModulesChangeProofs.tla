-------------------------- MODULE ModulesChangeProofs --------------------------
(***************************************************************************)
(* Proofs about ModulesChange: deployed modules stay, a pending request is *)
(* current, an undisturbed execution does what was approved, and the       *)
(* report of every execution is true.                                      *)
(***************************************************************************)
EXTENDS ModulesChange, TLAPS

OnePerModule(packages) ==
    \A p, q \in packages : ModuleOf[p] = ModuleOf[q] => p = q

Reported(action) == {r.item : r \in {s \in report : s.action = action}}

\* While modules may be removed nothing is deployed, and what a job is about
\* to deploy is installed.
SlotInv ==
    /\ Executing => deploymentJob.kind \in {"none", "delete"}
    /\ deploymentJob.kind = "create" =>
          \A m \in deploymentJob.modules : installed[m] # NoPackage

\* What the call has fetched; without a refresh it is what is offered.
CallInv ==
    /\ \A m \in Module : call.chosen[m] # NoPackage => ModuleOf[call.chosen[m]] = m
    /\ Calling /\ ~call.refresh =>
          /\ ~refreshing
          /\ \A m \in Module : call.chosen[m] \in {NoPackage, offered[m]}

\* PendingRequestIsCurrent, until the goroutine has returned.
RequestCurrent ==
    request # NoRequest /\ pc \in {"idle", "done"} /\ ~oldModules =>
        /\ \A m \in request.remove : installed[m] # NoPackage
        /\ \A p \in request.install : installed[ModuleOf[p]] = NoPackage
        /\ \A p \in request.change : installed[ModuleOf[p]] \notin {NoPackage, p}

\* A request made outside of a refresh does not survive the next one.
RequestOffered ==
    request # NoRequest /\ ~oldOffer =>
        /\ ~refreshing
        /\ \A p \in request.install \cup request.change : offered[ModuleOf[p]] = p

RequestUnique == request # NoRequest => OnePerModule(request.change)

\* Steps of the goroutine that come before the loop of an action.
Before(action) ==
    CASE action = "remove"  -> {"readRemove"}
      [] action = "install" -> {"readRemove", "remove", "readInstall"}
      [] action = "change"  -> {"readRemove", "remove", "readInstall", "install",
                                "readChange"}

\* Items of an action that an execution has still to do.
Left(action, items) ==
    IF pc \in Before(action) THEN items ELSE IF pc = action THEN todo ELSE {}

Progress(action, items) ==
    /\ Left(action, items) \subseteq items
    /\ Reported(action) = items \ Left(action, items)

\* UndisturbedExecIsApproved, at every step.
ProgressInv ==
    approved # NoRequest =>
        /\ pc \notin {"idle", "panic"}
        /\ pc # "done" => request = approved
        /\ Progress("remove", approved.remove)
        /\ Progress("install", approved.install)
        /\ Progress("change", approved.change)
        /\ \A r, s \in report : r.action = s.action /\ r.item = s.item => r = s

\* The loops come one after the other.
PhaseInv ==
    /\ pc \in {"idle", "readRemove"} => report = {}
    /\ \A r \in report : pc \notin Before(r.action)
    /\ pc = "change" => OnePerModule(Reported("change") \cup todo)

\* ReportIsTrue, at every step.
ReportInv ==
    \A r \in report : r.ok =>
        /\ r.action = "change" => installed[ModuleOf[r.item]] = r.item
        /\ r.action = "install" =>
              \/ installed[ModuleOf[r.item]] = r.item
              \/ Successes(ModuleOf[r.item], "change") # {}
        /\ r.action = "remove" =>
              \/ installed[r.item] = NoPackage
              \/ Successes(r.item, "change") # {}
              \/ Successes(r.item, "install") # {}

Inv ==
    /\ TypeOK /\ DeployedAreInstalled /\ SlotInv /\ CallInv
    /\ RequestCurrent /\ RequestOffered /\ RequestUnique
    /\ ProgressInv /\ PhaseInv /\ ReportInv

-----------------------------------------------------------------------------

LEMMA InitInv == Init => Inv
<1> SUFFICES ASSUME Init
             PROVE  Inv
  OBVIOUS
<1>1. /\ offered \in [Module -> Package \cup {NoPackage}]
      /\ \A m \in Module : offered[m] # NoPackage => ModuleOf[offered[m]] = m
  BY ModulesChangeAssumption DEF Init
<1>2. TypeOK
  BY <1>1, ModulesChangeAssumption
  DEF Init, TypeOK, NoDeploymentJob, Call, NoCall, NoModule, ExecStep
<1>3. /\ DeployedAreInstalled /\ SlotInv /\ CallInv
      /\ RequestCurrent /\ RequestOffered /\ RequestUnique
  BY DEF Init, DeployedAreInstalled, SlotInv, RequestCurrent, RequestOffered,
         RequestUnique, Executing, NoDeploymentJob, CallInv, Calling, NoCall, NoModule
<1>4. ProgressInv /\ PhaseInv /\ ReportInv
  BY DEF Init, ProgressInv, PhaseInv, ReportInv
<1>5. QED
  BY <1>2, <1>3, <1>4 DEF Inv

Installation == [Module -> Package \cup {NoPackage, Broken}]

Choice == {f \in [Module -> Package \cup {NoPackage}] :
              \A m \in Module : f[m] # NoPackage => ModuleOf[f[m]] = m}

LEMMA NoCallType == NoCall \in Call /\ ~NoCall.refresh /\ NoCall.seen = NoModule
                    /\ NoCall.chosen = NoModule
  BY DEF NoCall, Call, NoModule

\* What a request made of an installation and chosen packages is like.
LEMMA NewRequestFacts ==
    ASSUME NEW seen \in Installation, NEW chosen \in Choice,
           NEW toRemove \in SUBSET Module
    PROVE  LET r == NewRequest(seen, chosen, toRemove) IN
           /\ r \in Request
           /\ \A m \in r.remove : seen[m] # NoPackage
           /\ \A p \in r.install : seen[ModuleOf[p]] = NoPackage
           /\ \A p \in r.change : seen[ModuleOf[p]] \notin {NoPackage, p}
           /\ \A p \in r.install \cup r.change :
                 ModuleOf[p] \in Module /\ chosen[ModuleOf[p]] = p /\ p # NoPackage
           /\ OnePerModule(r.change)
<1>1. \A m \in Module : chosen[m] # NoPackage =>
         chosen[m] \in Package /\ ModuleOf[chosen[m]] = m
  BY DEF Choice
<1>2. QED
  BY <1>1 DEF NewRequest, Request, OnePerModule

\* The steps that store a request: what they make it of.
Stored(seen, chosen, toRemove) ==
    /\ request' = NewRequest(seen, chosen, toRemove)
    /\ oldModules' \in BOOLEAN /\ oldOffer' \in BOOLEAN
    /\ ~oldModules' => seen = installed
    /\ ~oldOffer' => /\ ~refreshing
                     /\ \A m \in Module : chosen[m] \in {NoPackage, offered[m]}
    /\ approved' = NoRequest
    /\ call' \in {call, NoCall}
    /\ UNCHANGED <<storeVars, refreshing, deploymentJob, execVars>>

Requesting ==
    \E seen \in Installation, chosen \in Choice, toRemove \in SUBSET Module :
        Stored(seen, chosen, toRemove)

LEMMA RequestingSteps ==
    ASSUME Inv
    PROVE  /\ \A selected, toRemove \in SUBSET Module :
                 CreateModulesChangeRequest(selected, toRemove) => Requesting
           /\ CreateModulesUpdateAllChangeRequest => Requesting
<1> USE DEF Inv, TypeOK
<1>1. ASSUME NEW selected \in SUBSET Module, NEW toRemove \in SUBSET Module,
             CreateModulesChangeRequest(selected, toRemove)
      PROVE  Requesting
  <2> DEFINE chosen == [m \in Module |-> IF m \in selected THEN offered[m] ELSE NoPackage]
  <2>1. chosen \in Choice
    BY DEF Choice
  <2>2. installed \in Installation
    BY DEF Installation
  <2>3. \A m \in Module : chosen[m] \in {NoPackage, offered[m]}
    OBVIOUS
  <2>4. /\ request' = NewRequest(installed, chosen, toRemove)
        /\ oldModules' = FALSE /\ oldOffer' = FALSE /\ ~refreshing
        /\ approved' = NoRequest
        /\ UNCHANGED <<storeVars, call, refreshing, deploymentJob, execVars>>
    BY <1>1 DEF CreateModulesChangeRequest
  <2> HIDE DEF chosen
  <2>5. Stored(installed, chosen, toRemove)
    BY <2>3, <2>4 DEF Stored
  <2>6. QED
    BY <2>1, <2>2, <2>5 DEF Requesting
<1>2. ASSUME CreateModulesUpdateAllChangeRequest
      PROVE  Requesting
  <2>1. call.seen \in Installation /\ call.chosen \in Choice
    BY DEF Installation, Choice, Call, CallInv
  <2>2. /\ Calling
        /\ request' = NewRequest(call.seen, call.chosen, {})
        /\ oldModules' = (call.seen # installed) /\ oldOffer' = call.refresh
        /\ approved' = NoRequest /\ call' = NoCall
        /\ UNCHANGED <<storeVars, refreshing, deploymentJob, execVars>>
    BY <1>2 DEF CreateModulesUpdateAllChangeRequest, callerVars
  <2>3. call.refresh \in BOOLEAN
    BY DEF Call
  <2>4. Stored(call.seen, call.chosen, {})
    BY <2>2, <2>3 DEF Stored, CallInv
  <2>5. QED
    BY <2>1, <2>4 DEF Requesting
<1>3. QED
  BY <1>1, <1>2

\* Next, by what the steps disturb.
RequestStep ==
    \/ Requesting \/ CancelModulesChangeRequest
    \/ RefreshRepositories \/ UpdateLookupMap \/ EndRefresh
    \/ \E modules \in SUBSET Module : DeleteRepository(modules)

CallStep ==
    \/ ReadInstalled \/ EndCall
    \/ \E m \in Module : SelectModule(m)

SlotStep ==
    \/ \E wanted \in SUBSET Deployable :
          CreateDeployments(wanted) \/ DeleteDeployments(wanted)
    \/ RunDeploymentJob

ControlStep == ExecModulesChangeRequest \/ ReadRequest \/ EndLoop \/ ClearRequest \/ EndExec

ItemStep ==
    \/ \E m \in Module : RemoveItem(m)
    \/ \E p \in Package : InstallItem(p) \/ ChangeItem(p)

LEMMA NextSteps ==
    ASSUME Inv, [Next]_vars
    PROVE  \/ RequestStep \/ CallStep \/ SlotStep \/ ControlStep \/ ItemStep
           \/ UNCHANGED vars
<1>1. CASE \E selected \in SUBSET Module, toRemove \in SUBSET Removable :
              CreateModulesChangeRequest(selected, toRemove)
  BY <1>1, RequestingSteps, ModulesChangeAssumption DEF RequestStep
<1>2. CASE CreateModulesUpdateAllChangeRequest
  BY <1>2, RequestingSteps DEF RequestStep
<1>3. QED
  BY <1>1, <1>2
  DEF Next, RunExec, RequestStep, CallStep, SlotStep, ControlStep, ItemStep

\* The steps of a call before the last leave everything else alone.
LEMMA CallStepEffect ==
    ASSUME CallStep
    PROVE  UNCHANGED <<callerVars, requestVars>>
  BY DEF CallStep, ReadInstalled, EndCall, SelectModule, callerVars

\* Outcome, for the items of each action.
LEMMA OutcomeReported ==
    ASSUME NEW x, NEW ok \in BOOLEAN, Outcome(x, ok), NEW action
    PROVE  Reported(action)' = IF action = pc THEN Reported(action) \cup {x}
                                              ELSE Reported(action)
<1> DEFINE new == [action |-> pc, item |-> x, ok |-> ok]
<1>1. report' = report \cup {new} /\ new.action = pc /\ new.item = x
  BY DEF Outcome
<1> HIDE DEF new
<1>2. CASE action = pc
  BY <1>1, <1>2 DEF Reported
<1>3. CASE action # pc
  BY <1>1, <1>3 DEF Reported
<1>4. QED
  BY <1>2, <1>3

LEMMA ReportTypes ==
    ASSUME TypeOK, NEW r \in report
    PROVE  \/ r.action = "remove" /\ r.item \in Module
           \/ r.action \in {"install", "change"} /\ r.item \in Package
                /\ ModuleOf[r.item] \in Module
  BY ModulesChangeAssumption DEF TypeOK, Item

-----------------------------------------------------------------------------

LEMMA NextTypeOK ==
    ASSUME Inv, [Next]_vars
    PROVE  TypeOK'
<1> USE ModulesChangeAssumption DEF Inv, TypeOK
<1>1. CASE RequestStep
  <2>1. CASE Requesting
    <3>1. PICK seen \in Installation, chosen \in Choice, toRemove \in SUBSET Module :
             Stored(seen, chosen, toRemove)
      BY <2>1 DEF Requesting
    <3>2. NewRequest(seen, chosen, toRemove) \in Request
      BY NewRequestFacts
    <3>3. call' \in Call
      BY <3>1, NoCallType DEF Stored
    <3>4. QED
      BY <3>1, <3>2, <3>3 DEF Stored, storeVars, execVars
  <2>2. CASE CancelModulesChangeRequest
    BY <2>2 DEF CancelModulesChangeRequest, storeVars, execVars
  <2>3. CASE RefreshRepositories
    BY <2>3 DEF RefreshRepositories, storeVars, execVars
  <2>4. CASE EndRefresh
    BY <2>4 DEF EndRefresh, storeVars, requestVars, execVars
  <2>5. CASE UpdateLookupMap
    BY <2>5 DEF UpdateLookupMap, requestVars, execVars
  <2>6. CASE \E modules \in SUBSET Module : DeleteRepository(modules)
    <3>1. PICK modules \in SUBSET Module : DeleteRepository(modules)
      BY <2>6
    <3>2. /\ offered' \in Offers /\ oldOffer' \in BOOLEAN
          /\ UNCHANGED <<installed, deployed, request, call, refreshing,
                         deploymentJob, execVars, approved, oldModules>>
      BY <3>1 DEF DeleteRepository
    <3>3. QED
      BY <3>2 DEF execVars
  <2>7. QED
    BY <1>1, <2>1, <2>2, <2>3, <2>4, <2>5, <2>6 DEF RequestStep
<1>2. CASE CallStep
  <2>1. call' \in Call
    <3>1. CASE ReadInstalled
      BY <3>1, NoCallType DEF ReadInstalled, Call
    <3>2. CASE EndCall
      BY <3>2, NoCallType DEF EndCall
    <3>3. CASE \E m \in Module : SelectModule(m)
      BY <3>3 DEF SelectModule, Call
    <3>4. QED
      BY <1>2, <3>1, <3>2, <3>3 DEF CallStep
  <2>2. QED
    BY <1>2, <2>1, CallStepEffect DEF callerVars, requestVars, storeVars, execVars
<1>3. CASE SlotStep
  <2>1. CASE \E wanted \in SUBSET Deployable :
                CreateDeployments(wanted) \/ DeleteDeployments(wanted)
    BY <2>1 DEF CreateDeployments, DeleteDeployments, storeVars, requestVars, execVars
  <2>2. CASE SelectModules \/ EndDeploymentJob
    BY <2>2 DEF SelectModules, EndDeploymentJob, NoDeploymentJob, storeVars, requestVars,
                execVars
  <2>3. CASE \E m \in Module : DeployItem(m)
    BY <2>3 DEF DeployItem, requestVars, execVars
  <2>4. QED
    BY <1>3, <2>1, <2>2, <2>3 DEF SlotStep, RunDeploymentJob
<1>4. CASE ControlStep
  <2>1. CASE ReadRequest
    <3>1. request # NoRequest =>
             /\ request.remove \subseteq Module
             /\ request.install \subseteq Package
             /\ request.change \subseteq Package
      BY DEF Request
    <3>2. QED
      BY <2>1, <3>1 DEF ReadRequest, ReadLoop, ExecStep, otherVars, requestVars
  <2>2. CASE ExecModulesChangeRequest \/ EndLoop
    BY <2>2 DEF ExecModulesChangeRequest, EndLoop, ExecStep, storeVars, otherVars,
                requestVars
  <2>3. CASE ClearRequest
    BY <2>3 DEF ClearRequest, ExecStep, storeVars
  <2>4. CASE EndExec
    BY <2>4 DEF EndExec, ExecStep, storeVars
  <2>5. QED
    BY <1>4, <2>1, <2>2, <2>3, <2>4 DEF ControlStep
<1>5. CASE ItemStep
  <2>2. ASSUME NEW m \in Module, RemoveItem(m)
        PROVE  TypeOK'
    <3>1. \A ok \in BOOLEAN : [action |-> pc, item |-> m, ok |-> ok] \in Item
      BY <2>2 DEF RemoveItem, Item
    <3>2. PICK ok \in BOOLEAN : Outcome(m, ok)
      BY <2>2 DEF RemoveItem, Fails
    <3>3. /\ report' \in SUBSET Item /\ todo' \in SUBSET (Module \cup Package)
          /\ UNCHANGED <<pc, otherVars>>
      <4> DEFINE new == [action |-> pc, item |-> m, ok |-> ok]
      <4>1. new \in Item
        BY <3>1, <3>2
      <4>2. /\ report' = report \cup {new} /\ todo' = todo \ {m}
            /\ UNCHANGED <<pc, otherVars>>
        BY <3>2 DEF Outcome
      <4> HIDE DEF new
      <4>3. QED
        BY <4>1, <4>2
    <3>4. installed' = installed \/ installed' = [installed EXCEPT ![m] = NoPackage]
             \/ installed' = [installed EXCEPT ![m] = Broken]
      BY <2>2 DEF RemoveItem, Fails
    <3>5. installed' \in [Module -> Package \cup {NoPackage, Broken}]
      BY <3>4
    <3>6. \A n \in Module : installed'[n] \in Package => ModuleOf[installed'[n]] = n
      BY <3>4
    <3>7. QED
      BY <3>3, <3>5, <3>6 DEF otherVars, requestVars
  <2>3. ASSUME NEW p \in Package, InstallItem(p) \/ ChangeItem(p)
        PROVE  TypeOK'
    <3>1. \A ok \in BOOLEAN : [action |-> pc, item |-> p, ok |-> ok] \in Item
      BY <2>3 DEF InstallItem, ChangeItem, Item
    <3>2. PICK ok \in BOOLEAN : Outcome(p, ok)
      BY <2>3 DEF InstallItem, ChangeItem, Fails
    <3>3. \/ UNCHANGED installed
          \/ installed' = [installed EXCEPT ![ModuleOf[p]] = p]
      BY <2>3 DEF InstallItem, ChangeItem, Fails
    <3>4. /\ report' \in SUBSET Item /\ todo' \in SUBSET (Module \cup Package)
          /\ UNCHANGED <<pc, otherVars>>
      <4> DEFINE new == [action |-> pc, item |-> p, ok |-> ok]
      <4>1. new \in Item
        BY <3>1, <3>2
      <4>2. /\ report' = report \cup {new} /\ todo' = todo \ {p}
            /\ UNCHANGED <<pc, otherVars>>
        BY <3>2 DEF Outcome
      <4> HIDE DEF new
      <4>3. QED
        BY <4>1, <4>2
    <3>5. installed' \in [Module -> Package \cup {NoPackage, Broken}]
      BY <3>3
    <3>6. \A m \in Module : installed'[m] \in Package => ModuleOf[installed'[m]] = m
      BY <3>3
    <3>7. QED
      BY <3>4, <3>5, <3>6 DEF otherVars, requestVars
  <2>4. QED
    BY <1>5, <2>2, <2>3 DEF ItemStep
<1>6. CASE UNCHANGED vars
  BY <1>6 DEF vars
<1>7. QED
  BY <1>1, <1>2, <1>3, <1>4, <1>5, <1>6, NextSteps

\* What the store does to a module: only an item that is not deployed may go.
LEMMA ItemEffect ==
    ASSUME TypeOK, ItemStep
    PROVE  /\ \A m \in Module : installed'[m] \in {NoPackage, Broken} =>
                  installed'[m] = installed[m] \/ (pc = "remove" /\ m \notin deployed)
           /\ pc \in {"remove", "install", "change"}
           /\ UNCHANGED <<pc, otherVars>>
<1> USE ModulesChangeAssumption
<1>1. ASSUME NEW m \in Module, RemoveItem(m)
      PROVE  /\ pc = "remove" /\ UNCHANGED <<pc, otherVars>>
             /\ installed' # installed => m \notin deployed
             /\ \A n \in Module : n # m => installed'[n] = installed[n]
  BY <1>1 DEF RemoveItem, Fails, Outcome, TypeOK
<1>2. ASSUME NEW p \in Package, InstallItem(p) \/ ChangeItem(p)
      PROVE  /\ pc \in {"install", "change"} /\ UNCHANGED <<pc, otherVars>>
             /\ \/ UNCHANGED installed
                \/ installed' = [installed EXCEPT ![ModuleOf[p]] = p]
  BY <1>2 DEF InstallItem, ChangeItem, Fails, Outcome
<1>3. CASE \E m \in Module : RemoveItem(m)
  BY <1>1, <1>3
<1>4. CASE \E p \in Package : InstallItem(p) \/ ChangeItem(p)
  <2>1. PICK p \in Package : InstallItem(p) \/ ChangeItem(p)
    BY <1>4
  <2>2. \A m \in Module : installed'[m] \in {installed[m], p}
    BY <1>2, <2>1 DEF TypeOK
  <2>3. QED
    BY <1>2, <2>1, <2>2
<1>5. QED
  BY <1>3, <1>4 DEF ItemStep

LEMMA NextSlot ==
    ASSUME Inv, [Next]_vars
    PROVE  DeployedAreInstalled' /\ SlotInv'
<1> USE ModulesChangeAssumption DEF Inv, DeployedAreInstalled, SlotInv, Executing
<1>1. CASE RequestStep
  BY <1>1 DEF RequestStep, Requesting, Stored, CancelModulesChangeRequest,
              RefreshRepositories, UpdateLookupMap, EndRefresh, DeleteRepository,
              storeVars, execVars
<1>2. CASE CallStep
  BY <1>2, CallStepEffect DEF callerVars, storeVars, execVars
<1>3. CASE SlotStep
  <2>1. CASE \E wanted \in SUBSET Deployable :
                CreateDeployments(wanted) \/ DeleteDeployments(wanted)
    BY <2>1 DEF CreateDeployments, DeleteDeployments, storeVars, execVars
  <2>2. CASE SelectModules \/ EndDeploymentJob
    BY <2>2 DEF SelectModules, EndDeploymentJob, NoDeploymentJob, storeVars, execVars
  <2>3. CASE \E m \in Module : DeployItem(m)
    BY <2>3 DEF DeployItem, execVars, TypeOK
  <2>4. QED
    BY <1>3, <2>1, <2>2, <2>3 DEF SlotStep, RunDeploymentJob
<1>4. CASE ControlStep
  BY <1>4 DEF ControlStep, ExecModulesChangeRequest, ReadRequest, ReadLoop, EndLoop,
              ClearRequest, EndExec, NoDeploymentJob, storeVars, otherVars
<1>5. CASE ItemStep
  BY <1>5, ItemEffect, NextTypeOK DEF otherVars, TypeOK
<1>6. CASE UNCHANGED vars
  BY <1>6 DEF vars
<1>7. QED
  BY <1>1, <1>2, <1>3, <1>4, <1>5, <1>6, NextSteps

LEMMA NextCall ==
    ASSUME Inv, [Next]_vars
    PROVE  CallInv'
<1> USE ModulesChangeAssumption DEF Inv, CallInv, Calling, NoCall, NoModule
<1>1. CASE RequestStep
  <2>1. CASE Requesting
    BY <2>1 DEF Requesting, Stored, storeVars
  <2>2. CASE CancelModulesChangeRequest \/ RefreshRepositories \/ EndRefresh
    BY <2>2 DEF CancelModulesChangeRequest, RefreshRepositories, EndRefresh, storeVars
  <2>3. CASE UpdateLookupMap
    BY <2>3 DEF UpdateLookupMap
  <2>4. CASE \E modules \in SUBSET Module : DeleteRepository(modules)
    BY <2>4 DEF DeleteRepository
  <2>5. QED
    BY <1>1, <2>1, <2>2, <2>3, <2>4 DEF RequestStep
<1>2. CASE CallStep
  <2>1. UNCHANGED <<offered, refreshing>>
    BY <1>2, CallStepEffect DEF callerVars, storeVars
  <2>2. CASE ReadInstalled
    BY <2>1, <2>2 DEF ReadInstalled
  <2>3. CASE EndCall
    BY <2>1, <2>3 DEF EndCall
  <2>4. CASE \E m \in Module : SelectModule(m)
    <3>1. PICK m \in Module : SelectModule(m)
      BY <2>4
    <3>2. /\ call' = [call EXCEPT !.chosen[m] = offered[m]]
          /\ Calling /\ offered[m] # NoPackage
      BY <3>1 DEF SelectModule
    <3>3. /\ call'.seen = call.seen /\ call'.refresh = call.refresh
          /\ call'.chosen = [call.chosen EXCEPT ![m] = offered[m]]
      BY <3>2 DEF TypeOK, Call
    <3>4. \A n \in Module : call'.chosen[n] = IF n = m THEN offered[m] ELSE call.chosen[n]
      BY <3>3 DEF TypeOK, Call
    <3>5. ModuleOf[offered[m]] = m
      BY <3>2 DEF TypeOK
    <3>6. QED
      BY <2>1, <3>2, <3>3, <3>4, <3>5
  <2>5. QED
    BY <1>2, <2>2, <2>3, <2>4 DEF CallStep
<1>3. CASE SlotStep
  BY <1>3 DEF SlotStep, CreateDeployments, DeleteDeployments, RunDeploymentJob,
              SelectModules, DeployItem, EndDeploymentJob, storeVars
<1>4. CASE ControlStep
  BY <1>4 DEF ControlStep, ExecModulesChangeRequest, ReadRequest, ReadLoop, EndLoop,
              ClearRequest, EndExec, storeVars, otherVars
<1>5. CASE ItemStep
  BY <1>5, ItemEffect DEF otherVars
<1>6. CASE UNCHANGED vars
  BY <1>6 DEF vars
<1>7. QED
  BY <1>1, <1>2, <1>3, <1>4, <1>5, <1>6, NextSteps

LEMMA NextRequest ==
    ASSUME Inv, [Next]_vars
    PROVE  RequestCurrent' /\ RequestOffered' /\ RequestUnique'
<1> USE DEF Inv, RequestCurrent, RequestOffered, RequestUnique, OnePerModule
<1>1. CASE RequestStep
  <2>1. CASE Requesting
    <3>1. PICK seen \in Installation, chosen \in Choice, toRemove \in SUBSET Module :
             Stored(seen, chosen, toRemove)
      BY <2>1 DEF Requesting
    <3> DEFINE r == NewRequest(seen, chosen, toRemove)
    <3>2. /\ \A m \in r.remove : seen[m] # NoPackage
          /\ \A p \in r.install : seen[ModuleOf[p]] = NoPackage
          /\ \A p \in r.change : seen[ModuleOf[p]] \notin {NoPackage, p}
          /\ \A p \in r.install \cup r.change :
                ModuleOf[p] \in Module /\ chosen[ModuleOf[p]] = p /\ p # NoPackage
          /\ OnePerModule(r.change)
      BY NewRequestFacts
    <3>3. /\ request' = r
          /\ ~oldModules' => seen = installed
          /\ ~oldOffer' => /\ ~refreshing
                           /\ \A m \in Module : chosen[m] \in {NoPackage, offered[m]}
          /\ UNCHANGED <<installed, offered, refreshing>>
      BY <3>1 DEF Stored, storeVars
    <3> HIDE DEF r
    <3>4. QED
      BY <3>2, <3>3
  <2>2. CASE CancelModulesChangeRequest \/ RefreshRepositories \/ EndRefresh
    BY <2>2 DEF CancelModulesChangeRequest, RefreshRepositories, EndRefresh,
                storeVars, requestVars, execVars
  <2>3. CASE UpdateLookupMap
    BY <2>3 DEF UpdateLookupMap, requestVars, execVars
  <2>4. CASE \E modules \in SUBSET Module : DeleteRepository(modules)
    <3>1. PICK modules \in SUBSET Module : DeleteRepository(modules)
      BY <2>4
    <3>2. /\ offered' = [m \in Module |-> IF m \in modules THEN NoPackage ELSE offered[m]]
          /\ ~oldOffer' /\ request # NoRequest =>
                /\ ~oldOffer
                /\ \A p \in request.install \cup request.change : ModuleOf[p] \notin modules
          /\ UNCHANGED <<installed, request, refreshing, pc, oldModules>>
      BY <3>1 DEF DeleteRepository, execVars
    <3>3. request # NoRequest =>
             \A p \in request.install \cup request.change : ModuleOf[p] \in Module
      BY ModulesChangeAssumption DEF TypeOK, Request
    <3>4. QED
      BY <3>2, <3>3
  <2>5. QED
    BY <1>1, <2>1, <2>2, <2>3, <2>4 DEF RequestStep
<1>2. CASE CallStep
  BY <1>2, CallStepEffect DEF callerVars, storeVars, requestVars, execVars
<1>3. CASE SlotStep
  BY <1>3 DEF SlotStep, CreateDeployments, DeleteDeployments, RunDeploymentJob,
              SelectModules, DeployItem, EndDeploymentJob, storeVars, requestVars,
              execVars
<1>4. CASE ControlStep
  BY <1>4 DEF ControlStep, ExecModulesChangeRequest, ReadRequest, ReadLoop, EndLoop,
              ClearRequest, EndExec, Executing, storeVars, otherVars, requestVars
<1>5. CASE ItemStep
  BY <1>5, ItemEffect DEF otherVars, requestVars
<1>6. CASE UNCHANGED vars
  BY <1>6 DEF vars
<1>7. QED
  BY <1>1, <1>2, <1>3, <1>4, <1>5, <1>6, NextSteps

LEMMA ItemOutcome ==
    ASSUME ItemStep
    PROVE  \E x \in todo, ok \in BOOLEAN : Outcome(x, ok)
  BY DEF ItemStep, RemoveItem, InstallItem, ChangeItem, Fails

\* Steps that leave the execution and its report alone.
LEMMA ReportUnchanged ==
    ASSUME UNCHANGED <<pc, todo, report>>, NEW action
    PROVE  /\ Reported(action)' = Reported(action)
           /\ \A items : Left(action, items)' = Left(action, items)
  BY DEF Reported, Left, Before

LEMMA NextProgress ==
    ASSUME Inv, [Next]_vars
    PROVE  ProgressInv'
<1> USE DEF Inv, ProgressInv
<1>1. CASE RequestStep
  <2>1. CASE \/ UpdateLookupMap \/ EndRefresh
             \/ \E modules \in SUBSET Module : DeleteRepository(modules)
    <3>1. UNCHANGED <<pc, todo, report, approved, request>>
      BY <2>1 DEF UpdateLookupMap, EndRefresh, DeleteRepository, requestVars, execVars
    <3>2. QED
      BY <3>1, ReportUnchanged DEF Progress
  <2>2. CASE Requesting \/ CancelModulesChangeRequest \/ RefreshRepositories
    BY <2>2 DEF Requesting, Stored, CancelModulesChangeRequest, RefreshRepositories
  <2>3. QED
    BY <1>1, <2>1, <2>2 DEF RequestStep
<1>2. CASE SlotStep \/ CallStep \/ UNCHANGED vars
  <2>1. UNCHANGED <<pc, todo, report, approved, request>>
    BY <1>2, CallStepEffect
    DEF SlotStep, CreateDeployments, DeleteDeployments, RunDeploymentJob,
        SelectModules, DeployItem, EndDeploymentJob, callerVars, requestVars,
        execVars, vars
  <2>2. QED
    BY <2>1, ReportUnchanged DEF Progress
<1>3. CASE ControlStep
  <2>1. CASE ExecModulesChangeRequest
    <3>1. report = {} /\ report' = {} /\ pc' = "readRemove" /\ approved' = request
          /\ request' = request
      BY <2>1 DEF ExecModulesChangeRequest, Executing, PhaseInv
    <3>2. \A items : /\ Progress("remove", items)'
                     /\ Progress("install", items)'
                     /\ Progress("change", items)'
      BY <3>1 DEF Progress, Left, Before, Reported
    <3>3. QED
      BY <3>1, <3>2
  <2>2. CASE ReadRequest
    <3>1. UNCHANGED <<report, approved, request>>
      BY <2>2 DEF ReadRequest, ReadLoop, otherVars, requestVars
    <3>2. CASE approved # NoRequest
      <4>1. request = approved
        BY <2>2, <3>2 DEF ReadRequest, ReadLoop
      <4>2. \/ pc = "readRemove" /\ pc' = "remove" /\ todo' = approved.remove
            \/ pc = "readInstall" /\ pc' = "install" /\ todo' = approved.install
            \/ pc = "readChange" /\ pc' = "change" /\ todo' = approved.change
        BY <2>2, <3>2, <4>1 DEF ReadRequest, ReadLoop
      <4>3. \A action \in {"remove", "install", "change"} :
               Reported(action)' = Reported(action)
        BY <3>1 DEF Reported
      <4>4. Progress("remove", approved.remove)'
        BY <3>1, <3>2, <4>2, <4>3 DEF Progress, Left, Before
      <4>5. Progress("install", approved.install)'
        BY <3>1, <3>2, <4>2, <4>3 DEF Progress, Left, Before
      <4>6. Progress("change", approved.change)'
        BY <3>1, <3>2, <4>2, <4>3 DEF Progress, Left, Before
      <4>7. QED
        BY <3>1, <3>2, <4>1, <4>2, <4>4, <4>5, <4>6
    <3>3. QED
      BY <3>1, <3>2
  <2>3. CASE EndLoop
    <3>1. UNCHANGED <<report, approved, request>> /\ todo = {} /\ todo' = {}
      BY <2>3 DEF EndLoop, otherVars, requestVars
    <3>2. \/ pc = "remove" /\ pc' = "readInstall"
          \/ pc = "install" /\ pc' = "readChange"
          \/ pc = "change" /\ pc' = "clear"
      BY <2>3 DEF EndLoop
    <3>3. \A action \in {"remove", "install", "change"} :
             /\ Reported(action)' = Reported(action)
             /\ \A items : Left(action, items)' = Left(action, items)
      BY <3>1, <3>2 DEF Reported, Left, Before
    <3>4. QED
      BY <3>1, <3>2, <3>3 DEF Progress
  <2>4. CASE ClearRequest
    <3>1. UNCHANGED approved /\ pc' = "done"
          /\ (approved # NoRequest => report' = report /\ pc = "clear")
      BY <2>4 DEF ClearRequest
    <3>2. \A action \in {"remove", "install", "change"} :
             approved # NoRequest =>
               /\ Reported(action)' = Reported(action)
               /\ \A items : Left(action, items)' = Left(action, items)
      BY <3>1 DEF Reported, Left, Before
    <3>3. QED
      BY <3>1, <3>2 DEF Progress
  <2>5. CASE EndExec
    BY <2>5 DEF EndExec
  <2>6. QED
    BY <1>3, <2>1, <2>2, <2>3, <2>4, <2>5 DEF ControlStep
<1>4. CASE ItemStep
  <2>1. PICK x \in todo, ok \in BOOLEAN : Outcome(x, ok)
    BY <1>4, ItemOutcome
  <2>2. /\ pc \in {"remove", "install", "change"}
        /\ UNCHANGED <<pc, approved, request>> /\ todo' = todo \ {x}
    BY <1>4, <2>1, ItemEffect DEF Outcome, otherVars, requestVars
  <2>3. \A action \in {"remove", "install", "change"} :
           Reported(action)' = IF action = pc THEN Reported(action) \cup {x}
                                              ELSE Reported(action)
    BY <2>1, OutcomeReported
  <2>4. \A action \in {"remove", "install", "change"} : \A items :
           Left(action, items)' = IF action = pc THEN todo \ {x}
                                                 ELSE Left(action, items)
    BY <2>2 DEF Left, Before
  <2>5. \A items : Left(pc, items) = todo
    BY <2>2 DEF Left, Before
  <2>6. \A action \in {"remove", "install", "change"} : \A items :
           Progress(action, items) => Progress(action, items)'
    BY <2>1, <2>2, <2>3, <2>4, <2>5 DEF Progress
  <2>7. approved # NoRequest => x \notin Reported(pc)
    BY <2>1, <2>2, <2>5 DEF Progress
  <2>8. ASSUME approved # NoRequest, NEW r \in report', NEW s \in report',
               r.action = s.action, r.item = s.item
        PROVE  r = s
    <3> DEFINE new == [action |-> pc, item |-> x, ok |-> ok]
    <3>1. report' = report \cup {new} /\ new.action = pc /\ new.item = x
      BY <2>1 DEF Outcome
    <3> HIDE DEF new
    <3>2. \A t \in report : t.action = pc => t.item # x
      BY <2>7, <2>8 DEF Reported
    <3>3. QED
      BY <2>8, <3>1, <3>2
  <2>9. QED
    BY <2>2, <2>6, <2>8
<1>5. QED
  BY <1>1, <1>2, <1>3, <1>4, NextSteps

LEMMA NextPhase ==
    ASSUME Inv, [Next]_vars
    PROVE  PhaseInv'
<1> USE DEF Inv, PhaseInv
<1>1. CASE RequestStep \/ CallStep \/ SlotStep \/ UNCHANGED vars
  <2>1. UNCHANGED <<pc, todo, report>>
    BY <1>1, CallStepEffect
    DEF RequestStep, Requesting, Stored, CancelModulesChangeRequest,
        RefreshRepositories, UpdateLookupMap, EndRefresh, DeleteRepository,
        callerVars, SlotStep,
        CreateDeployments, DeleteDeployments, RunDeploymentJob, SelectModules,
        DeployItem, EndDeploymentJob, execVars, vars
  <2>2. QED
    BY <2>1, ReportUnchanged DEF Before
<1>2. CASE ControlStep
  <2>1. CASE ReadRequest
    <3>1. CASE pc' = "panic"
      <4>1. report' = report
        BY <2>1 DEF ReadRequest, ReadLoop
      <4>2. \A r \in report' : pc' \notin Before(r.action)
        BY <3>1, <4>1, ReportTypes DEF Before
      <4>3. QED
        BY <3>1, <4>2
    <3>2. CASE pc' # "panic"
      <4>1. /\ report' = report
            /\ \/ pc = "readRemove" /\ pc' = "remove"
               \/ pc = "readInstall" /\ pc' = "install"
               \/ /\ pc = "readChange" /\ pc' = "change"
                  /\ todo' = request.change /\ OnePerModule(request.change)
        BY <2>1, <3>2 DEF ReadRequest, ReadLoop, RequestUnique
      <4>2. pc = "readChange" => Reported("change")' = {}
        BY <4>1 DEF Reported, Before
      <4>3. \A r \in report' : pc' \notin Before(r.action)
        BY <4>1, ReportTypes DEF Before
      <4>4. QED
        BY <4>1, <4>2, <4>3
    <3>3. QED
      BY <3>1, <3>2
  <2>2. CASE EndLoop
    <3>1. /\ report' = report
          /\ \/ pc = "remove" /\ pc' = "readInstall"
             \/ pc = "install" /\ pc' = "readChange"
             \/ pc = "change" /\ pc' = "clear"
      BY <2>2 DEF EndLoop
    <3>2. QED
      BY <3>1, ReportTypes DEF Before
  <2>3. CASE ExecModulesChangeRequest \/ ClearRequest \/ EndExec
    <3>1. report' = {} \/ (report' = report /\ pc' = "done")
      BY <2>3 DEF ExecModulesChangeRequest, ClearRequest, EndExec, Executing
    <3>2. pc' \in {"readRemove", "done", "idle"}
          /\ (pc' \in {"readRemove", "idle"} => report' = {})
      BY <2>3 DEF ExecModulesChangeRequest, ClearRequest, EndExec, Executing
    <3>3. QED
      BY <3>1, <3>2, ReportTypes DEF Before
  <2>4. QED
    BY <1>2, <2>1, <2>2, <2>3 DEF ControlStep
<1>3. CASE ItemStep
  <2>1. PICK x \in todo, ok \in BOOLEAN : Outcome(x, ok)
    BY <1>3, ItemOutcome
  <2>2. pc \in {"remove", "install", "change"} /\ pc' = pc /\ todo' = todo \ {x}
    BY <1>3, <2>1, ItemEffect DEF Outcome
  <2>3. \A r \in report' : pc' \notin Before(r.action)
    <3> DEFINE new == [action |-> pc, item |-> x, ok |-> ok]
    <3>1. report' = report \cup {new} /\ new.action = pc
      BY <2>1 DEF Outcome
    <3> HIDE DEF new
    <3>2. pc \notin Before(new.action)
      BY <2>2, <3>1 DEF Before
    <3>3. QED
      BY <2>2, <3>1, <3>2 DEF Before
  <2>4. pc = "change" => Reported("change")' \cup todo' \subseteq Reported("change") \cup todo
    BY <2>1, <2>2, OutcomeReported
  <2>5. QED
    BY <2>2, <2>3, <2>4 DEF OnePerModule
<1>4. QED
  BY <1>1, <1>2, <1>3, NextSteps

\* An item that fails succeeds nowhere, one that succeeds is added.
LEMMA OutcomeSuccesses ==
    ASSUME NEW x, NEW ok \in BOOLEAN, Outcome(x, ok), NEW m, NEW action
    PROVE  /\ Successes(m, action) \subseteq Successes(m, action)'
           /\ action # pc \/ ~ok => Successes(m, action)' = Successes(m, action)
  BY DEF Outcome, Successes

LEMMA NextReport ==
    ASSUME Inv, [Next]_vars
    PROVE  ReportInv'
<1> USE ModulesChangeAssumption DEF Inv
<1>1. CASE RequestStep \/ CallStep \/ SlotStep \/ UNCHANGED vars
  <2>1. UNCHANGED <<installed, report>>
    BY <1>1, CallStepEffect
    DEF RequestStep, Requesting, Stored, CancelModulesChangeRequest,
        RefreshRepositories, UpdateLookupMap, EndRefresh, DeleteRepository,
        callerVars, SlotStep,
        CreateDeployments, DeleteDeployments, RunDeploymentJob, SelectModules,
        DeployItem, EndDeploymentJob, storeVars, execVars, vars
  <2>2. QED
    BY <2>1 DEF ReportInv, Successes
<1>2. CASE ControlStep
  <2>1. installed' = installed /\ (report' = report \/ report' = {})
    BY <1>2 DEF ControlStep, ExecModulesChangeRequest, ReadRequest, ReadLoop, EndLoop,
                ClearRequest, EndExec, storeVars, otherVars
  <2>2. QED
    BY <2>1 DEF ReportInv, Successes
<1>3. CASE ItemStep
  <2>1. ASSUME NEW x, Outcome(x, FALSE), installed' = installed
        PROVE  ReportInv'
    <3> DEFINE new == [action |-> pc, item |-> x, ok |-> FALSE]
    <3>1. report' = report \cup {new} /\ ~new.ok
      BY <2>1 DEF Outcome
    <3> HIDE DEF new
    <3>2. \A m, action : Successes(m, action)' = Successes(m, action)
      BY <2>1, OutcomeSuccesses
    <3>3. QED
      BY <2>1, <3>1, <3>2 DEF ReportInv
  <2>2. ASSUME NEW m \in Module, RemoveItem(m)
        PROVE  ReportInv'
    <3>1. pc = "remove" /\ \A r \in report : r.action = "remove" /\ r.item \in Module
      BY <2>2, ReportTypes DEF RemoveItem, PhaseInv, Before
    <3>2. \A n : Successes(n, "install") = {} /\ Successes(n, "change") = {}
      BY <3>1 DEF Successes
    <3>3. CASE Fails(m)
      BY <2>1, <3>3 DEF Fails
    <3>4. CASE /\ installed' = [installed EXCEPT ![m] = NoPackage]
               /\ Outcome(m, TRUE)
      <4> DEFINE new == [action |-> pc, item |-> m, ok |-> TRUE]
      <4>1. report' = report \cup {new} /\ new.action = "remove" /\ new.item = m
        BY <3>1, <3>4 DEF Outcome
      <4> HIDE DEF new
      <4>2. \A r \in report' : r.ok => r.action = "remove" /\ installed'[r.item] = NoPackage
        BY <3>1, <3>2, <3>4, <4>1 DEF ReportInv, TypeOK
      <4>3. QED
        BY <4>2 DEF ReportInv
    <3>5. CASE /\ installed[m] \in Package
               /\ installed' = [installed EXCEPT ![m] = Broken]
               /\ Outcome(m, FALSE)
      <4> DEFINE new == [action |-> pc, item |-> m, ok |-> FALSE]
      <4>1. report' = report \cup {new} /\ ~new.ok
        BY <3>5 DEF Outcome
      <4> HIDE DEF new
      <4>2. \A r \in report' : r.ok => r.action = "remove" /\ installed'[r.item] = NoPackage
        BY <3>1, <3>2, <3>5, <4>1 DEF ReportInv, TypeOK
      <4>3. QED
        BY <4>2 DEF ReportInv
    <3>6. QED
      BY <2>2, <3>3, <3>4, <3>5 DEF RemoveItem
  <2>3. ASSUME NEW p \in Package, InstallItem(p)
        PROVE  ReportInv'
    <3>1. pc = "install" /\ \A r \in report : r.action # "change"
      BY <2>3, ReportTypes DEF InstallItem, PhaseInv, Before
    <3>2. \A n : Successes(n, "change") = {}
      BY <3>1 DEF Successes
    <3>3. CASE Fails(p)
      BY <2>1, <3>3 DEF Fails
    <3>4. CASE /\ installed[ModuleOf[p]] = NoPackage
               /\ installed' = [installed EXCEPT ![ModuleOf[p]] = p]
               /\ Outcome(p, TRUE)
      <4> DEFINE new == [action |-> pc, item |-> p, ok |-> TRUE]
      <4>1. report' = report \cup {new} /\ new.action = "install" /\ new.item = p /\ new.ok
        BY <3>1, <3>4 DEF Outcome
      <4> HIDE DEF new
      <4>2. new \in Successes(ModuleOf[p], "install")'
        BY <4>1 DEF Successes
      <4>3. \A n, action : Successes(n, action) \subseteq Successes(n, action)'
        BY <3>4, OutcomeSuccesses
      <4>4. ModuleOf[p] \in Module /\ installed'[ModuleOf[p]] = p
            /\ \A n \in Module : n # ModuleOf[p] => installed'[n] = installed[n]
        BY <3>4 DEF TypeOK
      <4>5. ASSUME NEW r \in report, r.ok, r.action = "install"
            PROVE  installed'[ModuleOf[r.item]] = r.item
        <5>1. installed[ModuleOf[r.item]] = r.item /\ r.item \in Package
          BY <3>2, <4>5, ReportTypes DEF ReportInv
        <5>2. ModuleOf[r.item] # ModuleOf[p] /\ ModuleOf[r.item] \in Module
          BY <3>4, <5>1
        <5>3. QED
          BY <4>4, <5>1, <5>2
      <4>6. ASSUME NEW r \in report, r.ok, r.action = "remove"
            PROVE  \/ installed'[r.item] = NoPackage
                   \/ Successes(r.item, "install")' # {}
        <5>1. r.item \in Module
          BY <4>6, ReportTypes
        <5>2. QED
          BY <3>2, <4>2, <4>3, <4>4, <4>6, <5>1 DEF ReportInv
      <4>7. QED
        BY <3>1, <4>1, <4>4, <4>5, <4>6 DEF ReportInv
    <3>5. QED
      BY <2>3, <3>3, <3>4 DEF InstallItem
  <2>4. ASSUME NEW p \in Package, ChangeItem(p)
        PROVE  ReportInv'
    <3>1. pc = "change" /\ p \in todo /\ OnePerModule(Reported("change") \cup todo)
      BY <2>4 DEF ChangeItem, PhaseInv
    <3>2. CASE Fails(p)
      BY <2>1, <3>2 DEF Fails
    <3>3. CASE /\ installed[ModuleOf[p]] # NoPackage
               /\ installed' = [installed EXCEPT ![ModuleOf[p]] = p]
               /\ Outcome(p, TRUE)
      <4> DEFINE new == [action |-> pc, item |-> p, ok |-> TRUE]
      <4>1. report' = report \cup {new} /\ new.action = "change" /\ new.item = p /\ new.ok
        BY <3>1, <3>3 DEF Outcome
      <4> HIDE DEF new
      <4>2. new \in Successes(ModuleOf[p], "change")'
        BY <4>1 DEF Successes
      <4>3. \A n, action : Successes(n, action) \subseteq Successes(n, action)'
        BY <3>3, OutcomeSuccesses
      <4>4. ModuleOf[p] \in Module /\ installed'[ModuleOf[p]] = p
            /\ \A n \in Module : n # ModuleOf[p] => installed'[n] = installed[n]
        BY <3>3 DEF TypeOK
      <4>5. ASSUME NEW r \in report, r.ok, r.action = "change"
            PROVE  installed'[ModuleOf[r.item]] = r.item
        <5>1. r.item \in Reported("change") /\ ModuleOf[r.item] \in Module
          BY <4>5, ReportTypes DEF Reported
        <5>2. ModuleOf[r.item] = ModuleOf[p] => r.item = p
          BY <3>1, <5>1 DEF OnePerModule
        <5>3. QED
          BY <4>4, <4>5, <5>1, <5>2 DEF ReportInv
      <4>6. ASSUME NEW r \in report, r.ok, r.action = "install"
            PROVE  \/ installed'[ModuleOf[r.item]] = r.item
                   \/ Successes(ModuleOf[r.item], "change")' # {}
        <5>1. ModuleOf[r.item] \in Module
          BY <4>6, ReportTypes
        <5>2. QED
          BY <4>2, <4>3, <4>4, <4>6, <5>1 DEF ReportInv
      <4>7. ASSUME NEW r \in report, r.ok, r.action = "remove"
            PROVE  \/ installed'[r.item] = NoPackage
                   \/ Successes(r.item, "change")' # {}
                   \/ Successes(r.item, "install")' # {}
        <5>1. r.item \in Module
          BY <4>7, ReportTypes
        <5>2. QED
          BY <4>2, <4>3, <4>4, <4>7, <5>1 DEF ReportInv
      <4>8. QED
        BY <4>1, <4>4, <4>5, <4>6, <4>7 DEF ReportInv
    <3>4. QED
      BY <2>4, <3>2, <3>3 DEF ChangeItem
  <2>5. QED
    BY <1>3, <2>2, <2>3, <2>4 DEF ItemStep
<1>4. QED
  BY <1>1, <1>2, <1>3, NextSteps

-----------------------------------------------------------------------------

\* The invariant.
THEOREM Invariant == Spec => []Inv
<1>1. Init => Inv
  BY InitInv
<1>2. Inv /\ [Next]_vars => Inv'
  BY NextTypeOK, NextSlot, NextCall, NextRequest, NextProgress, NextPhase, NextReport DEF Inv
<1>3. QED
  BY <1>1, <1>2, PTL DEF Spec

\* Type correctness.
THEOREM TypeCorrect == Spec => []TypeOK
  BY Invariant, PTL DEF Inv

\* A deployed module stays installed (the slots that
\* ExecModulesChangeRequest and CreateDeployments look at).
THEOREM DeployedStayInstalled == Spec => []DeployedAreInstalled
  BY Invariant, PTL DEF Inv

\* No step takes away the files of a deployed module
\* (execModulesChangeRequest).
THEOREM DeployedStayWhole == Spec => DeployedKeepFiles
<1>1. ASSUME Inv, [Next]_vars
      PROVE  [\A m \in deployed : installed[m] \in Package => installed'[m] \in Package]_vars
  <2>1. CASE ItemStep
    <3>1. TypeOK /\ TypeOK'
      BY <1>1, NextTypeOK DEF Inv
    <3>2. ASSUME NEW m \in deployed, installed[m] \in Package
          PROVE  installed'[m] \in Package
      BY <2>1, <3>1, <3>2, ItemEffect, ModulesChangeAssumption DEF TypeOK
    <3>3. QED
      BY <3>2
  <2>2. CASE RequestStep \/ CallStep \/ SlotStep \/ ControlStep \/ UNCHANGED vars
    <3>1. UNCHANGED installed
      BY <2>2, CallStepEffect
      DEF RequestStep, Requesting, Stored, CancelModulesChangeRequest,
          RefreshRepositories, UpdateLookupMap, EndRefresh, DeleteRepository,
          callerVars, SlotStep,
          CreateDeployments, DeleteDeployments, RunDeploymentJob, SelectModules,
          DeployItem, EndDeploymentJob, ControlStep, ExecModulesChangeRequest,
          ReadRequest, ReadLoop, EndLoop, ClearRequest, EndExec,
          storeVars, otherVars, vars
    <3>2. QED
      BY <3>1
  <2>3. QED
    BY <1>1, <2>1, <2>2, NextSteps
<1>2. QED
  BY <1>1, Invariant, PTL DEF Spec, DeployedKeepFiles

\* What a pending request says is true of the installed modules, unless they
\* changed under the call that made it (CreateModulesChangeRequest,
\* newModulesUpdateAllChangeRequest, the clearing in execModulesChangeRequest).
THEOREM RequestStaysCurrent == Spec => []PendingRequestIsCurrent
<1>1. Inv => PendingRequestIsCurrent
  BY DEF Inv, RequestCurrent, PendingRequestIsCurrent, Executing
<1>2. QED
  BY <1>1, Invariant, PTL

\* A pending request names what the repositories offer, unless its call began
\* during a refresh or a repository was deleted (RefreshRepositories,
\* DeleteRepository).
THEOREM RequestStaysOffered == Spec => []PendingRequestIsOffered
<1>1. Inv => PendingRequestIsOffered
  BY DEF Inv, RequestOffered, PendingRequestIsOffered
<1>2. QED
  BY <1>1, Invariant, PTL

\* A pending request is outdated neither by a change of the modules nor by one
\* of the repositories, with the exceptions of PendingRequestIsValid
\* (CreateModulesChangeRequest, RefreshRepositories).
THEOREM RequestStaysValid == Spec => []PendingRequestIsValid
BY RequestStaysCurrent, RequestStaysOffered, PTL DEF PendingRequestIsValid

\* An undisturbed execution does what was approved, each item once
\* (execModulesChangeRequest).
THEOREM ExecIsApproved == Spec => []UndisturbedExecIsApproved
<1>1. Inv => UndisturbedExecIsApproved
  BY DEF Inv, ProgressInv, Progress, Left, Before, Reported, UndisturbedExecIsApproved
<1>2. QED
  BY <1>1, Invariant, PTL

\* The report of every execution is true (execModulesChangeRequest).
THEOREM ReportStaysTrue == Spec => []ReportIsTrue
<1>1. Inv => ReportIsTrue
  BY DEF Inv, ReportInv, ReportIsTrue, Successes
<1>2. QED
  BY <1>1, Invariant, PTL

=============================================================================
