-------------------------- MODULE DeploymentsProofs --------------------------
(***************************************************************************)
(* Proofs about Deployments: whatever fails or crashes and whatever the    *)
(* monitor's goroutines do, everything that exists is recorded.            *)
(***************************************************************************)
EXTENDS Deployments, TLAPS

\* The steps of an operation before and after it writes the row, and those
\* that only a delete takes.
Before == {"stop", "removeContainers", "cleanMounts", "removeDirs"}

After == {"volumes", "dirs", "mounts", "containers", "endpoints"}

Deleting == {"removeVolumes", "removeEndpoints", "deleteRow"}

Bare == \A u \in Uuid : Existing(u) = {}

\* What the local variables of an operation mean at each of its steps.
CallInv ==
    /\ pc \in Before \cup Deleting =>
          row # NoRow /\ call.id = row.id /\ call.kind # "create"
    /\ pc = "stop" => call.kind # "delete"
    /\ pc \in Deleting => call.kind = "delete"
    /\ pc = "writeRow" =>
          /\ call.kind # "delete"
          /\ row = NoRow <=> call.kind = "create"
          /\ row # NoRow => call.id = row.id
    /\ pc \in After =>
          /\ call.kind # "delete"
          /\ row # NoRow
          /\ row.id = call.id /\ row.version = call.version
          /\ row.names = call.names /\ row.dir = call.dir
    /\ pc = "ok" /\ call.kind # "delete" => row # NoRow /\ row.id = call.id

\* NothingUnrecorded, and what an operation has removed by now.
ContainersInv ==
    /\ \A u \in Uuid : Existing(u) # {} =>
          /\ row # NoRow
          /\ u = row.names
          /\ Existing(u) \subseteq ServicesOf[row.version]
    /\ pc \in {"cleanMounts", "removeDirs", "writeRow", "volumes", "dirs",
               "mounts", "containers"} \cup Deleting => Bare

DirsInv ==
    /\ \A u \in dirs : row # NoRow /\ u = row.dir
    /\ pc \in {"writeRow", "volumes", "dirs"} \cup Deleting => dirs = {}

EndpointsInv ==
    /\ \A e \in endpoints : row # NoRow /\ e[1] = row.id
    /\ pc = "deleteRow" => endpoints = {}

MountsInv ==
    /\ MountsAreAccounted
    /\ pc \in Deleting \/ (pc = "removeDirs" /\ call.kind = "delete") =>
          mounts[call.id] = "none" \/ call.id \in lateMounts

\* VolumesAreAccounted, extended to the steps of an operation.
VolumesInv ==
    /\ \A x \in volumes : x \notin strayVolumes =>
          /\ row # NoRow
          /\ x[1] = row.id
          /\ x[2] \in VolumesOf[row.version] \/ pc = "volumes"
    /\ pc \in {"removeEndpoints", "deleteRow"} => volumes \subseteq strayVolumes

EnabledInv ==
    /\ EnabledAsWanted
    /\ pc \in Before \cup {"writeRow"} =>
          call.enabled = IF row = NoRow THEN FALSE ELSE row.enabled

\* SuccessIsComplete, step by step.
ProgressInv ==
    /\ pc \in {"dirs", "mounts", "containers", "endpoints"} =>
          Needed(call.version) \subseteq volumes
    /\ pc \in {"mounts", "containers", "endpoints"} => call.dir \in dirs
    /\ pc \in {"containers", "endpoints"} =>
          mounts[call.id] # "none" \/ call.interfered
    /\ pc = "endpoints" => ServicesOf[call.version] \subseteq Existing(call.names)
    /\ SuccessIsComplete

Inv == /\ TypeOK /\ CallInv /\ ContainersInv /\ DirsInv /\ EndpointsInv
       /\ MountsInv /\ VolumesInv /\ EnabledInv /\ ProgressInv

-----------------------------------------------------------------------------

LEMMA InitInv == Init => Inv
<1>. SUFFICES ASSUME Init PROVE Inv
  OBVIOUS
<1>. USE DEF Init
<1>1. TypeOK
  <2>1. containers \in [Uuid -> [Service -> ContainerState]]
    BY DEF ContainerState
  <2>2. faults \in 0..MaxFaults
    BY DeploymentsAssumption
  <2>. QED  BY <2>1, <2>2 DEF TypeOK, Step
<1>2. \A u \in Uuid : Existing(u) = {}
  BY DEF Existing
<1>3. CallInv /\ ContainersInv /\ DirsInv /\ EndpointsInv
  BY <1>2 DEF CallInv, ContainersInv, DirsInv, EndpointsInv, Before, After,
              Deleting
<1>4. MountsInv /\ VolumesInv /\ EnabledInv /\ ProgressInv
  BY DEF MountsInv, MountsAreAccounted, VolumesInv, EnabledInv,
         EnabledAsWanted, ProgressInv, SuccessIsComplete, Before, Deleting
<1>. QED  BY <1>1, <1>3, <1>4 DEF Inv

\* Set changes what exists under one name.
LEMMA SetExisting ==
    ASSUME containers \in [Uuid -> [Service -> ContainerState]],
           NEW u \in Uuid, NEW S \in SUBSET Service,
           NEW state \in ContainerState, containers' = Set(u, S, state)
    PROVE  /\ containers' \in [Uuid -> [Service -> ContainerState]]
           /\ \A w \in Uuid : Existing(w)' =
                 IF w # u THEN Existing(w)
                 ELSE IF state = "absent" THEN Existing(u) \ S
                 ELSE Existing(u) \cup S
<1>1. /\ containers' \in [Uuid -> [Service -> ContainerState]]
      /\ \A w \in Uuid : w # u => containers'[w] = containers[w]
      /\ \A s \in Service : containers'[u][s] =
            IF s \in S THEN state ELSE containers[u][s]
  BY DEF Set
<1>2. ASSUME NEW w \in Uuid, w # u  PROVE Existing(w)' = Existing(w)
  BY <1>1, <1>2 DEF Existing
<1>3. CASE state = "absent"
  <2>1. Existing(u)' = Existing(u) \ S
    BY <1>1, <1>3 DEF Existing
  <2>. QED  BY <1>1, <1>2, <1>3, <2>1
<1>4. CASE state # "absent"
  <2>1. Existing(u)' = Existing(u) \cup S
    BY <1>1, <1>4 DEF Existing
  <2>. QED  BY <1>1, <1>2, <1>4, <2>1
<1>. QED  BY <1>3, <1>4

LEMMA ExistingType == ASSUME NEW u \in Uuid PROVE Existing(u) \subseteq Service
  BY DEF Existing

\* Goroutines and exits change the state of containers, never which exist.
LEMMA UpExists ==
    ASSUME containers \in [Uuid -> [Service -> ContainerState]], NEW u \in Uuid
    PROVE  Up(u) \subseteq Existing(u)
  BY DEF Up, Existing, ContainerState

-----------------------------------------------------------------------------
(* Beginning an operation, enabling and disabling.                         *)

\* All variables of an invariant but those of the operation.
LEMMA BeginInv ==
    ASSUME Inv, NEW c \in Call, NEW first, Begin(c, first),
           \/ c.kind = "create" /\ first = "writeRow" /\ row = NoRow
                 /\ c.enabled = FALSE
           \/ c.kind \in {"update", "recreate"} /\ first = "stop" /\ row # NoRow
                 /\ c.id = row.id /\ c.enabled = row.enabled
           \/ c.kind = "delete" /\ first = "removeContainers" /\ row # NoRow
                 /\ c.id = row.id /\ c.enabled = row.enabled
    PROVE  Inv'
<1>. USE DEF Inv, Begin, engine, services, monitor, history
<1>0. \A u \in Uuid : Existing(u)' = Existing(u)
  BY DEF Existing
<1>1. TypeOK'
  BY DEF TypeOK, Step, Call
<1>2. CallInv'
  BY DEF CallInv, Before, After, Deleting
<1>3. ContainersInv'
  <2>1. row = NoRow => Bare
    BY DEF ContainersInv, Bare
  <2>2. first = "writeRow" => Bare'
    BY <1>0, <2>1 DEF Bare
  <2>. QED  BY <1>0, <2>2 DEF ContainersInv, Deleting
<1>4. DirsInv' /\ EndpointsInv'
  BY DEF DirsInv, EndpointsInv, Deleting
<1>5. MountsInv' /\ VolumesInv'
  BY DEF MountsInv, MountsAreAccounted, VolumesInv, Deleting
<1>6. EnabledInv'
  BY DEF EnabledInv, EnabledAsWanted, Before
<1>7. ProgressInv'
  BY DEF ProgressInv, SuccessIsComplete
<1>. QED  BY <1>1, <1>2, <1>3, <1>4, <1>5, <1>6, <1>7

LEMMA CreateInv ==
    ASSUME Inv, NEW u \in Uuid, NEW v \in Version,
           Create(u, v) \/ Update(u, v) \/ Recreate(u) \/ Delete
    PROVE  Inv'
<1>. row # NoRow => row \in Row
  BY DEF Inv, TypeOK
<1>1. CASE Create(u, v)
  BY <1>1, BeginInv DEF Create, Call
<1>2. CASE Update(u, v)
  BY <1>2, BeginInv DEF Update, Call, Row
<1>3. CASE Recreate(u)
  BY <1>3, BeginInv DEF Recreate, Call, Row
<1>4. CASE Delete
  BY <1>4, BeginInv DEF Delete, Call, Row
<1>. QED  BY <1>1, <1>2, <1>3, <1>4

LEMMA EnableInv == ASSUME Inv, Enable \/ Disable PROVE Inv'
<1>. PICK state \in BOOLEAN : pc = "idle" /\ SetEnabled(state)
  BY DEF Enable, Disable
<1>. USE DEF Inv, SetEnabled, engine, services, monitor, history
<1>0. /\ row' \in Row /\ row' # NoRow
      /\ row'.id = row.id /\ row'.version = row.version
      /\ row'.names = row.names /\ row'.dir = row.dir
      /\ row'.enabled = state
  BY NothingAssumption DEF TypeOK, Row
<1>1. \A u \in Uuid : Existing(u)' = Existing(u)
  BY DEF Existing
<1>. HIDE DEF SetEnabled
<1>2. /\ wanted' = state
      /\ UNCHANGED <<pc, call, used, containers, volumes, dirs, mounts,
                     endpoints, seen, jobs, faults, lateMounts, strayVolumes>>
  BY DEF SetEnabled
<1>3. row # NoRow
  BY DEF SetEnabled
<1>4. TypeOK'
  BY <1>0, <1>2 DEF TypeOK
<1>5. CallInv' /\ DirsInv' /\ EndpointsInv'
  BY <1>0, <1>2, <1>3 DEF CallInv, DirsInv, EndpointsInv, Before, After, Deleting
<1>6. ContainersInv'
  BY <1>0, <1>1, <1>2, <1>3 DEF ContainersInv, Deleting
<1>7. MountsInv' /\ VolumesInv'
  BY <1>0, <1>2, <1>3 DEF MountsInv, MountsAreAccounted, VolumesInv, Deleting
<1>8. EnabledInv' /\ ProgressInv'
  BY <1>0, <1>2 DEF EnabledInv, EnabledAsWanted, Before, ProgressInv,
                    SuccessIsComplete
<1>. QED  BY <1>4, <1>5, <1>6, <1>7, <1>8

-----------------------------------------------------------------------------
(* The steps of an operation.                                              *)

LEMMA StepType ==
    ASSUME TypeOK, NEW next \in Step, Goto(next) \/ Stop(next)
    PROVE  /\ pc' = next
           /\ faults' \in 0..MaxFaults
           /\ UNCHANGED <<call, used, seen, jobs, lateMounts>>
<1>1. /\ pc' = next
      /\ UNCHANGED <<call, used, seen, jobs, lateMounts>>
      /\ Fault \/ NoFault
  BY DEF Goto, Stop, monitor
<1>2. faults' \in 0..MaxFaults
  <2>1. faults \in 0..MaxFaults
    BY DEF TypeOK
  <2>. QED  BY <1>1, <2>1, DeploymentsAssumption DEF Fault, NoFault
<1>. QED  BY <1>1, <1>2

LEMMA StopContainersInv ==
    ASSUME Inv, StopContainers \/ StopContainersFails
    PROVE  Inv'
<1>1. row # NoRow /\ row \in Row /\ call \in Call
  BY DEF Inv, TypeOK, CallInv, Before, StopContainers, StopContainersFails
<1>2. PICK S \in SUBSET Existing(row.names), next \in {"removeContainers", "failed"} :
         /\ pc = "stop"
         /\ containers' = Set(row.names, S, "stopped")
         /\ Goto(next) \/ Stop(next)
  BY DEF StopContainers, StopContainersFails
<1>3. UNCHANGED <<row, wanted, volumes, dirs, mounts, endpoints, strayVolumes>>
  BY DEF StopContainers, StopContainersFails, services
<1>4. /\ pc' = next
      /\ faults' \in 0..MaxFaults
      /\ UNCHANGED <<call, used, seen, jobs, lateMounts>>
  BY <1>2, StepType DEF Inv, Step
<1>5. /\ containers' \in [Uuid -> [Service -> ContainerState]]
      /\ \A u \in Uuid : Existing(u)' = Existing(u)
  <2>1. S \in SUBSET Service /\ row.names \in Uuid
    BY <1>1, ExistingType DEF Row
  <2>2. /\ containers' \in [Uuid -> [Service -> ContainerState]]
        /\ \A u \in Uuid : Existing(u)' =
              IF u = row.names THEN Existing(u) \cup S ELSE Existing(u)
    BY <1>2, <2>1, SetExisting DEF Inv, TypeOK, ContainerState
  <2>. QED  BY <2>2
<1>. USE <1>1, <1>2, <1>3, <1>4 DEF Inv
<1>6. TypeOK'
  BY <1>5 DEF TypeOK, Step
<1>7. CallInv' /\ DirsInv' /\ EndpointsInv'
  BY DEF CallInv, DirsInv, EndpointsInv, Before, After, Deleting
<1>8. ContainersInv'
  BY <1>5 DEF ContainersInv, Deleting
<1>9. MountsInv' /\ VolumesInv' /\ EnabledInv' /\ ProgressInv'
  BY DEF MountsInv, MountsAreAccounted, VolumesInv, EnabledInv,
         EnabledAsWanted, ProgressInv, SuccessIsComplete, Before, Deleting
<1>. QED  BY <1>6, <1>7, <1>8, <1>9

LEMMA RemoveContainersInv ==
    ASSUME Inv, RemoveContainers \/ RemoveContainersFails
    PROVE  Inv'
<1>1. row # NoRow /\ row \in Row /\ call \in Call
  BY DEF Inv, TypeOK, CallInv, Before, RemoveContainers, RemoveContainersFails
<1>2. PICK S \in SUBSET Service, next \in {"cleanMounts", "failed"} :
         /\ pc = "removeContainers"
         /\ containers' = Set(row.names, S, "absent")
         /\ next = "cleanMounts" => S = Service
         /\ Goto(next) \/ Stop(next)
  BY DEF RemoveContainers, RemoveContainersFails
<1>3. UNCHANGED <<row, wanted, volumes, dirs, mounts, endpoints, strayVolumes>>
  BY DEF RemoveContainers, RemoveContainersFails, services
<1>4. /\ pc' = next
      /\ faults' \in 0..MaxFaults
      /\ UNCHANGED <<call, used, seen, jobs, lateMounts>>
  BY <1>2, StepType DEF Inv, Step
<1>5. /\ containers' \in [Uuid -> [Service -> ContainerState]]
      /\ \A u \in Uuid : Existing(u)' =
            IF u = row.names THEN Existing(u) \ S ELSE Existing(u)
  BY <1>1, <1>2, SetExisting DEF Inv, TypeOK, Row, ContainerState
<1>. USE <1>1, <1>2, <1>3, <1>4 DEF Inv
<1>6. TypeOK'
  BY <1>5 DEF TypeOK, Step
<1>7. CallInv' /\ DirsInv' /\ EndpointsInv'
  BY DEF CallInv, DirsInv, EndpointsInv, Before, After, Deleting
<1>8. ContainersInv'
  <2>1. \A u \in Uuid : Existing(u)' \subseteq Existing(u)
    BY <1>5
  <2>2. next = "cleanMounts" => Bare'
    BY <1>5, ExistingType DEF ContainersInv, Bare
  <2>. QED  BY <2>1, <2>2 DEF ContainersInv, Deleting
<1>9. MountsInv' /\ VolumesInv' /\ EnabledInv' /\ ProgressInv'
  BY DEF MountsInv, MountsAreAccounted, VolumesInv, EnabledInv,
         EnabledAsWanted, ProgressInv, SuccessIsComplete, Before, Deleting
<1>. QED  BY <1>6, <1>7, <1>8, <1>9

LEMMA CreateContainersInv ==
    ASSUME Inv, CreateContainers \/ CreateContainersFails
    PROVE  Inv'
<1>1. /\ row # NoRow /\ row \in Row /\ call \in Call
      /\ ServicesOf[call.version] \subseteq Service
      /\ row.version = call.version /\ row.names = call.names
  BY DeploymentsAssumption
  DEF Inv, TypeOK, CallInv, After, Call, CreateContainers, CreateContainersFails
<1>2. PICK S \in SUBSET ServicesOf[call.version], next \in {"endpoints", "failed"} :
         /\ pc = "containers"
         /\ containers' = Set(call.names, S, "stopped")
         /\ next = "endpoints" => S = ServicesOf[call.version]
         /\ Goto(next) \/ Stop(next)
  BY DEF CreateContainers, CreateContainersFails
<1>3. UNCHANGED <<row, wanted, volumes, dirs, mounts, endpoints, strayVolumes>>
  BY DEF CreateContainers, CreateContainersFails, services
<1>4. /\ pc' = next
      /\ faults' \in 0..MaxFaults
      /\ UNCHANGED <<call, used, seen, jobs, lateMounts>>
  BY <1>2, StepType DEF Inv, Step
<1>5. /\ containers' \in [Uuid -> [Service -> ContainerState]]
      /\ \A u \in Uuid : Existing(u)' =
            IF u = call.names THEN Existing(u) \cup S ELSE Existing(u)
  BY <1>1, <1>2, SetExisting DEF Inv, TypeOK, Call, ContainerState
<1>. USE <1>1, <1>2, <1>3, <1>4 DEF Inv
<1>6. TypeOK'
  BY <1>5 DEF TypeOK, Step
<1>7. CallInv' /\ DirsInv' /\ EndpointsInv'
  BY DEF CallInv, DirsInv, EndpointsInv, Before, After, Deleting
<1>8. ContainersInv'
  <2>1. Bare
    BY DEF ContainersInv
  <2>. QED  BY <1>5, <2>1 DEF ContainersInv, Bare, Deleting
<1>9. MountsInv' /\ VolumesInv' /\ EnabledInv'
  BY DEF MountsInv, MountsAreAccounted, VolumesInv, EnabledInv,
         EnabledAsWanted, Before, Deleting
<1>10. ProgressInv'
  <2>1. next = "endpoints" =>
           ServicesOf[call.version] \subseteq Existing(call.names)'
    BY <1>5 DEF Call
  <2>2. Needed(call.version)' = Needed(call.version)
    BY DEF Needed
  <2>. QED  BY <2>1, <2>2 DEF ProgressInv, SuccessIsComplete
<1>. QED  BY <1>6, <1>7, <1>8, <1>9, <1>10

\* The steps that touch only secret mounts and directories.
LEMMA MountsStepInv ==
    ASSUME Inv, CleanMounts \/ CreateMounts \/ CreateMountsFails
    PROVE  Inv'
<1>1. call \in Call
  BY DEF Inv, TypeOK, CleanMounts, CreateMounts, CreateMountsFails
<1>2. PICK m \in {"none", "created", "loaded"}, next \in Step :
         /\ mounts' = [mounts EXCEPT ![call.id] = m]
         /\ Goto(next) \/ Stop(next)
         /\ \/ pc = "cleanMounts" /\ next = "removeDirs" /\ m = "none"
            \/ pc = "mounts" /\ next = "containers" /\ m = "created"
            \/ pc = "mounts" /\ next = "failed"
  BY <1>1 DEF CleanMounts, CreateMounts, CreateMountsFails, Step, Inv, TypeOK, Call
<1>3. UNCHANGED <<row, wanted, containers, volumes, dirs, endpoints, strayVolumes>>
  BY DEF CleanMounts, CreateMounts, CreateMountsFails, engine
<1>4. /\ pc' = next
      /\ faults' \in 0..MaxFaults
      /\ UNCHANGED <<call, used, seen, jobs, lateMounts>>
  BY <1>2, StepType DEF Inv
<1>5. \A u \in Uuid : Existing(u)' = Existing(u)
  BY <1>3 DEF Existing
<1>6. /\ call.id \in Uuid
      /\ mounts' \in [Uuid -> {"none", "created", "loaded"}]
      /\ \A i \in Uuid : mounts'[i] = IF i = call.id THEN m ELSE mounts[i]
  BY <1>1, <1>2 DEF Inv, TypeOK, Call
<1>. USE <1>1, <1>3, <1>4 DEF Inv
<1>7. TypeOK'
  BY <1>2, <1>6 DEF TypeOK, Step
<1>8. CallInv' /\ DirsInv' /\ EndpointsInv' /\ VolumesInv' /\ EnabledInv'
  BY <1>2 DEF CallInv, DirsInv, EndpointsInv, VolumesInv, EnabledInv,
              EnabledAsWanted, Before, After, Deleting
<1>9. ContainersInv'
  BY <1>2, <1>5 DEF ContainersInv, Bare, Deleting
<1>10. MountsInv'
  <2>1. row # NoRow /\ row.id = call.id
    BY <1>2 DEF CallInv, Before, After
  <2>. QED  BY <1>2, <1>6, <2>1 DEF MountsInv, MountsAreAccounted, Deleting
<1>11. ProgressInv'
  <2>1. Needed(call.version)' = Needed(call.version)
    BY DEF Needed
  <2>. QED  BY <1>2, <1>6, <2>1 DEF ProgressInv, SuccessIsComplete
<1>. QED  BY <1>7, <1>8, <1>9, <1>10, <1>11

LEMMA DirsStepInv ==
    ASSUME Inv, RemoveDirs \/ CreateDirs \/ CreateDirsFails
    PROVE  Inv'
<1>1. call \in Call
  BY DEF Inv, TypeOK, RemoveDirs, CreateDirs, CreateDirsFails
<1>2. PICK next \in Step :
         /\ Goto(next) \/ Stop(next)
         /\ \/ /\ pc = "removeDirs"
               /\ next = IF call.kind = "delete" THEN "removeVolumes" ELSE "writeRow"
               /\ dirs' = dirs \ {row.dir}
            \/ pc = "dirs" /\ next = "mounts" /\ dirs' = dirs \cup {call.dir}
            \/ pc = "dirs" /\ next = "failed" /\ dirs' \subseteq dirs \cup {call.dir}
  BY DEF RemoveDirs, CreateDirs, CreateDirsFails, Step
<1>3. UNCHANGED <<row, wanted, containers, volumes, mounts, endpoints, strayVolumes>>
  BY DEF RemoveDirs, CreateDirs, CreateDirsFails, engine
<1>4. /\ pc' = next
      /\ faults' \in 0..MaxFaults
      /\ UNCHANGED <<call, used, seen, jobs, lateMounts>>
  BY <1>2, StepType DEF Inv
<1>5. \A u \in Uuid : Existing(u)' = Existing(u)
  BY <1>3 DEF Existing
<1>. USE <1>1, <1>2, <1>3, <1>4 DEF Inv
<1>7. TypeOK'
  BY DEF TypeOK, Call
<1>8. /\ CallInv' /\ EndpointsInv' /\ VolumesInv'
      /\ EnabledInv'
  <2>1. CallInv' /\ EndpointsInv' /\ VolumesInv'
    BY DEF CallInv, EndpointsInv, VolumesInv, Before, After, Deleting
  <2>2. EnabledInv'
    <3>1. next \in Before \cup {"writeRow"} => pc = "removeDirs"
      BY DEF Before
    <3>. QED  BY <3>1 DEF EnabledInv, EnabledAsWanted, Before
  <2>. QED  BY <2>1, <2>2
<1>9. ContainersInv' /\ MountsInv'
  BY <1>5 DEF ContainersInv, Bare, MountsInv, MountsAreAccounted, Deleting
<1>10. DirsInv'
  BY DEF DirsInv, CallInv, After, Deleting
<1>11. ProgressInv'
  <2>1. Needed(call.version)' = Needed(call.version)
    BY DEF Needed
  <2>. QED  BY <2>1 DEF ProgressInv, SuccessIsComplete
<1>. QED  BY <1>7, <1>8, <1>9, <1>10, <1>11

LEMMA WriteRowInv == ASSUME Inv, WriteRow PROVE Inv'
<1>1. call \in Call /\ pc = "writeRow"
  BY DEF Inv, TypeOK, WriteRow
<1>2. /\ row' \in Row /\ row' # NoRow
      /\ row'.id = call.id /\ row'.version = call.version
      /\ row'.names = call.names /\ row'.dir = call.dir
      /\ row'.enabled = call.enabled
  BY <1>1, NothingAssumption DEF WriteRow, Row, Call
<1>3. /\ UNCHANGED <<containers, volumes, dirs, mounts, endpoints, strayVolumes>>
      /\ wanted' = IF call.kind = "create" THEN FALSE ELSE wanted
  BY DEF WriteRow, engine, services
<1>4. /\ pc' = "volumes"
      /\ faults' \in 0..MaxFaults
      /\ UNCHANGED <<call, used, seen, jobs, lateMounts>>
  BY StepType DEF Inv, WriteRow, Step
<1>5. \A u \in Uuid : Existing(u)' = Existing(u)
  BY <1>3 DEF Existing
<1>. USE <1>1, <1>2, <1>3, <1>4 DEF Inv
<1>6. row # NoRow => row.id = call.id
  BY DEF CallInv
<1>7. TypeOK'
  BY DEF TypeOK, Step
<1>8. CallInv' /\ DirsInv' /\ EndpointsInv'
  BY <1>6 DEF CallInv, DirsInv, EndpointsInv, Before, After, Deleting
<1>9. ContainersInv'
  BY <1>5 DEF ContainersInv, Bare, Deleting
<1>10. MountsInv' /\ VolumesInv'
  BY <1>6 DEF MountsInv, MountsAreAccounted, VolumesInv, Deleting
<1>11. EnabledInv'
  <2>1. call.enabled = wanted'
    BY DEF EnabledInv, EnabledAsWanted, CallInv
  <2>. QED  BY <2>1 DEF EnabledInv, EnabledAsWanted, Before
<1>12. ProgressInv'
  BY DEF ProgressInv, SuccessIsComplete
<1>. QED  BY <1>7, <1>8, <1>9, <1>10, <1>11, <1>12

\* The volumes that EnsureVolumes and its failures leave.
LEMMA EnsureVolumesInv ==
    ASSUME Inv, EnsureVolumes \/ EnsureVolumesFails
    PROVE  Inv'
<1>1. /\ call \in Call
      /\ pc = "volumes"
      /\ Needed(call.version) \subseteq Uuid \X Volume
      /\ row # NoRow /\ row.id = call.id /\ row.version = call.version
  BY DeploymentsAssumption
  DEF Inv, TypeOK, Call, CallInv, After, Needed, EnsureVolumes, EnsureVolumesFails
<1>2. PICK next \in {"dirs", "failed"} :
         /\ Goto(next) \/ Stop(next)
         /\ volumes' \subseteq volumes \cup Needed(call.version)
         /\ strayVolumes' \subseteq strayVolumes \cup volumes'
         /\ \A x \in volumes' \ strayVolumes' :
               x \in strayVolumes => x \in Needed(call.version)
         /\ \A x \in volumes' \ strayVolumes' :
               x[1] = call.id => x \in Needed(call.version)
         /\ next = "dirs" => Needed(call.version) \subseteq volumes'
  <2>1. CASE EnsureVolumes
    <3>. DEFINE N == Needed(call.version)
    <3>1. /\ volumes' = (volumes \ LabelledIn(volumes)) \cup N
          /\ strayVolumes' = strayVolumes \ LabelledIn(strayVolumes)
          /\ Goto("dirs")
      BY <2>1 DEF EnsureVolumes
    <3>. QED  BY <3>1 DEF LabelledIn
  <2>2. CASE EnsureVolumesFails
    <3>. DEFINE N == Needed(call.version)
    <3>1. PICK removed \in SUBSET (LabelledIn(volumes) \ N),
               created \in SUBSET (N \ volumes) :
             volumes' = (volumes \ removed) \cup created
      BY <2>2 DEF EnsureVolumesFails
    <3>2. /\ strayVolumes' = strayVolumes \cup (LabelledIn(volumes') \ N)
          /\ Stop("failed")
      BY <2>2 DEF EnsureVolumesFails
    <3>. QED  BY <3>1, <3>2 DEF LabelledIn
  <2>. QED  BY <2>1, <2>2
<1>3. UNCHANGED <<row, wanted, containers, dirs, mounts, endpoints>>
  BY DEF EnsureVolumes, EnsureVolumesFails, services
<1>4. /\ pc' = next
      /\ faults' \in 0..MaxFaults
      /\ UNCHANGED <<call, used, seen, jobs, lateMounts>>
  BY <1>2, StepType DEF Inv, Step
<1>5. \A u \in Uuid : Existing(u)' = Existing(u)
  BY <1>3 DEF Existing
<1>6. volumes' \in SUBSET (Uuid \X Volume) /\ strayVolumes' \in SUBSET (Uuid \X Volume)
  BY <1>1, <1>2 DEF Inv, TypeOK
<1>. USE <1>1, <1>3, <1>4 DEF Inv
<1>7. TypeOK'
  BY <1>6 DEF TypeOK, Step
<1>8. CallInv' /\ DirsInv' /\ EndpointsInv'
  BY DEF CallInv, DirsInv, EndpointsInv, Before, After, Deleting
<1>9. ContainersInv' /\ MountsInv'
  BY <1>5 DEF ContainersInv, Bare, MountsInv, MountsAreAccounted, Deleting
<1>10. VolumesInv'
  <2>1. ASSUME NEW x \in volumes', x \notin strayVolumes'
        PROVE  x[1] = row.id /\ x[2] \in VolumesOf[row.version]
    <3>1. x \in Needed(call.version) => x[1] = row.id /\ x[2] \in VolumesOf[row.version]
      BY DEF Needed
    <3>2. x \notin Needed(call.version) => x \in volumes /\ x \notin strayVolumes
      BY <1>2, <2>1
    <3>3. x \notin Needed(call.version) => x[1] = call.id
      BY <3>2 DEF VolumesInv
    <3>. QED  BY <1>2, <2>1, <3>1, <3>3
  <2>. QED  BY <2>1 DEF VolumesInv
<1>11. EnabledInv'
  BY DEF EnabledInv, EnabledAsWanted, Before
<1>12. ProgressInv'
  <2>1. Needed(call.version)' = Needed(call.version)
    BY DEF Needed
  <2>. QED  BY <1>2, <2>1 DEF ProgressInv, SuccessIsComplete
<1>. QED  BY <1>7, <1>8, <1>9, <1>10, <1>11, <1>12

LEMMA RemoveVolumesInv ==
    ASSUME Inv, RemoveVolumes \/ RemoveVolumesFails
    PROVE  Inv'
<1>1. call \in Call /\ pc = "removeVolumes" /\ row # NoRow /\ call.id = row.id
  BY DEF Inv, TypeOK, CallInv, Deleting, RemoveVolumes, RemoveVolumesFails
<1>2. PICK next \in {"removeEndpoints", "failed"} :
         /\ Goto(next) \/ Stop(next)
         /\ volumes' \subseteq volumes
         /\ next = "removeEndpoints" => volumes' = volumes \ Needed(row.version)
  BY DEF RemoveVolumes, RemoveVolumesFails
<1>3. UNCHANGED <<row, wanted, containers, dirs, mounts, endpoints, strayVolumes>>
  BY DEF RemoveVolumes, RemoveVolumesFails, services
<1>4. /\ pc' = next
      /\ faults' \in 0..MaxFaults
      /\ UNCHANGED <<call, used, seen, jobs, lateMounts>>
  BY <1>2, StepType DEF Inv, Step
<1>5. \A u \in Uuid : Existing(u)' = Existing(u)
  BY <1>3 DEF Existing
<1>. USE <1>1, <1>2, <1>3, <1>4 DEF Inv
<1>7. TypeOK'
  BY DEF TypeOK, Step
<1>8. CallInv' /\ DirsInv' /\ EndpointsInv'
  BY DEF CallInv, DirsInv, EndpointsInv, Before, After, Deleting
<1>9. ContainersInv' /\ MountsInv'
  BY <1>5 DEF ContainersInv, Bare, MountsInv, MountsAreAccounted, Deleting
<1>10. VolumesInv'
  <2>1. next = "removeEndpoints" => volumes' \subseteq strayVolumes
    <3>1. ASSUME NEW x \in volumes, x \notin strayVolumes
          PROVE  x \in Needed(row.version)
      <4>1. x[1] = row.id /\ x[2] \in VolumesOf[row.version]
        BY <3>1 DEF VolumesInv
      <4>2. x = <<x[1], x[2]>>
        BY <3>1 DEF TypeOK
      <4>. QED  BY <4>1, <4>2 DEF Needed
    <3>. QED  BY <3>1
  <2>. QED  BY <2>1 DEF VolumesInv
<1>11. EnabledInv' /\ ProgressInv'
  BY DEF EnabledInv, EnabledAsWanted, Before, ProgressInv, SuccessIsComplete
<1>. QED  BY <1>7, <1>8, <1>9, <1>10, <1>11

LEMMA EndpointsStepInv ==
    ASSUME Inv, \/ CreateEndpoints \/ CreateEndpointsFails
                \/ RemoveEndpoints \/ RemoveEndpointsFails
    PROVE  Inv'
<1>1. /\ call \in Call /\ row # NoRow /\ call.id = row.id
      /\ pc \in {"endpoints", "removeEndpoints"}
  BY DEF Inv, TypeOK, CallInv, After, Deleting, CreateEndpoints,
         CreateEndpointsFails, RemoveEndpoints, RemoveEndpointsFails
<1>. DEFINE New == {call.id} \X ServicesOf[call.version]
<1>2. PICK next \in {"ok", "failed", "deleteRow"} :
         /\ Goto(next) \/ Stop(next)
         /\ endpoints' \subseteq endpoints \cup New
         /\ next = "ok" => pc = "endpoints" /\ New \subseteq endpoints'
         /\ next = "deleteRow" => /\ pc = "removeEndpoints"
                                  /\ endpoints' = {e \in endpoints : e[1] # call.id}
  BY DEF CreateEndpoints, CreateEndpointsFails, RemoveEndpoints,
         RemoveEndpointsFails
<1>3. UNCHANGED <<row, wanted, containers, volumes, dirs, mounts, strayVolumes>>
  BY DEF CreateEndpoints, CreateEndpointsFails, RemoveEndpoints,
         RemoveEndpointsFails, engine
<1>4. /\ pc' = next
      /\ faults' \in 0..MaxFaults
      /\ UNCHANGED <<call, used, seen, jobs, lateMounts>>
  BY <1>2, StepType DEF Inv, Step
<1>5. \A u \in Uuid : Existing(u)' = Existing(u)
  BY <1>3 DEF Existing
<1>6. endpoints' \in SUBSET (Uuid \X Service) /\ \A e \in New : e[1] = row.id
  BY <1>1, <1>2, DeploymentsAssumption DEF Inv, TypeOK, Call
<1>. USE <1>1, <1>3, <1>4 DEF Inv
<1>. HIDE DEF New
<1>7. TypeOK'
  BY <1>6 DEF TypeOK, Step
<1>8. CallInv' /\ DirsInv' /\ VolumesInv'
  BY <1>2 DEF CallInv, DirsInv, VolumesInv, Before, After, Deleting
<1>9. ContainersInv' /\ MountsInv'
  BY <1>2, <1>5 DEF ContainersInv, Bare, MountsInv, MountsAreAccounted, Deleting
<1>10. EndpointsInv'
  BY <1>2, <1>6 DEF EndpointsInv
<1>11. EnabledInv'
  BY DEF EnabledInv, EnabledAsWanted, Before
<1>12. ProgressInv'
  <2>1. ASSUME next = "ok"
        PROVE  /\ row.version = call.version /\ row.names = call.names
               /\ row.dir = call.dir /\ row.names \in Uuid
               /\ Needed(call.version) \subseteq volumes
               /\ call.dir \in dirs
               /\ mounts[call.id] # "none" \/ call.interfered
               /\ ServicesOf[call.version] \subseteq Existing(call.names)
    BY <1>2, <2>1 DEF CallInv, After, ProgressInv, Call
  <2>2. next = "ok" => SuccessIsComplete'
    BY <1>2, <1>5, <2>1 DEF SuccessIsComplete, Complete, Needed, New
  <2>. QED  BY <1>2, <2>2 DEF ProgressInv, SuccessIsComplete
<1>. QED  BY <1>7, <1>8, <1>9, <1>10, <1>11, <1>12

LEMMA DeleteRowInv == ASSUME Inv, DeleteRow PROVE Inv'
<1>1. /\ call \in Call /\ pc = "deleteRow" /\ row # NoRow
      /\ call.id = row.id /\ call.kind = "delete" /\ row' = NoRow
  BY DEF Inv, TypeOK, CallInv, Deleting, DeleteRow
<1>3. UNCHANGED <<wanted, containers, volumes, dirs, mounts, endpoints, strayVolumes>>
  BY DEF DeleteRow, engine, services
<1>4. /\ pc' = "ok"
      /\ faults' \in 0..MaxFaults
      /\ UNCHANGED <<call, used, seen, jobs, lateMounts>>
  BY StepType DEF Inv, DeleteRow, Step
<1>5. \A u \in Uuid : Existing(u)' = {}
  BY <1>1, <1>3 DEF Inv, ContainersInv, Bare, Deleting, Existing
<1>. USE <1>1, <1>3, <1>4 DEF Inv
<1>7. TypeOK'
  BY DEF TypeOK, Step
<1>8. CallInv' /\ DirsInv' /\ EndpointsInv' /\ VolumesInv'
  BY DEF CallInv, DirsInv, EndpointsInv, VolumesInv, Before, After, Deleting
<1>9. ContainersInv'
  BY <1>5 DEF ContainersInv, Deleting
<1>10. MountsInv'
  BY DEF MountsInv, MountsAreAccounted, Deleting
<1>11. EnabledInv' /\ ProgressInv'
  BY DEF EnabledInv, EnabledAsWanted, Before, ProgressInv, SuccessIsComplete
<1>. QED  BY <1>7, <1>8, <1>9, <1>10, <1>11

\* A step that changes nothing but where the operation is.
LEMMA StandstillInv ==
    ASSUME Inv, FailsWithoutEffect \/ Return
    PROVE  Inv'
<1>1. /\ call \in Call /\ pc # "idle"
      /\ UNCHANGED <<row, wanted, containers, volumes, dirs, mounts, endpoints,
                     used, seen, jobs, lateMounts, strayVolumes>>
      /\ faults' \in 0..MaxFaults
      /\ \/ pc' = "failed" /\ call' = call
         \/ pc' = "idle" /\ call' = NoCall
  <2>1. CASE FailsWithoutEffect
    <3>1. Stop("failed") /\ pc # "idle"
      BY <2>1 DEF FailsWithoutEffect
    <3>2. pc' = "failed" /\ faults' \in 0..MaxFaults
          /\ UNCHANGED <<call, used, seen, jobs, lateMounts>>
      BY <3>1, StepType DEF Inv, Step
    <3>. QED  BY <2>1, <3>1, <3>2
              DEF FailsWithoutEffect, engine, services, Inv, TypeOK
  <2>2. CASE Return
    BY <2>2 DEF Return, engine, services, monitor, history, Inv, TypeOK
  <2>. QED  BY <2>1, <2>2
<1>5. \A u \in Uuid : Existing(u)' = Existing(u)
  BY <1>1 DEF Existing
<1>6. pc' \in {"idle", "failed"}
  BY <1>1
<1>. USE <1>1 DEF Inv
<1>7. TypeOK'
  BY DEF TypeOK, Step
<1>8. CallInv' /\ DirsInv' /\ EndpointsInv'
  BY <1>6 DEF CallInv, DirsInv, EndpointsInv, Before, After, Deleting
<1>10. VolumesInv'
  <2>1. pc # "volumes"
    BY DEF FailsWithoutEffect, Return
  <2>. QED  BY <1>6, <2>1 DEF VolumesInv
<1>9. ContainersInv' /\ MountsInv'
  BY <1>5 DEF ContainersInv, MountsInv, MountsAreAccounted, Deleting
<1>11. EnabledInv' /\ ProgressInv'
  BY DEF EnabledInv, EnabledAsWanted, Before, ProgressInv, SuccessIsComplete
<1>. QED  BY <1>7, <1>8, <1>9, <1>10, <1>11

LEMMA OperationInv == ASSUME Inv, Operation PROVE Inv'
  BY StopContainersInv, RemoveContainersInv, CreateContainersInv, MountsStepInv,
     DirsStepInv, WriteRowInv, EnsureVolumesInv, RemoveVolumesInv,
     EndpointsStepInv, DeleteRowInv, StandstillInv
  DEF Operation

-----------------------------------------------------------------------------
(* The monitor and the surroundings.                                       *)

LEMMA FaultType ==
    ASSUME TypeOK, Fault \/ NoFault PROVE faults' \in 0..MaxFaults
<1>1. faults \in 0..MaxFaults
  BY DEF TypeOK
<1>. QED  BY <1>1, DeploymentsAssumption DEF Fault, NoFault

LEMMA MonitorReadInv ==
    ASSUME Inv, Decide \/ \E others \in BOOLEAN : Look(others)
    PROVE  Inv'
<1>1. UNCHANGED <<row, wanted, pc, call, used, containers, volumes, dirs, mounts,
                  endpoints, faults, lateMounts, strayVolumes>>
  BY DEF Decide, Look, handler, engine, services, history
<1>2. seen' \in Seen \cup {NotSeen} /\ jobs' \in [Uuid -> Job \cup {NoJob}]
  <2>1. CASE Decide
    BY <2>1 DEF Decide, Inv, TypeOK, Seen
  <2>2. ASSUME NEW others \in BOOLEAN, Look(others)
        PROVE  seen' \in Seen /\ jobs' = jobs
    <3>1. row \in Row /\ jobs' = jobs
      BY <2>2 DEF Look, Inv, TypeOK
    <3>2. PICK kind \in ToDo(row) :
             seen' = [id |-> row.id,
                      job |-> [kind |-> kind, step |-> "secrets",
                               names |-> row.names,
                               todo |-> ServicesOf[row.version],
                               secrets |-> row.enabled \/ ~ others,
                               failed |-> FALSE]]
      BY <2>2 DEF Look
    <3>3. kind \in {"start", "stop"}
      BY <3>2 DEF ToDo
    <3>4. /\ row.id \in Uuid /\ row.names \in Uuid
          /\ ServicesOf[row.version] \in SUBSET Service
      BY <3>1, DeploymentsAssumption DEF Row
    <3>5. (row.enabled \/ ~ others) \in BOOLEAN
      OBVIOUS
    <3>. QED  BY <3>1, <3>2, <3>3, <3>4, <3>5 DEF Seen, Job
  <2>. QED  BY <2>1, <2>2 DEF Inv, TypeOK
<1>3. \A u : Existing(u)' = Existing(u)
  BY <1>1 DEF Existing
<1>. USE <1>1, <1>2, <1>3 DEF Inv
<1>4. TypeOK'
  BY DEF TypeOK
<1>5. CallInv' /\ DirsInv' /\ EndpointsInv' /\ VolumesInv'
  BY DEF CallInv, DirsInv, EndpointsInv, VolumesInv
<1>6. ContainersInv' /\ MountsInv' /\ EnabledInv'
  BY DEF ContainersInv, Bare, MountsInv, MountsAreAccounted, EnabledInv,
         EnabledAsWanted
<1>7. ProgressInv'
  BY DEF ProgressInv, SuccessIsComplete, Complete, Needed
<1>. QED  BY <1>4, <1>5, <1>6, <1>7

\* Changing the state of containers that exist keeps what exists.
LEMMA SetSame ==
    ASSUME TypeOK, NEW u \in Uuid, NEW S \in SUBSET Existing(u),
           NEW state \in ContainerState, state # "absent",
           containers' = Set(u, S, state)
    PROVE  /\ containers' \in [Uuid -> [Service -> ContainerState]]
           /\ \A w \in Uuid : Existing(w)' = Existing(w)
<1>1. S \in SUBSET Service
  BY ExistingType
<1>2. containers \in [Uuid -> [Service -> ContainerState]]
  BY DEF TypeOK
<1>3. /\ containers' \in [Uuid -> [Service -> ContainerState]]
      /\ \A w \in Uuid : Existing(w)' =
            IF w # u THEN Existing(w)
            ELSE IF state = "absent" THEN Existing(u) \ S
            ELSE Existing(u) \cup S
  BY <1>1, <1>2, SetExisting
<1>4. Existing(u) \cup S = Existing(u)
  OBVIOUS
<1>. QED  BY <1>3, <1>4

\* The record of a goroutine stays well-formed.
LEMMA JobType ==
    ASSUME TypeOK, NEW i \in Uuid, jobs[i] # NoJob
    PROVE  /\ jobs[i] \in Job
           /\ jobs[i].names \in Uuid /\ jobs[i].todo \in SUBSET Service
           /\ [jobs EXCEPT ![i] = NoJob] \in [Uuid -> Job \cup {NoJob}]
           /\ [jobs EXCEPT ![i].step = "containers"] \in [Uuid -> Job \cup {NoJob}]
           /\ \A s \in Service, failed \in BOOLEAN :
                 [jobs EXCEPT ![i].todo = @ \ {s}, ![i].failed = failed]
                    \in [Uuid -> Job \cup {NoJob}]
           /\ \A s \in Service :
                 [jobs EXCEPT ![i].todo = @ \ {s}] \in [Uuid -> Job \cup {NoJob}]
<1>1. jobs \in [Uuid -> Job \cup {NoJob}] /\ jobs[i] \in Job
  BY DEF TypeOK
<1>2. \A j \in Job \cup {NoJob} :
         [jobs EXCEPT ![i] = j] \in [Uuid -> Job \cup {NoJob}]
  BY <1>1
<1>3. [jobs[i] EXCEPT !.step = "containers"] \in Job
  BY <1>1 DEF Job
<1>4. \A s \in Service : [jobs[i] EXCEPT !.todo = @ \ {s}] \in Job
  BY <1>1 DEF Job
<1>5. \A s \in Service, failed \in BOOLEAN :
         [jobs[i] EXCEPT !.todo = @ \ {s}, !.failed = failed] \in Job
  BY <1>1 DEF Job
<1>6. jobs[i].names \in Uuid /\ jobs[i].todo \in SUBSET Service
  BY <1>1 DEF Job
<1>. QED  BY <1>1, <1>2, <1>3, <1>4, <1>5, <1>6

LEMMA EngineStepInv ==
    ASSUME Inv, NEW i \in Uuid,
           \/ EndStopJob(i)
           \/ \E s \in Service : \/ StartContainer(i, s)
                                 \/ ContainerExits(i, s) \/ HealthChanges(i, s)
    PROVE  Inv'
<1>. USE DEF Inv
<1>1. /\ UNCHANGED <<row, wanted, pc, call, used, volumes, dirs, mounts, endpoints,
                     seen, lateMounts, strayVolumes>>
      /\ Fault \/ NoFault
  BY DEF StartContainer, EndStopJob, ContainerExits, HealthChanges, handler,
         services, history, monitor
<1>2. /\ containers' \in [Uuid -> [Service -> ContainerState]]
      /\ \A u \in Uuid : Existing(u)' = Existing(u)
      /\ jobs' \in [Uuid -> Job \cup {NoJob}]
  <2>1. ASSUME NEW s \in Service, StartContainer(i, s)
        PROVE  /\ containers' \in [Uuid -> [Service -> ContainerState]]
               /\ \A u \in Uuid : Existing(u)' = Existing(u)
               /\ jobs' \in [Uuid -> Job \cup {NoJob}]
    <3>1. jobs[i] # NoJob
      BY <2>1 DEF StartContainer
    <3>2. jobs' \in [Uuid -> Job \cup {NoJob}]
      <4>1. \/ jobs' = [jobs EXCEPT ![i].todo = @ \ {s}]
            \/ jobs' = [jobs EXCEPT ![i].todo = @ \ {s}, ![i].failed = TRUE]
        BY <2>1 DEF StartContainer
      <4>2. /\ [jobs EXCEPT ![i].todo = @ \ {s}] \in [Uuid -> Job \cup {NoJob}]
            /\ [jobs EXCEPT ![i].todo = @ \ {s}, ![i].failed = TRUE]
                  \in [Uuid -> Job \cup {NoJob}]
        BY <3>1, JobType
      <4>. QED  BY <4>1, <4>2
    <3>3. CASE UNCHANGED containers
      BY <3>2, <3>3 DEF TypeOK, Existing
    <3>4. CASE /\ containers[jobs[i].names][s] # "absent"
               /\ containers' = Set(jobs[i].names, {s} \ Up(jobs[i].names), "running")
      <4>1. {s} \ Up(jobs[i].names) \in SUBSET Existing(jobs[i].names)
        BY <3>4 DEF Existing
      <4>. QED  BY <3>1, <3>2, <3>4, <4>1, JobType, SetSame DEF ContainerState
    <3>. QED  BY <2>1, <3>3, <3>4 DEF StartContainer
  <2>2. CASE EndStopJob(i)
    <3>1. jobs[i] # NoJob /\ jobs' = [jobs EXCEPT ![i] = NoJob]
      BY <2>2 DEF EndStopJob
    <3>2. PICK S \in SUBSET Existing(jobs[i].names) :
             containers' = Set(jobs[i].names, S, "stopped")
      BY <2>2 DEF EndStopJob
    <3>. QED  BY <3>1, <3>2, JobType, SetSame DEF ContainerState
  <2>3. ASSUME NEW s \in Service, ContainerExits(i, s) \/ HealthChanges(i, s)
        PROVE  /\ containers' \in [Uuid -> [Service -> ContainerState]]
               /\ \A u \in Uuid : Existing(u)' = Existing(u)
               /\ jobs' \in [Uuid -> Job \cup {NoJob}]
    <3>1. jobs' = jobs
      BY <2>3 DEF ContainerExits, HealthChanges, monitor
    <3>2. {s} \in SUBSET Existing(i)
      BY <2>3, UpExists DEF ContainerExits, HealthChanges, TypeOK
    <3>3. PICK state \in {"stopped", "unhealthy", "running"} :
             containers' = Set(i, {s}, state)
      BY <2>3 DEF ContainerExits, HealthChanges
    <3>. QED  BY <3>1, <3>2, <3>3, SetSame DEF ContainerState, TypeOK
  <2>. QED  BY <2>1, <2>2, <2>3
<1>3. TypeOK'
  BY <1>1, <1>2, FaultType DEF TypeOK
<1>. USE <1>1, <1>2
<1>4. CallInv' /\ DirsInv' /\ EndpointsInv' /\ VolumesInv'
  BY DEF CallInv, DirsInv, EndpointsInv, VolumesInv
<1>5. ContainersInv' /\ MountsInv' /\ EnabledInv'
  BY DEF ContainersInv, Bare, MountsInv, MountsAreAccounted, EnabledInv,
         EnabledAsWanted
<1>6. ProgressInv'
  <2>1. pc \in {"ok", "endpoints"} => call \in Call
    BY DEF TypeOK
  <2>2. pc = "endpoints" => call.names \in Uuid
    BY <2>1 DEF Call
  <2>3. pc = "ok" /\ call.kind # "delete" => row.names \in Uuid
    BY DEF CallInv, TypeOK, Row
  <2>. QED  BY <2>2, <2>3 DEF ProgressInv, SuccessIsComplete, Complete, Needed
<1>. QED  BY <1>3, <1>4, <1>5, <1>6

LEMMA MountJobInv ==
    ASSUME Inv, NEW i \in Uuid,
           LoadSecrets(i) \/ EndStartJob(i) \/ UnloadSecrets(i)
    PROVE  Inv'
<1>. USE DEF Inv
<1>1. UNCHANGED <<row, wanted, pc, used, containers, volumes, dirs, endpoints,
                  seen, strayVolumes>>
  BY DEF LoadSecrets, EndStartJob, UnloadSecrets, handler, engine, history
<1>2. Fault \/ NoFault
  BY DEF LoadSecrets, EndStartJob, UnloadSecrets
<1>3. jobs' \in [Uuid -> Job \cup {NoJob}]
  <2>1. /\ jobs[i] # NoJob
        /\ \/ jobs' = [jobs EXCEPT ![i].step = "containers"]
           \/ jobs' = [jobs EXCEPT ![i] = NoJob]
    BY DEF LoadSecrets, EndStartJob, UnloadSecrets
  <2>2. /\ [jobs EXCEPT ![i].step = "containers"] \in [Uuid -> Job \cup {NoJob}]
        /\ [jobs EXCEPT ![i] = NoJob] \in [Uuid -> Job \cup {NoJob}]
    BY <2>1, JobType
  <2>. QED  BY <2>1, <2>2
<1>4. \/ UNCHANGED <<mounts, call, lateMounts>>
      \/ /\ mounts' = [mounts EXCEPT ![i] = "loaded"]
         /\ call' = call
         /\ lateMounts' = IF pc # "idle" \/ row = NoRow \/ row.id # i
                          THEN lateMounts \cup {i} ELSE lateMounts
      \/ /\ mounts' = [mounts EXCEPT ![i] = "none"]
         /\ call' = IF pc # "idle" /\ call.id = i
                    THEN [call EXCEPT !.interfered = TRUE] ELSE call
         /\ lateMounts' = lateMounts
  BY DEF LoadSecrets, EndStartJob, UnloadSecrets, handler, history
<1>5. /\ pc # "idle" => call \in Call /\ call' \in Call
      /\ pc = "idle" => call' = call
      /\ call'.kind = call.kind /\ call'.id = call.id
      /\ call'.version = call.version /\ call'.names = call.names
      /\ call'.dir = call.dir /\ call'.enabled = call.enabled
      /\ call.interfered => (pc # "idle" => call'.interfered)
  <2>1. CASE call' = call
    BY <2>1 DEF TypeOK
  <2>2. CASE call' # call
    <3>1. pc # "idle" /\ call' = [call EXCEPT !.interfered = TRUE]
      BY <1>4, <2>2
    <3>2. call \in Call
      BY <3>1 DEF TypeOK
    <3>. QED  BY <3>1, <3>2 DEF Call
  <2>. QED  BY <2>1, <2>2
<1>6. \A u : Existing(u)' = Existing(u)
  BY <1>1 DEF Existing
<1>7. /\ mounts' \in [Uuid -> {"none", "created", "loaded"}]
      /\ lateMounts' \in SUBSET Uuid
      /\ lateMounts \subseteq lateMounts'
      /\ \A u \in Uuid \ {i} : mounts'[u] = mounts[u]
      /\ mounts'[i] # "none" =>
            \/ mounts[i] # "none"
            \/ i \in lateMounts'
            \/ pc = "idle" /\ row # NoRow /\ row.id = i
      /\ mounts'[i] = "none" =>
            \/ mounts[i] = "none"
            \/ pc # "idle" /\ call.id = i => call'.interfered
  <2>1. call \in Call => [call EXCEPT !.interfered = TRUE].interfered
    BY DEF Call
  <2>2. pc # "idle" => call \in Call
    BY DEF TypeOK
  <2>. QED  BY <1>4, <2>1, <2>2 DEF TypeOK
<1>8. TypeOK'
  BY <1>1, <1>2, <1>3, <1>5, <1>7, FaultType DEF TypeOK
<1>9. CallInv' /\ DirsInv' /\ EndpointsInv' /\ VolumesInv' /\ EnabledInv'
  BY <1>1, <1>5 DEF CallInv, DirsInv, EndpointsInv, VolumesInv, EnabledInv,
                    EnabledAsWanted
<1>10. ContainersInv'
  BY <1>1, <1>6 DEF ContainersInv, Bare
<1>11. MountsInv'
  <2>1. MountsAreAccounted'
    BY <1>1, <1>7 DEF MountsInv, MountsAreAccounted
  <2>2. ASSUME pc \in Deleting \/ (pc = "removeDirs" /\ call.kind = "delete")
        PROVE  mounts'[call.id] = "none" \/ call.id \in lateMounts'
    <3>1. pc # "idle" /\ call.id \in Uuid
      BY <1>5, <2>2 DEF Deleting, Call
    <3>2. mounts[call.id] = "none" \/ call.id \in lateMounts
      BY <2>2 DEF MountsInv
    <3>. QED  BY <1>7, <3>1, <3>2
  <2>. QED  BY <1>1, <1>5, <2>1, <2>2 DEF MountsInv
<1>12. ProgressInv'
  <2>1. ASSUME pc # "idle", mounts[call.id] # "none" \/ call.interfered
        PROVE  mounts'[call.id] # "none" \/ call'.interfered
    BY <1>5, <1>7, <2>1 DEF Call
  <2>2. pc = "ok" /\ call.kind # "delete" =>
           /\ row.id = call.id
           /\ Complete
           /\ mounts[row.id] # "none" \/ call.interfered
    BY DEF ProgressInv, SuccessIsComplete, CallInv
  <2>3. SuccessIsComplete'
    <3>1. Complete' = Complete
      BY <1>1, <1>6 DEF Complete
    <3>. QED  BY <1>1, <1>5, <2>1, <2>2, <3>1 DEF SuccessIsComplete
  <2>4. Needed(call.version)' = Needed(call.version)
    BY <1>5 DEF Needed
  <2>. QED  BY <1>1, <1>5, <1>6, <2>1, <2>3, <2>4 DEF ProgressInv
<1>. QED  BY <1>8, <1>9, <1>10, <1>11, <1>12

LEMMA CrashInv == ASSUME Inv, Crash PROVE Inv'
<1>. USE DEF Inv
<1>1. /\ Fault
      /\ pc' = "idle" /\ call' = NoCall /\ seen' = NotSeen
      /\ jobs' = [u \in Uuid |-> NoJob]
      /\ UNCHANGED <<row, used, wanted, containers, volumes, dirs, mounts,
                     endpoints, lateMounts>>
  BY DEF Crash, engine, services
<1>2. /\ strayVolumes' \in SUBSET (Uuid \X Volume)
      /\ strayVolumes \subseteq strayVolumes'
      /\ pc = "volumes" =>
            LabelledIn(volumes) \ Needed(call.version) \subseteq strayVolumes'
  BY DEF Crash, LabelledIn, TypeOK
<1>3. \A u : Existing(u)' = Existing(u)
  BY <1>1 DEF Existing
<1>4. TypeOK'
  BY <1>1, <1>2, FaultType DEF TypeOK, Step
<1>5. VolumesInv'
  <2>1. SUFFICES ASSUME NEW x \in volumes, x \notin strayVolumes'
                 PROVE  /\ row # NoRow
                        /\ x[1] = row.id
                        /\ x[2] \in VolumesOf[row.version]
    BY <1>1 DEF VolumesInv
  <2>2. /\ row # NoRow
        /\ x[1] = row.id
        /\ x[2] \in VolumesOf[row.version] \/ pc = "volumes"
    BY <1>2, <2>1 DEF VolumesInv
  <2>3. CASE pc = "volumes"
    <3>1. row.id = call.id /\ row.version = call.version
      BY <2>3 DEF CallInv, After
    <3>2. x \in Needed(call.version)
      BY <1>2, <2>1, <2>2, <2>3, <3>1 DEF LabelledIn
    <3>. QED  BY <2>2, <3>1, <3>2 DEF Needed
  <2>. QED  BY <2>2, <2>3
<1>6. CallInv' /\ DirsInv' /\ EndpointsInv'
  BY <1>1 DEF CallInv, DirsInv, EndpointsInv, Before, After, Deleting
<1>7. ContainersInv' /\ MountsInv' /\ EnabledInv' /\ ProgressInv'
  BY <1>1, <1>3 DEF ContainersInv, MountsInv, MountsAreAccounted, EnabledInv,
     EnabledAsWanted, ProgressInv, SuccessIsComplete, Before, Deleting
<1>. QED  BY <1>4, <1>5, <1>6, <1>7

LEMMA StutterInv == ASSUME Inv, UNCHANGED vars PROVE Inv'
<1>1. UNCHANGED <<row, containers, dirs, volumes, mounts, endpoints, pc, call,
                  seen, jobs, used, faults, wanted, lateMounts, strayVolumes>>
  BY DEF vars, handler, engine, services, monitor, history
<1>2. \A u : Existing(u)' = Existing(u)
  BY <1>1 DEF Existing
<1>. USE <1>1, <1>2 DEF Inv
<1>3. TypeOK'
  BY DEF TypeOK
<1>4. CallInv' /\ DirsInv' /\ EndpointsInv' /\ VolumesInv'
  BY DEF CallInv, DirsInv, EndpointsInv, VolumesInv
<1>5. ContainersInv' /\ MountsInv' /\ EnabledInv'
  BY DEF ContainersInv, Bare, MountsInv, MountsAreAccounted, EnabledInv,
         EnabledAsWanted
<1>6. ProgressInv'
  BY DEF ProgressInv, SuccessIsComplete, Complete, Needed
<1>. QED  BY <1>3, <1>4, <1>5, <1>6

LEMMA NextInv == Inv /\ [Next]_vars => Inv'
<1>. SUFFICES ASSUME Inv, [Next]_vars PROVE Inv'
  OBVIOUS
<1>1. CASE \E u \in Uuid, v \in Version : Create(u, v) \/ Update(u, v)
  BY <1>1, CreateInv
<1>2. CASE (\E u \in Uuid : Recreate(u)) \/ Delete
  <2>1. \A r \in Row : r.id \in Uuid /\ r.version \in Version
    BY DEF Row
  <2>2. row # NoRow /\ row \in Row
    BY <1>2 DEF Recreate, Delete, Inv, TypeOK
  <2>. QED  BY <1>2, <2>1, <2>2, CreateInv
<1>3. CASE Enable \/ Disable
  BY <1>3, EnableInv
<1>4. CASE Operation
  BY <1>4, OperationInv
<1>5. CASE Decide \/ \E others \in BOOLEAN : Look(others)
  BY <1>5, MonitorReadInv
<1>6. CASE \E i \in Uuid : JobStep(i)
  <2>1. PICK i \in Uuid : JobStep(i)
    BY <1>6
  <2>2. CASE LoadSecrets(i) \/ EndStartJob(i) \/ UnloadSecrets(i)
    BY <2>2, MountJobInv
  <2>3. CASE EndStopJob(i) \/ \E s \in Service : StartContainer(i, s)
    BY <2>3, EngineStepInv
  <2>. QED  BY <2>1, <2>2, <2>3 DEF JobStep
<1>7. CASE \E u \in Uuid, s \in Service : ContainerExits(u, s) \/ HealthChanges(u, s)
  BY <1>7, EngineStepInv
<1>8. CASE Crash
  BY <1>8, CrashInv
<1>9. CASE UNCHANGED vars
  BY <1>9, StutterInv
<1>. QED  BY <1>1, <1>2, <1>3, <1>4, <1>5, <1>6, <1>7, <1>8, <1>9 DEF Next

-----------------------------------------------------------------------------
(* The theorems. *)

\* Inv holds in every state: it is what each step of Operation, of the monitor
\* and of a crash preserves.
THEOREM Invariant == Spec => []Inv
<1>1. Init => Inv
  BY InitInv
<1>2. Inv /\ [Next]_vars => Inv'
  BY NextInv
<1>. QED  BY <1>1, <1>2, PTL DEF Spec

\* Every variable keeps its type; an operation has local variables exactly
\* while Handler.mu is held.
THEOREM TypeCorrect == Spec => []TypeOK
<1>1. Inv => TypeOK
  BY DEF Inv
<1>. QED  BY <1>1, Invariant, PTL

\* For any number of services, volumes, versions, failures and crashes, every
\* container, directory and endpoint that exists belongs to the row.
THEOREM RecordedAlways == Spec => []NothingUnrecorded
<1>1. Inv => NothingUnrecorded
  <2>. SUFFICES ASSUME Inv PROVE NothingUnrecorded
    OBVIOUS
  <2>1. ASSUME NEW u \in Uuid, NEW s \in Service, containers[u][s] # "absent"
        PROVE  row # NoRow /\ u = row.names /\ s \in ServicesOf[row.version]
    <3>1. s \in Existing(u)
      BY <2>1 DEF Existing
    <3>. QED  BY <3>1 DEF Inv, ContainersInv
  <2>. QED  BY <2>1 DEF NothingUnrecorded, Inv, DirsInv, EndpointsInv
<1>. QED  BY <1>1, Invariant, PTL

\* createDeploymentDirs never meets the directory it is to create.
THEOREM FreeDirs == Spec => []DirsAreFree
<1>1. Inv => DirsAreFree
  BY DEF Inv, DirsInv, DirsAreFree
<1>. QED  BY <1>1, Invariant, PTL

\* Secrets of a deployment that is gone are those a goroutine of the monitor
\* loaded while or after it was deleted.
THEOREM AccountedMounts == Spec => []MountsAreAccounted
<1>1. Inv => MountsAreAccounted
  BY DEF Inv, MountsInv
<1>. QED  BY <1>1, Invariant, PTL

\* Volumes outside the row are those an update dropped and did not remove.
THEOREM AccountedVolumes == Spec => []VolumesAreAccounted
<1>1. Inv => VolumesAreAccounted
  <2>. SUFFICES ASSUME Inv, pc = "idle", NEW x \in volumes,
                       x \notin strayVolumes
                PROVE  /\ row # NoRow
                       /\ x \in {row.id} \X VolumesOf[row.version]
    BY DEF VolumesAreAccounted
  <2>1. /\ row # NoRow
        /\ x[1] = row.id
        /\ x[2] \in VolumesOf[row.version]
    BY DEF Inv, VolumesInv
  <2>2. x \in Uuid \X Volume
    BY DEF Inv, TypeOK
  <2>. QED  BY <2>1, <2>2
<1>. QED  BY <1>1, Invariant, PTL

\* Everything that exists outside the database is found again by a later
\* operation, but for the named cases (updateDeployment, recreateDeployment,
\* deleteDeployment, startDeployment).
THEOREM AllAccounted == Spec => []EverythingIsAccounted
BY RecordedAlways, AccountedMounts, AccountedVolumes, PTL
DEF EverythingIsAccounted

\* No update undoes what EnableDeployments or DisableDeployments wrote.
THEOREM EnabledKept == Spec => []EnabledAsWanted
<1>1. Inv => EnabledAsWanted
  BY DEF Inv, EnabledInv
<1>. QED  BY <1>1, Invariant, PTL

\* An operation that reports no error has left all parts of the deployment.
THEOREM CompleteOnSuccess == Spec => []SuccessIsComplete
<1>1. Inv => SuccessIsComplete
  BY DEF Inv, ProgressInv
<1>. QED  BY <1>1, Invariant, PTL

\* Only ensureContainerVolumes and the removal of a deleted deployment's
\* volumes remove volumes, and only those that the row does not need any more.
THEOREM KeptVolumes == Spec => VolumesAreKept
<1>. DEFINE Kept == \A x \in volumes \ volumes' :
                       /\ row # NoRow
                       /\ x[1] = row.id
                       /\ \/ call.kind = "delete"
                          \/ x[2] \notin VolumesOf[row.version]
<1>1. Inv /\ [Next]_vars => [Kept]_vars
  <2>. SUFFICES ASSUME Inv, Next, NEW x \in volumes, x \notin volumes'
                PROVE  /\ row # NoRow
                       /\ x[1] = row.id
                       /\ \/ call.kind = "delete"
                          \/ x[2] \notin VolumesOf[row.version]
    OBVIOUS
  <2>1. \/ EnsureVolumes \/ EnsureVolumesFails
        \/ RemoveVolumes \/ RemoveVolumesFails
    <3>1. ASSUME UNCHANGED volumes PROVE FALSE
      BY <3>1
    <3>2. CASE Operation
      BY <3>1, <3>2
      DEF Operation, StopContainers, StopContainersFails, RemoveContainers,
          RemoveContainersFails, CleanMounts, RemoveDirs, WriteRow, CreateDirs,
          CreateDirsFails, CreateMounts, CreateMountsFails, CreateContainers,
          CreateContainersFails, CreateEndpoints, CreateEndpointsFails,
          RemoveEndpoints, RemoveEndpointsFails, DeleteRow, FailsWithoutEffect,
          Return, engine
    <3>3. CASE \E i \in Uuid : JobStep(i)
      BY <3>1, <3>3
      DEF JobStep, LoadSecrets, StartContainer, EndStartJob, UnloadSecrets,
          EndStopJob, engine
    <3>4. CASE Next /\ ~ Operation /\ ~ \E i \in Uuid : JobStep(i)
      BY <3>1, <3>4
      DEF Next, Create, Update, Recreate, Delete, Begin, Enable, Disable,
          SetEnabled, Look, Decide, ContainerExits, HealthChanges, Crash, engine
    <3>. QED  BY <3>2, <3>3, <3>4
  <2>2. x \in Uuid \X Volume
    BY DEF Inv, TypeOK
  <2>3. CASE EnsureVolumes \/ EnsureVolumesFails
    <3>1. /\ row # NoRow /\ row.id = call.id /\ row.version = call.version
      BY <2>3 DEF Inv, CallInv, After, EnsureVolumes, EnsureVolumesFails
    <3>2. x[1] = call.id /\ x \notin Needed(call.version)
      BY <2>3 DEF EnsureVolumes, EnsureVolumesFails, LabelledIn
    <3>. QED  BY <2>2, <3>1, <3>2 DEF Needed
  <2>4. CASE RemoveVolumes \/ RemoveVolumesFails
    <3>1. row # NoRow /\ row.id = call.id /\ call.kind = "delete"
      BY <2>4 DEF Inv, CallInv, Deleting, RemoveVolumes, RemoveVolumesFails
    <3>2. x \in Needed(row.version)
      BY <2>4 DEF RemoveVolumes, RemoveVolumesFails
    <3>. QED  BY <3>1, <3>2 DEF Needed
  <2>. QED  BY <2>1, <2>3, <2>4
<1>. QED  BY <1>1, Invariant, PTL DEF Spec, VolumesAreKept

=============================================================================
