------------------------ MODULE AuxDeploymentsProofs ------------------------
(***************************************************************************)
(* Proofs about AuxDeployments, for any number of deployments: operations  *)
(* on different deployments hold different mutexes and share the tables    *)
(* and the engine, and still keep to the ids and names that are theirs.    *)
(***************************************************************************)
EXTENDS AuxDeployments, TLAPS

\* The steps at which the operation of d has a name for a container that it is
\* still to create.
Targeting(d) ==
    \/ pc[d] \in {"volumeRows", "stop", "remove", "writeRow", "createContainer"}
    \/ pc[d] = "ensure" /\ call[d].kind # "recreate"

IsTarget(d, n) == Targeting(d) /\ n = call[d].name

\* The ids that the operation of d is about.
Concerns(d, i) ==
    /\ pc[d] # "idle"
    /\ \/ i = call[d].id /\ i # NoName
       \/ \E x \in call[d].todo : x.id = i
       \/ i \in call[d].done

\* From the beginning of a replacement to the write of the row.
Replacing(d) ==
    /\ pc[d] \in {"volumeRows", "stop", "remove", "writeRow"}
    /\ call[d].old # NoName

\* n is the container of i, as the operation of d has read it.
Holds(d, i, n) ==
    \/ pc[d] # "idle" /\ \E x \in call[d].todo : x.id = i /\ x.name = n
    \/ Replacing(d) /\ i = call[d].id /\ n = call[d].old

\* No container stands for the id at hand any more, or yet.
Cleared(d) ==
    /\ \/ pc[d] \in {"writeRow", "createContainer"}
       \/ pc[d] = "ensure" /\ call[d].kind # "recreate"
       \/ pc[d] = "volumeRows" /\ call[d].kind = "create"
    /\ call[d].id # NoName

Without(i) == \A n \in Uuid : containers[n] # Absent => containers[n].aux # i

-----------------------------------------------------------------------------
(* The invariant: what is true of the tables and the engine at any time,   *)
(* of each operation, and of two operations.                               *)

\* Ids and names are used, names are unique, the foreign keys hold.
TablesInv ==
    /\ \A i \in Uuid : rows[i] # NoRow =>
          /\ i \in used /\ rows[i].name \in used /\ rows[i].dep \in parents
          /\ \A r \in rows[i].mounts : <<rows[i].dep, r>> \in volumeRows
    /\ \A i, j \in Uuid :
          rows[i] # NoRow /\ rows[j] # NoRow /\ rows[i].name = rows[j].name => i = j
    /\ \A n \in Uuid : containers[n] # Absent =>
          n \in used /\ containers[n].aux \in used \cup {NoName}
    /\ deletion # NoDeletion => deletion.dep \in parents

\* Which operation is at which step, and with what.
StepInv(d) ==
    pc[d] # "idle" =>
        /\ pc[d] = "volumeRows" => call[d].kind \in {"create", "update"}
        /\ pc[d] \in {"stop", "remove"} => call[d].kind \in {"update", "recreate"}
        /\ pc[d] \in {"writeRow", "ensure", "createContainer"} =>
              call[d].kind \in {"create", "update", "recreate"}
        /\ pc[d] = "loop" => call[d].kind = "recreate"
        /\ pc[d] = "rollback" => call[d].kind = "create"
        /\ pc[d] \in {"removeContainers", "deleteRows"} => call[d].kind = "delete"
        /\ pc[d] \in {"removeVolumes", "deleteVolumeRows"} =>
              call[d].kind \in {"deleteVolumes", "deleteUnused"}
        /\ call[d].kind = "create" =>
              call[d].id \in Uuid /\ call[d].name = call[d].id /\ call[d].old = NoName
        /\ call[d].kind = "update" =>
              call[d].name \in Uuid /\ (call[d].id = NoName <=> call[d].old = NoName)
        /\ call[d].kind = "recreate" /\ Targeting(d) =>
              call[d].name \in Uuid /\ call[d].id \in Uuid /\ call[d].old \in Uuid
        /\ call[d].todo # {} => call[d].kind \in {"recreate", "delete"}
        /\ call[d].done # {} /\ call[d].kind # "recreate" =>
              pc[d] \in {"ok", "failed", "deleteRows"}
        /\ call[d].kind \in {"deleteVolumes", "deleteUnused"} => call[d].done = {}
        /\ call[d].kind \in {"delete", "deleteVolumes", "deleteUnused"} =>
              call[d].id = NoName
        /\ call[d].parent =>
              /\ deletion # NoDeletion /\ deletion.dep = d
              /\ deletion.step \in {"containers", "volumes"}

IdsInv(d) ==
    \A i \in Uuid : Concerns(d, i) =>
        i \in used /\ (rows[i] # NoRow => rows[i].dep = d)

\* The name is free, and only the row at hand may name it already.
TargetInv(d) ==
    \A n \in Uuid : IsTarget(d, n) =>
        /\ n \in used /\ containers[n] = Absent
        /\ \A i \in Uuid : rows[i] # NoRow /\ rows[i].name = n =>
              i = call[d].id /\ pc[d] \in {"ensure", "createContainer"}

\* What the operation has read is still so, or gone.
HeldInv(d) ==
    \A i, n \in Uuid : Holds(d, i, n) =>
        /\ n \in used /\ ~ IsTarget(d, n)
        /\ rows[i] # NoRow => rows[i].name = n
        /\ \A j \in Uuid : rows[j] # NoRow /\ rows[j].name = n => j = i
        /\ \A m \in Uuid : containers[m] # Absent /\ containers[m].aux = i => m = n

ClearedInv(d) ==
    /\ Cleared(d) => Without(call[d].id)
    /\ pc[d] = "writeRow" /\ call[d].old # NoName => containers[call[d].old] = Absent
    /\ pc[d] \in {"volumeRows", "writeRow"} /\ call[d].kind = "create" =>
          rows[call[d].id] = NoRow
    /\ (pc[d] = "createContainer" \/ (pc[d] = "ensure" /\ call[d].kind # "recreate")) =>
          (call[d].id \in RowsOf(d) =>
              /\ rows[call[d].id].name = call[d].name
              /\ rows[call[d].id].mounts = call[d].mounts)

\* The rows that a recreate has before it are different ones, and as it read them.
ItemsInv(d) ==
    /\ pc[d] # "idle" => \A x, y \in call[d].todo : x.id = y.id => x = y
    /\ pc[d] # "idle" /\ call[d].kind = "recreate" =>
          /\ \A x \in call[d].todo :
                /\ rows[x.id] # NoRow => rows[x.id].mounts = x.mounts
                /\ x.id \notin call[d].done
                /\ Targeting(d) => x.id # call[d].id
          /\ Targeting(d) =>
                /\ call[d].id \notin call[d].done
                /\ call[d].id \in RowsOf(d) => rows[call[d].id].mounts = call[d].mounts

VolumesInv(d) ==
    /\ pc[d] = "volumeRows" /\ d \in parents =>
          \A r \in call[d].refs : <<d, r>> \in volumeRows
    /\ pc[d] \in {"stop", "remove", "writeRow"} /\ call[d].kind # "recreate"
       /\ d \in parents => \A r \in call[d].mounts : <<d, r>> \in volumeRows
    /\ pc[d] # "idle" /\ call[d].kind = "recreate" =>
          /\ \A x \in call[d].todo : x.mounts \subseteq call[d].refs
          /\ Targeting(d) => call[d].mounts \subseteq call[d].refs
          /\ pc[d] \notin {"ensure", "failed"} =>
                \A r \in call[d].refs : <<d, r>> \in volumes
    /\ pc[d] = "createContainer" => \A r \in call[d].mounts : <<d, r>> \in volumes
    /\ pc[d] = "removeVolumes" /\ call[d].kind = "deleteUnused" =>
          \A i \in RowsOf(d) : rows[i].mounts \cap call[d].refs = {}
    /\ pc[d] = "deleteVolumeRows" => \A r \in call[d].refs : <<d, r>> \notin volumes

Complete(d, i) ==
    /\ containers[rows[i].name] # Absent
    /\ containers[rows[i].name].aux = i
    /\ containers[rows[i].name].mounts = rows[i].mounts
    /\ \A r \in rows[i].mounts : <<d, r>> \in volumes

DoneInv(d) ==
    /\ pc[d] # "idle" /\ call[d].kind \in {"create", "update", "recreate"} =>
          \A i \in call[d].done : i \in RowsOf(d) => Complete(d, i)
    /\ pc[d] \in {"deleteRows", "ok"} /\ call[d].kind = "delete" =>
          \A i \in call[d].done :
              /\ Without(i)
              /\ rows[i] # NoRow => containers[rows[i].name] = Absent
              /\ pc[d] = "ok" => rows[i] = NoRow

OperationInv(d) ==
    /\ StepInv(d) /\ IdsInv(d) /\ TargetInv(d) /\ HeldInv(d) /\ ClearedInv(d)
    /\ ItemsInv(d) /\ VolumesInv(d) /\ DoneInv(d)

\* Two operations are about different ids, and neither creates a container under a
\* name that the other knows.
Apart(d, e) ==
    /\ \A i \in Uuid : ~ (Concerns(d, i) /\ Concerns(e, i))
    /\ \A n \in Uuid : ~ (IsTarget(d, n) /\ IsTarget(e, n))
    /\ \A i, n \in Uuid : ~ (Holds(d, i, n) /\ IsTarget(e, n))

Inv ==
    /\ TypeOK /\ TablesInv /\ OneContainerPerRow
    /\ \A d \in Deployment : OperationInv(d)
    /\ \A d, e \in Deployment : d # e => Apart(d, e)

-----------------------------------------------------------------------------
(* What a step of one operation does to the others: it changes the rows it *)
(* is about, makes a container under its own name, removes those that it   *)
(* holds, and works on the volumes of its own deployment.                  *)

Kept(d, i) ==
    /\ rows[i] # NoRow
    /\ rows'[i].dep = rows[i].dep /\ rows'[i].name = rows[i].name
    /\ rows[i].dep # d => rows'[i].mounts = rows[i].mounts

Renamed(d, i) ==
    /\ i = call[d].id
    /\ rows'[i].dep = d /\ IsTarget(d, rows'[i].name)
    /\ \A n \in Uuid : containers'[n] # Absent => containers'[n].aux # i

RowsEffect(d) == \A i \in Uuid : rows'[i] # NoRow => Kept(d, i) \/ Renamed(d, i)

Same(n) ==
    /\ containers[n] # Absent
    /\ containers'[n].aux = containers[n].aux
    /\ containers'[n].mounts = containers[n].mounts

Made(d, n) ==
    /\ IsTarget(d, n)
    /\ containers'[n].aux = call[d].id
    /\ call[d].id # NoName =>
          /\ Without(call[d].id)
          /\ rows'[call[d].id] # NoRow => rows'[call[d].id].name = n

ContainersEffect(d) ==
    \A n \in Uuid :
        /\ containers'[n] # Absent => Same(n) \/ Made(d, n)
        /\ containers[n] # Absent /\ containers'[n] = Absent =>
              \E i \in Uuid : Holds(d, i, n)

OthersEffect(d) ==
    /\ used \subseteq used'
    /\ \A e \in Deployment : e # d =>
          /\ pc'[e] = pc[e] /\ call'[e] = call[e]
          /\ e \in parents' <=> e \in parents
          /\ \A r \in Ref : /\ <<e, r>> \in volumes' <=> <<e, r>> \in volumes
                            /\ <<e, r>> \in volumeRows' <=> <<e, r>> \in volumeRows
          /\ pc[e] # "idle" /\ call[e].parent => deletion' = deletion

Effect(d) == RowsEffect(d) /\ ContainersEffect(d) /\ OthersEffect(d)

\* What an operation takes up is its own already, or new, or a row of its deployment.
Grows(d) ==
    /\ \A i \in Uuid : Concerns(d, i)' => Concerns(d, i) \/ i \notin used \/ i \in RowsOf(d)
    /\ \A n \in Uuid : IsTarget(d, n)' => IsTarget(d, n) \/ n \notin used
    /\ \A i, n \in Uuid :
          Holds(d, i, n)' => Holds(d, i, n) \/ (i \in RowsOf(d) /\ rows[i].name = n)

KeysHold(d) ==
    /\ \A i \in Uuid : rows'[i] # NoRow /\ rows'[i].dep = d =>
          d \in parents' /\ \A r \in rows'[i].mounts : <<d, r>> \in volumeRows'
    /\ deletion' # NoDeletion => deletion'.dep \in parents'

LEMMA RowType ==
    ASSUME TypeOK, NEW i \in Uuid, rows[i] # NoRow
    PROVE  rows[i] \in Row
  BY DEF TypeOK

LEMMA CallType ==
    ASSUME TypeOK, NEW d \in Deployment, pc[d] # "idle"
    PROVE  call[d] \in Call
  BY DEF TypeOK

\* The ids, names and parts of an operation that another one cannot disturb.
LEMMA Elsewhere ==
    ASSUME Inv, TypeOK', NEW d \in Deployment, NEW e \in Deployment, d # e, Effect(d)
    PROVE  OperationInv(e)'
<1>1. /\ pc'[e] = pc[e] /\ call'[e] = call[e] /\ used \subseteq used'
      /\ e \in parents' <=> e \in parents
      /\ \A r \in Ref : /\ <<e, r>> \in volumes' <=> <<e, r>> \in volumes
                        /\ <<e, r>> \in volumeRows' <=> <<e, r>> \in volumeRows
      /\ pc[e] # "idle" /\ call[e].parent => deletion' = deletion
  BY DEF Effect, OthersEffect
<1>2. /\ \A i \in Uuid : Concerns(e, i)' <=> Concerns(e, i)
      /\ \A n \in Uuid : IsTarget(e, n)' <=> IsTarget(e, n)
      /\ \A i, n \in Uuid : Holds(e, i, n)' <=> Holds(e, i, n)
      /\ Targeting(e)' <=> Targeting(e)
      /\ Cleared(e)' <=> Cleared(e)
  BY <1>1 DEF Concerns, IsTarget, Holds, Targeting, Replacing, Cleared
<1>3. OperationInv(e) /\ OperationInv(d) /\ Apart(d, e) /\ Apart(e, d)
  BY DEF Inv
<1>4. \A i \in Uuid : Concerns(e, i) /\ rows'[i] # NoRow =>
          /\ rows[i] # NoRow
          /\ rows'[i].dep = e /\ rows'[i].name = rows[i].name
          /\ rows'[i].mounts = rows[i].mounts
  <2>. SUFFICES ASSUME NEW i \in Uuid, Concerns(e, i), rows'[i] # NoRow
                PROVE  /\ rows[i] # NoRow
                       /\ rows'[i].dep = e /\ rows'[i].name = rows[i].name
                       /\ rows'[i].mounts = rows[i].mounts
    OBVIOUS
  <2>1. ~ Renamed(d, i)
    <3>. SUFFICES ASSUME Renamed(d, i) PROVE FALSE
      OBVIOUS
    <3>1. Concerns(d, i)
      BY AuxDeploymentsAssumption DEF Renamed, IsTarget, Targeting, Concerns
    <3>. QED  BY <1>3, <3>1 DEF Apart
  <2>2. Kept(d, i)
    BY <2>1 DEF Effect, RowsEffect
  <2>. QED  BY <1>3, <2>2 DEF Kept, OperationInv, IdsInv
<1>5. \A i \in Uuid : Concerns(e, i) =>
          \A n \in Uuid : containers'[n] # Absent /\ containers'[n].aux = i =>
              containers[n] # Absent /\ containers[n].aux = i
  <2>. SUFFICES ASSUME NEW i \in Uuid, Concerns(e, i), NEW n \in Uuid,
                       containers'[n] # Absent, containers'[n].aux = i
                PROVE  containers[n] # Absent /\ containers[n].aux = i
    OBVIOUS
  <2>1. ~ Made(d, n)
    <3>. SUFFICES ASSUME Made(d, n) PROVE FALSE
      OBVIOUS
    <3>1. Concerns(d, i)
      BY AuxDeploymentsAssumption DEF Made, IsTarget, Targeting, Concerns
    <3>. QED  BY <1>3, <3>1 DEF Apart
  <2>. QED  BY <2>1 DEF Effect, ContainersEffect, Same
<1>6. StepInv(e)'
  BY <1>1, <1>2, <1>3 DEF OperationInv, StepInv
<1>7. IdsInv(e)'
  BY <1>1, <1>2, <1>3, <1>4 DEF OperationInv, IdsInv
<1>8. TargetInv(e)'
  <2>. SUFFICES ASSUME NEW n \in Uuid, IsTarget(e, n)
                PROVE  /\ n \in used' /\ containers'[n] = Absent
                       /\ \A i \in Uuid : rows'[i] # NoRow /\ rows'[i].name = n =>
                             i = call'[e].id /\ pc'[e] \in {"ensure", "createContainer"}
    BY <1>2 DEF TargetInv
  <2>1. n \in used /\ containers[n] = Absent
    BY <1>3 DEF OperationInv, TargetInv
  <2>2. ~ IsTarget(d, n)
    BY <1>3 DEF Apart
  <2>3. containers'[n] = Absent
    BY <2>1, <2>2 DEF Effect, ContainersEffect, Same, Made
  <2>4. ASSUME NEW i \in Uuid, rows'[i] # NoRow, rows'[i].name = n
        PROVE  i = call'[e].id /\ pc'[e] \in {"ensure", "createContainer"}
    <3>1. Kept(d, i)
      BY <2>2, <2>4 DEF Effect, RowsEffect, Renamed
    <3>. QED  BY <1>1, <1>3, <2>4, <3>1 DEF Kept, OperationInv, TargetInv
  <2>. QED  BY <1>1, <2>1, <2>3, <2>4
<1>9. HeldInv(e)'
  <2>. SUFFICES ASSUME NEW i \in Uuid, NEW n \in Uuid, Holds(e, i, n)
                PROVE  /\ n \in used' /\ ~ IsTarget(e, n)'
                       /\ rows'[i] # NoRow => rows'[i].name = n
                       /\ \A j \in Uuid : rows'[j] # NoRow /\ rows'[j].name = n => j = i
                       /\ \A m \in Uuid : containers'[m] # Absent /\ containers'[m].aux = i
                                               => m = n
    BY <1>2 DEF HeldInv
  <2>1. Concerns(e, i)
    BY AuxDeploymentsAssumption DEF Holds, Replacing, Concerns
  <2>2. HeldInv(e) /\ ~ IsTarget(d, n)
    BY <1>3 DEF OperationInv, Apart
  <2>3. ASSUME NEW j \in Uuid, rows'[j] # NoRow, rows'[j].name = n
        PROVE  j = i
    <3>1. Kept(d, j)
      BY <2>2, <2>3 DEF Effect, RowsEffect, Renamed
    <3>. QED  BY <2>2, <2>3, <3>1 DEF Kept, HeldInv
  <2>. QED  BY <1>1, <1>2, <1>4, <1>5, <2>1, <2>2, <2>3 DEF HeldInv
<1>10. ASSUME Cleared(e)  PROVE Without(call[e].id)'
  <2>1. Concerns(e, call[e].id) /\ call[e].id \in Uuid
    BY <1>10, CallType DEF Cleared, Concerns, Call, Inv
  <2>2. Without(call[e].id)
    BY <1>3, <1>10 DEF OperationInv, ClearedInv
  <2>. QED  BY <1>1, <1>5, <2>1, <2>2 DEF Without
<1>11. ClearedInv(e)'
  <2>1. ASSUME pc[e] = "writeRow", call[e].old # NoName
        PROVE  containers'[call[e].old] = Absent
    <3>1. call[e].old \in Uuid /\ call[e].id \in Uuid
      BY <1>3, <2>1, CallType DEF OperationInv, StepInv, Targeting, Call, Inv
    <3>2. Holds(e, call[e].id, call[e].old)
      BY <2>1 DEF Holds, Replacing
    <3>3. ~ IsTarget(d, call[e].old)
      BY <1>3, <3>1, <3>2 DEF Apart
    <3>4. containers[call[e].old] = Absent
      BY <1>3, <2>1 DEF OperationInv, ClearedInv
    <3>. QED  BY <3>1, <3>3, <3>4 DEF Effect, ContainersEffect, Same, Made
  <2>2. ASSUME pc[e] # "idle", call[e].id \in Uuid, rows'[call[e].id] # NoRow
        PROVE  /\ rows[call[e].id] # NoRow
               /\ rows'[call[e].id].dep = rows[call[e].id].dep
               /\ rows'[call[e].id].name = rows[call[e].id].name
               /\ rows'[call[e].id].mounts = rows[call[e].id].mounts
    <3>1. Concerns(e, call[e].id)
      BY <2>2, AuxDeploymentsAssumption DEF Concerns
    <3>. QED  BY <1>3, <1>4, <2>2, <3>1 DEF OperationInv, IdsInv
  <2>3. pc[e] \in {"volumeRows", "writeRow"} /\ call[e].kind = "create"
            => call[e].id \in Uuid /\ rows[call[e].id] = NoRow
    BY <1>3 DEF OperationInv, ClearedInv, StepInv
  <2>4. (pc[e] = "createContainer" \/ (pc[e] = "ensure" /\ call[e].kind # "recreate")) =>
          (call[e].id \in RowsOf(e) =>
              /\ rows[call[e].id].name = call[e].name
              /\ rows[call[e].id].mounts = call[e].mounts)
    BY <1>3 DEF OperationInv, ClearedInv
  <2>5. (pc[e] = "createContainer" \/ (pc[e] = "ensure" /\ call[e].kind # "recreate")) =>
          (call[e].id \in RowsOf(e)' =>
              /\ rows'[call[e].id].name = call[e].name
              /\ rows'[call[e].id].mounts = call[e].mounts)
    BY <2>2, <2>4 DEF RowsOf
  <2>6. pc[e] \in {"volumeRows", "writeRow"} /\ call[e].kind = "create"
            => rows'[call[e].id] = NoRow
    BY <2>2, <2>3
  <2>. QED  BY <1>1, <1>2, <1>10, <2>1, <2>5, <2>6 DEF ClearedInv
<1>12. \A i \in Uuid : Concerns(e, i) /\ i \in RowsOf(e)' =>
          i \in RowsOf(e) /\ rows'[i].name = rows[i].name /\ rows'[i].mounts = rows[i].mounts
  BY <1>3, <1>4 DEF RowsOf, OperationInv, IdsInv
<1>13. ItemsInv(e)'
  <2>1. CASE pc[e] = "idle"
    BY <1>1, <2>1 DEF ItemsInv
  <2>2. CASE pc[e] # "idle"
    <3>1. call[e] \in Call
      BY <2>2, CallType DEF Inv
    <3>2. \A x \in call[e].todo : x.id \in Uuid /\ Concerns(e, x.id)
      BY <2>2, <3>1 DEF Call, Item, Concerns
    <3>3. call[e].id \in RowsOf(e)' => Concerns(e, call[e].id)
      BY <2>2, AuxDeploymentsAssumption DEF RowsOf, Concerns
    <3>. QED  BY <1>1, <1>2, <1>3, <1>4, <1>12, <3>2, <3>3
              DEF OperationInv, ItemsInv, RowsOf
  <2>. QED  BY <2>1, <2>2
<1>14. VolumesInv(e)'
  <2>1. CASE pc[e] = "idle"
    BY <1>1, <2>1 DEF VolumesInv
  <2>2. CASE pc[e] # "idle"
    <3>1. call[e] \in Call
      BY <2>2, CallType DEF Inv
    <3>2. ASSUME NEW i \in RowsOf(e)'
          PROVE  i \in RowsOf(e) /\ rows'[i].mounts = rows[i].mounts
      <4>1. i \in Uuid /\ rows'[i] # NoRow /\ rows'[i].dep = e
        BY <3>2 DEF RowsOf
      <4>2. Kept(d, i)
        BY <4>1 DEF Effect, RowsEffect, Renamed
      <4>. QED  BY <4>1, <4>2 DEF Kept, RowsOf
    <3>3. /\ call[e].refs \subseteq Ref /\ call[e].mounts \subseteq Ref
      BY <3>1 DEF Call
    <3>4. VolumesInv(e)
      BY <1>3 DEF OperationInv
    <3>5. call[e].kind = "recreate" =>
            /\ \A x \in call[e].todo : x.mounts \subseteq call[e].refs
            /\ Targeting(e) => call[e].mounts \subseteq call[e].refs
            /\ pc[e] \notin {"ensure", "failed"} => \A r \in call[e].refs : <<e, r>> \in volumes'
      BY <1>1, <2>2, <3>3, <3>4 DEF VolumesInv
    <3>6. /\ pc[e] = "volumeRows" /\ e \in parents' =>
              \A r \in call[e].refs : <<e, r>> \in volumeRows'
          /\ pc[e] \in {"stop", "remove", "writeRow"} /\ call[e].kind # "recreate"
             /\ e \in parents' => \A r \in call[e].mounts : <<e, r>> \in volumeRows'
          /\ pc[e] = "createContainer" => \A r \in call[e].mounts : <<e, r>> \in volumes'
          /\ pc[e] = "deleteVolumeRows" => \A r \in call[e].refs : <<e, r>> \notin volumes'
      BY <1>1, <3>3, <3>4 DEF VolumesInv
    <3>7. pc[e] = "removeVolumes" /\ call[e].kind = "deleteUnused" =>
              \A i \in RowsOf(e)' : rows'[i].mounts \cap call[e].refs = {}
      BY <3>2, <3>4 DEF VolumesInv
    <3>. QED  BY <1>1, <1>2, <2>2, <3>5, <3>6, <3>7 DEF VolumesInv
  <2>. QED  BY <2>1, <2>2
<1>15. DoneInv(e)'
  <2>1. CASE pc[e] = "idle"
    BY <1>1, <2>1 DEF DoneInv
  <2>2. CASE pc[e] # "idle"
    <3>1. call[e].done \subseteq Uuid
      BY <2>2, CallType DEF Inv, Call
    <3>2. DoneInv(e)
      BY <1>3 DEF OperationInv
    <3>3. ASSUME NEW i \in call[e].done  PROVE i \in Uuid /\ Concerns(e, i)
      BY <2>2, <3>1, <3>3 DEF Concerns
    <3>4. ASSUME NEW i \in call[e].done, i \in RowsOf(e)', Complete(e, i)
          PROVE  Complete(e, i)'
      <4>1. /\ i \in Uuid /\ i \in RowsOf(e)
            /\ rows'[i].name = rows[i].name /\ rows'[i].mounts = rows[i].mounts
        BY <1>12, <3>3, <3>4
      <4>2. rows[i] \in Row
        BY <4>1, RowType DEF RowsOf, Inv
      <4>3. containers'[rows[i].name] # Absent
        <5>. SUFFICES ASSUME containers'[rows[i].name] = Absent PROVE FALSE
          OBVIOUS
        <5>1. PICK j \in Uuid : Holds(d, j, rows[i].name)
          BY <3>4, <4>2 DEF Complete, Effect, ContainersEffect, Row
        <5>2. j = i
          BY <1>3, <4>1, <4>2, <5>1 DEF OperationInv, HeldInv, RowsOf, Row
        <5>3. Concerns(d, i)
          BY <5>1, <5>2, <4>1, AuxDeploymentsAssumption DEF Holds, Replacing, Concerns
        <5>. QED  BY <1>3, <3>3, <5>3 DEF Apart
      <4>4. Same(rows[i].name)
        BY <3>4, <4>2, <4>3, <1>3 DEF Complete, Effect, ContainersEffect, Made, Row,
           OperationInv, TargetInv
      <4>5. \A r \in rows[i].mounts : <<e, r>> \in volumes'
        BY <1>1, <3>4, <4>2 DEF Complete, Row
      <4>. QED  BY <3>4, <4>1, <4>3, <4>4, <4>5 DEF Complete, Same
    <3>5. ASSUME NEW i \in call[e].done, rows[i] # NoRow => containers[rows[i].name] = Absent,
                 rows'[i] # NoRow
          PROVE  containers'[rows'[i].name] = Absent
      <4>1. i \in Uuid /\ rows[i] # NoRow /\ rows'[i].name = rows[i].name /\ rows'[i].dep = e
        BY <1>4, <3>3, <3>5
      <4>2. rows[i].name \in Uuid
        BY <4>1, RowType DEF Row, Inv
      <4>3. ~ IsTarget(d, rows[i].name)
        <5>. SUFFICES ASSUME IsTarget(d, rows[i].name) PROVE FALSE
          OBVIOUS
        <5>1. i = call[d].id /\ pc[d] # "idle"
          BY <1>3, <4>1, <4>2 DEF OperationInv, TargetInv
        <5>2. Concerns(d, i)
          BY <5>1, <4>1, AuxDeploymentsAssumption DEF Concerns
        <5>. QED  BY <1>3, <3>3, <5>2 DEF Apart
      <4>. QED  BY <3>5, <4>1, <4>2, <4>3 DEF Effect, ContainersEffect, Same, Made
    <3>6. ASSUME NEW i \in call[e].done, Without(i)  PROVE Without(i)'
      BY <1>5, <3>3, <3>6 DEF Without
    <3>7. ASSUME NEW i \in call[e].done, rows[i] = NoRow  PROVE rows'[i] = NoRow
      BY <1>4, <3>3, <3>7
    <3>8. call[e].kind \in {"create", "update", "recreate"} =>
              \A i \in call[e].done : i \in RowsOf(e)' => Complete(e, i)'
      BY <1>12, <2>2, <3>2, <3>3, <3>4 DEF DoneInv
    <3>9. pc[e] \in {"deleteRows", "ok"} /\ call[e].kind = "delete" =>
              \A i \in call[e].done :
                  /\ Without(i)'
                  /\ rows'[i] # NoRow => containers'[rows'[i].name] = Absent
                  /\ pc[e] = "ok" => rows'[i] = NoRow
      BY <3>2, <3>5, <3>6, <3>7 DEF DoneInv
    <3>. QED  BY <1>1, <2>2, <3>8, <3>9 DEF DoneInv
  <2>. QED  BY <2>1, <2>2
<1>. QED  BY <1>6, <1>7, <1>8, <1>9, <1>11, <1>13, <1>14, <1>15 DEF OperationInv

LEMMA Tables ==
    ASSUME Inv, TypeOK', NEW d \in Deployment, Effect(d), KeysHold(d)
    PROVE  TablesInv' /\ OneContainerPerRow'
<1>1. OperationInv(d) /\ TablesInv /\ OneContainerPerRow /\ used \subseteq used'
  BY DEF Inv, Effect, OthersEffect
<1>2. \A n \in Uuid : IsTarget(d, n) => n \in used /\ containers[n] = Absent
  BY <1>1 DEF OperationInv, TargetInv
<1>3. \A i \in Uuid : (i = call[d].id /\ Targeting(d)) => Concerns(d, i) /\ i \in used
  BY <1>1, AuxDeploymentsAssumption DEF Concerns, Targeting, OperationInv, IdsInv
<1>4. ASSUME NEW i \in Uuid, rows'[i] # NoRow
      PROVE  /\ i \in used' /\ rows'[i].name \in used' /\ rows'[i].dep \in parents'
             /\ \A r \in rows'[i].mounts : <<rows'[i].dep, r>> \in volumeRows'
  <2>1. rows'[i] \in Row
    BY <1>4 DEF TypeOK
  <2>2. CASE Renamed(d, i)
    BY <1>1, <1>2, <1>3, <1>4, <2>1, <2>2 DEF Renamed, KeysHold, Row, IsTarget
  <2>3. CASE Kept(d, i) /\ rows[i].dep = d
    BY <1>1, <1>4, <2>3 DEF Kept, KeysHold, TablesInv
  <2>4. CASE Kept(d, i) /\ rows[i].dep # d
    <3>1. /\ i \in used /\ rows[i].name \in used /\ rows[i].dep \in parents
          /\ \A r \in rows[i].mounts : <<rows[i].dep, r>> \in volumeRows
      BY <1>1, <2>4 DEF Kept, TablesInv
    <3>. QED  BY <1>1, <2>1, <2>4, <3>1 DEF Kept, Effect, OthersEffect, Row
  <2>. QED  BY <1>4, <2>2, <2>3, <2>4 DEF Effect, RowsEffect
<1>5. ASSUME NEW i \in Uuid, NEW j \in Uuid, rows'[i] # NoRow, rows'[j] # NoRow,
             rows'[i].name = rows'[j].name
      PROVE  i = j
  <2>1. \A k, l \in Uuid : Renamed(d, k) /\ Kept(d, l) /\ rows'[k].name = rows'[l].name
                                => k = l
    <3>. SUFFICES ASSUME NEW k \in Uuid, NEW l \in Uuid, Renamed(d, k), Kept(d, l),
                         rows'[k].name = rows'[l].name
                  PROVE  k = l
      OBVIOUS
    <3>1. rows[l].name \in Uuid
      BY RowType DEF Kept, Inv, Row
    <3>. QED  BY <1>1, <3>1 DEF Renamed, Kept, OperationInv, TargetInv
  <2>. QED  BY <1>1, <1>5, <2>1 DEF Effect, RowsEffect, Kept, Renamed, TablesInv
<1>6. ASSUME NEW n \in Uuid, containers'[n] # Absent
      PROVE  n \in used' /\ containers'[n].aux \in used' \cup {NoName}
  <2>1. containers'[n] \in Container
    BY <1>6 DEF TypeOK
  <2>. QED  BY <1>1, <1>2, <1>3, <1>6, <2>1
            DEF Effect, ContainersEffect, Same, Made, TablesInv, Container, IsTarget
<1>7. TablesInv'
  BY <1>4, <1>5, <1>6 DEF TablesInv, KeysHold
<1>8. ASSUME NEW n \in Uuid, containers'[n] # Absent, containers'[n].aux # NoName
      PROVE  /\ \A m \in Uuid \ {n} : containers'[m] # Absent =>
                    containers'[m].aux # containers'[n].aux
             /\ rows'[containers'[n].aux] # NoRow => rows'[containers'[n].aux].name = n
  <2>1. containers'[n].aux \in Uuid
    BY <1>8 DEF TypeOK, Container
  <2>2. \A m \in Uuid : containers'[m] # Absent => Same(m) \/ Made(d, m)
    BY DEF Effect, ContainersEffect
  <2>3. ~ Renamed(d, containers'[n].aux)
    BY <1>8, <2>1 DEF Renamed
  <2>4. rows'[containers'[n].aux] # NoRow => Kept(d, containers'[n].aux)
    BY <2>1, <2>3 DEF Effect, RowsEffect
  <2>5. CASE Same(n)
    BY <1>1, <1>8, <2>1, <2>2, <2>4, <2>5
       DEF Same, Made, Kept, OneContainerPerRow, Exists, Without
  <2>6. CASE Made(d, n)
    BY <1>8, <2>1, <2>2, <2>6 DEF Same, Made, Without, IsTarget
  <2>. QED  BY <1>8, <2>2, <2>5, <2>6
<1>. QED  BY <1>7, <1>8 DEF OneContainerPerRow, Exists

\* What is to be shown of a step of the operation of d.
LEMMA StepRule ==
    ASSUME Inv, TypeOK', NEW d \in Deployment,
           Effect(d), KeysHold(d), Grows(d), OperationInv(d)'
    PROVE  Inv'
<1>1. \A e \in Deployment : OperationInv(e)'
  BY Elsewhere
<1>2. ASSUME NEW e \in Deployment, e # d
      PROVE  /\ \A i \in Uuid : Concerns(e, i)' <=> Concerns(e, i)
             /\ \A n \in Uuid : IsTarget(e, n)' <=> IsTarget(e, n)
             /\ \A i, n \in Uuid : Holds(e, i, n)' <=> Holds(e, i, n)
  BY <1>2 DEF Effect, OthersEffect, Concerns, IsTarget, Holds, Targeting, Replacing
<1>3. ASSUME NEW e \in Deployment, e # d
      PROVE  Apart(d, e)' /\ Apart(e, d)'
  <2>1. Apart(d, e) /\ Apart(e, d) /\ OperationInv(e)
    BY <1>3 DEF Inv
  <2>2. ASSUME NEW i \in Uuid, Concerns(d, i)', Concerns(e, i)  PROVE FALSE
    BY <1>3, <2>1, <2>2 DEF Apart, Grows, OperationInv, IdsInv, RowsOf
  <2>3. ASSUME NEW n \in Uuid, IsTarget(d, n)', IsTarget(e, n)  PROVE FALSE
    BY <2>1, <2>3 DEF Apart, Grows, OperationInv, TargetInv
  <2>4. ASSUME NEW i \in Uuid, NEW n \in Uuid, Holds(d, i, n)', IsTarget(e, n)  PROVE FALSE
    <3>1. i \in RowsOf(d) /\ rows[i].name = n
      BY <2>1, <2>4 DEF Apart, Grows
    <3>2. i = call[e].id /\ pc[e] # "idle"
      BY <2>1, <2>4, <3>1 DEF OperationInv, TargetInv, RowsOf
    <3>3. Concerns(e, i)
      BY <3>2, AuxDeploymentsAssumption DEF Concerns
    <3>. QED  BY <1>3, <2>1, <3>1, <3>3 DEF OperationInv, IdsInv, RowsOf
  <2>5. ASSUME NEW i \in Uuid, NEW n \in Uuid, Holds(e, i, n), IsTarget(d, n)'  PROVE FALSE
    BY <2>1, <2>5 DEF Apart, Grows, OperationInv, HeldInv
  <2>. QED  BY <1>2, <1>3, <2>2, <2>3, <2>4, <2>5 DEF Apart
<1>4. ASSUME NEW e \in Deployment, NEW f \in Deployment, e # f, e # d, f # d
      PROVE  Apart(e, f)'
  BY <1>2, <1>4 DEF Inv, Apart
<1>. QED  BY <1>1, <1>3, <1>4, Tables DEF Inv

\* Steps that let the operations be: rows may go, nothing else is lost or made.
Lasts(i) ==
    rows'[i] # NoRow =>
        /\ rows[i] # NoRow /\ rows'[i].dep = rows[i].dep
        /\ rows'[i].name = rows[i].name /\ rows'[i].mounts = rows[i].mounts

Stays(n) ==
    /\ containers'[n] = Absent <=> containers[n] = Absent
    /\ containers[n] # Absent => Same(n)

LEMMA Bystander ==
    ASSUME Inv, TypeOK', UNCHANGED <<pc, call, used, volumes>>, parents' \subseteq parents,
           \A i \in Uuid : Lasts(i), \A n \in Uuid : Stays(n),
           \A e \in Deployment : e \in parents' =>
               \A r \in Ref : <<e, r>> \in volumeRows' <=> <<e, r>> \in volumeRows,
           \A i \in Uuid : rows'[i] # NoRow => rows'[i].dep \in parents',
           \A e \in Deployment : pc[e] # "idle" /\ call[e].parent => deletion' = deletion,
           deletion' # NoDeletion => deletion'.dep \in parents'
    PROVE  Inv'
<1>1. \A i \in Uuid : rows'[i] # NoRow => rows[i] \in Row /\ rows'[i] \in Row
  BY DEF Lasts, Inv, TypeOK
<1>2. \A n \in Uuid : containers[n] # Absent => containers[n] \in Container
  BY DEF Inv, TypeOK
<1>3. TablesInv'
  BY <1>1 DEF Inv, TablesInv, Lasts, Stays, Same, Row
<1>4. OneContainerPerRow'
  BY <1>2 DEF Inv, OneContainerPerRow, Exists, Lasts, Stays, Same, Container
<1>5. /\ \A d \in Deployment : /\ Targeting(d)' <=> Targeting(d)
                               /\ Cleared(d)' <=> Cleared(d)
      /\ \A d \in Deployment, i \in Uuid : Concerns(d, i)' <=> Concerns(d, i)
      /\ \A d \in Deployment, n \in Uuid : IsTarget(d, n)' <=> IsTarget(d, n)
      /\ \A d \in Deployment, i, n \in Uuid : Holds(d, i, n)' <=> Holds(d, i, n)
      /\ \A d \in Deployment : RowsOf(d)' \subseteq RowsOf(d)
      /\ \A i \in Uuid : Without(i)' <=> Without(i)
  BY DEF Concerns, IsTarget, Holds, Targeting, Replacing, Cleared, RowsOf, Without,
         Lasts, Stays, Same
<1>6. ASSUME NEW d \in Deployment  PROVE OperationInv(d)'
  <2>1. OperationInv(d)
    BY DEF Inv
  <2>2. CASE pc[d] = "idle"
    BY <1>5, <2>2 DEF OperationInv, StepInv, IdsInv, TargetInv, HeldInv, ClearedInv, ItemsInv,
       VolumesInv, DoneInv, Concerns, IsTarget, Holds, Targeting, Replacing, Cleared
  <2>3. CASE pc[d] # "idle"
    <3>1. call[d] \in Call
      BY <2>3, CallType DEF Inv
    <3>2. /\ call[d].refs \subseteq Ref /\ call[d].mounts \subseteq Ref
          /\ call[d].done \subseteq Uuid /\ call[d].todo \subseteq Item
          /\ \A x \in call[d].todo : x.id \in Uuid
      BY <3>1 DEF Call, Item
    <3>3. StepInv(d)'
      BY <1>5, <2>1 DEF OperationInv, StepInv
    <3>4. IdsInv(d)'
      BY <1>5, <2>1 DEF OperationInv, IdsInv, Lasts
    <3>5. TargetInv(d)'
      BY <1>5, <2>1 DEF OperationInv, TargetInv, Lasts, Stays
    <3>6. HeldInv(d)'
      BY <1>5, <2>1 DEF OperationInv, HeldInv, Lasts, Stays, Same
    <3>7. ClearedInv(d)'
      <4>1. pc[d] = "writeRow" /\ call[d].old # NoName => call[d].old \in Uuid
        BY <3>1 DEF Call
      <4>2. (pc[d] \in {"volumeRows", "writeRow"} /\ call[d].kind = "create") =>
                call[d].id \in Uuid
        BY <2>1 DEF OperationInv, StepInv
      <4>3. call[d].id \in RowsOf(d)' =>
                /\ call[d].id \in RowsOf(d)
                /\ rows'[call[d].id].name = rows[call[d].id].name
                /\ rows'[call[d].id].mounts = rows[call[d].id].mounts
        BY <1>5 DEF RowsOf, Lasts
      <4>4. ClearedInv(d)
        BY <2>1 DEF OperationInv
      <4>5. Cleared(d)' => Without(call[d].id)'
        BY <1>5, <3>1, <4>4 DEF ClearedInv, Cleared, Call
      <4>6. pc[d] = "writeRow" /\ call[d].old # NoName => containers'[call[d].old] = Absent
        BY <4>1, <4>4 DEF ClearedInv, Stays
      <4>7. pc[d] \in {"volumeRows", "writeRow"} /\ call[d].kind = "create" =>
                rows'[call[d].id] = NoRow
        BY <4>2, <4>4 DEF ClearedInv, Lasts
      <4>8. (pc[d] = "createContainer" \/ (pc[d] = "ensure" /\ call[d].kind # "recreate")) =>
                (call[d].id \in RowsOf(d)' =>
                    /\ rows'[call[d].id].name = call[d].name
                    /\ rows'[call[d].id].mounts = call[d].mounts)
        BY <4>3, <4>4 DEF ClearedInv
      <4>. QED  BY <4>5, <4>6, <4>7, <4>8 DEF ClearedInv
    <3>8. ItemsInv(d)'
      <4>1. call[d].id \in RowsOf(d)' =>
                call[d].id \in RowsOf(d) /\ rows'[call[d].id].mounts = rows[call[d].id].mounts
        BY <1>5 DEF RowsOf, Lasts
      <4>. QED  BY <1>5, <2>1, <3>2, <4>1 DEF OperationInv, ItemsInv, Lasts
    <3>9. VolumesInv(d)'
      <4>1. \A i \in RowsOf(d)' : i \in RowsOf(d) /\ rows'[i].mounts = rows[i].mounts
        BY <1>5 DEF RowsOf, Lasts
      <4>2. VolumesInv(d)
        BY <2>1 DEF OperationInv
      <4>. QED  BY <1>5, <3>2, <4>1, <4>2 DEF VolumesInv
    <3>10. DoneInv(d)'
      <4>1. \A i \in RowsOf(d)' : /\ i \in RowsOf(d) /\ rows'[i].mounts = rows[i].mounts
                                    /\ rows'[i].name = rows[i].name /\ rows[i].name \in Uuid
        BY <1>1, <1>5 DEF RowsOf, Lasts, Row
      <4>2. \A i \in RowsOf(d)' : Complete(d, i) => Complete(d, i)'
        BY <4>1 DEF Complete, Stays, Same
      <4>3. \A i \in Uuid : (rows[i] # NoRow => containers[rows[i].name] = Absent) /\ rows'[i] # NoRow
                               => containers'[rows'[i].name] = Absent
        BY <1>1 DEF Lasts, Stays, Row
      <4>4. DoneInv(d)
        BY <2>1 DEF OperationInv
      <4>5. call[d].kind \in {"create", "update", "recreate"} =>
                \A i \in call[d].done : i \in RowsOf(d)' => Complete(d, i)'
        BY <2>3, <4>1, <4>2, <4>4 DEF DoneInv
      <4>6. pc[d] \in {"deleteRows", "ok"} /\ call[d].kind = "delete" =>
                \A i \in call[d].done :
                    /\ Without(i)'
                    /\ rows'[i] # NoRow => containers'[rows'[i].name] = Absent
                    /\ pc[d] = "ok" => rows'[i] = NoRow
        BY <1>5, <3>2, <4>3, <4>4 DEF DoneInv, Lasts
      <4>. QED  BY <4>5, <4>6 DEF DoneInv
    <3>. QED  BY <3>3, <3>4, <3>5, <3>6, <3>7, <3>8, <3>9, <3>10 DEF OperationInv
  <2>. QED  BY <2>2, <2>3
<1>7. ASSUME NEW d \in Deployment, NEW e \in Deployment, d # e  PROVE Apart(d, e)'
  BY <1>5, <1>7 DEF Inv, Apart
<1>. QED  BY <1>3, <1>4, <1>6, <1>7 DEF Inv

\* The step leaves the operation of d without a name for a container.
SameCall(d) ==
    /\ call'[d].kind = call[d].kind /\ call'[d].id = call[d].id
    /\ call'[d].old = call[d].old /\ call'[d].name = call[d].name
    /\ call'[d].mounts = call[d].mounts /\ call'[d].refs = call[d].refs
    /\ call'[d].done = call[d].done /\ call'[d].parent = call[d].parent
    /\ call'[d].todo \subseteq call[d].todo

LEMMA EndRule ==
    ASSUME Inv, TypeOK', NEW d \in Deployment, pc[d] # "idle",
           pc'[d] \in {"loop", "rollback", "failed", "ok"}, SameCall(d),
           OthersEffect(d), ContainersEffect(d), UNCHANGED <<parents, deletion, volumeRows>>,
           \A i \in Uuid : rows'[i] = rows[i] \/ rows'[i] = NoRow,
           \A n \in Uuid : containers[n] # Absent => containers'[n] # Absent,
           \A r \in Ref : <<d, r>> \in volumes => <<d, r>> \in volumes',
           pc'[d] = "loop" => call[d].kind = "recreate",
           pc'[d] \in {"loop", "ok"} => pc[d] \notin {"ensure", "failed"},
           pc'[d] = "rollback" => call[d].kind = "create" /\ pc[d] \in {"ensure", "createContainer"},
           pc'[d] = "ok" /\ call[d].kind = "delete" =>
               pc[d] = "deleteRows" /\ \A i \in call[d].done : rows'[i] = NoRow
    PROVE  Inv'
<1>1. OperationInv(d) /\ TablesInv /\ call[d] \in Call /\ used \subseteq used'
  BY CallType DEF Inv, OthersEffect
<1>2. /\ call[d].done \subseteq Uuid /\ \A x \in call[d].todo : x.id \in Uuid /\ x.name \in Uuid
      /\ call[d].refs \subseteq Ref
  BY <1>1 DEF Call, Item
<1>3. ~ Targeting(d)' /\ ~ Cleared(d)' /\ ~ Replacing(d)'
  BY DEF Targeting, Cleared, Replacing
<1>4. /\ \A i \in Uuid : Concerns(d, i)' => Concerns(d, i)
      /\ \A n \in Uuid : ~ IsTarget(d, n)'
      /\ \A i, n \in Uuid : Holds(d, i, n)' =>
            Holds(d, i, n) /\ \E x \in call[d].todo : x.id = i /\ x.name = n
  BY <1>3 DEF SameCall, Concerns, IsTarget, Holds
<1>5. \A n \in Uuid : containers[n] # Absent => containers'[n] # Absent /\ Same(n)
  BY <1>1 DEF ContainersEffect, Made, OperationInv, TargetInv
<1>6. RowsEffect(d)
  BY DEF RowsEffect, Kept
<1>7. KeysHold(d)
  BY <1>1 DEF KeysHold, TablesInv
<1>8. Effect(d) /\ Grows(d)
  BY <1>4, <1>6 DEF Effect, Grows
<1>9. StepInv(d)'
  BY <1>1, <1>3 DEF OperationInv, StepInv, SameCall
<1>10. IdsInv(d)'
  BY <1>1, <1>4 DEF OperationInv, IdsInv
<1>11. TargetInv(d)'
  BY <1>4 DEF TargetInv
<1>12. HeldInv(d)'
  <2>1. ASSUME NEW x \in call[d].todo, NEW m \in Uuid, Made(d, m)  PROVE call[d].id # x.id
    BY <1>1, <2>1 DEF Made, IsTarget, Targeting, OperationInv, StepInv, ItemsInv
  <2>2. ASSUME NEW i \in Uuid, NEW n \in Uuid, Holds(d, i, n)',
               NEW m \in Uuid, containers'[m] # Absent, containers'[m].aux = i
        PROVE  m = n
    <3>1. Same(m)
      BY <1>4, <2>1, <2>2 DEF ContainersEffect, Made
    <3>. QED  BY <1>1, <1>4, <2>2, <3>1 DEF Same, OperationInv, HeldInv
  <2>. QED  BY <1>1, <1>4, <2>2 DEF OperationInv, HeldInv
<1>13. ClearedInv(d)'
  BY <1>3 DEF ClearedInv
<1>14. ItemsInv(d)'
  BY <1>1, <1>2, <1>3 DEF OperationInv, ItemsInv, SameCall
<1>15. VolumesInv(d)'
  BY <1>1, <1>2, <1>3 DEF OperationInv, VolumesInv, SameCall
<1>16. DoneInv(d)'
  <2>1. ASSUME NEW i \in call[d].done, i \in RowsOf(d)', Complete(d, i)
        PROVE  Complete(d, i)'
    <3>1. i \in Uuid /\ rows[i] # NoRow /\ rows'[i] = rows[i]
      BY <2>1 DEF RowsOf
    <3>2. rows[i].name \in Uuid /\ rows[i].mounts \subseteq Ref
      BY <3>1, RowType DEF Inv, Row
    <3>. QED  BY <1>5, <2>1, <3>1, <3>2 DEF Complete, Same
  <2>2. ASSUME call[d].kind \in {"create", "update", "recreate"}, NEW i \in call[d].done,
               i \in RowsOf(d)'
        PROVE  Complete(d, i)'
    <3>1. Complete(d, i)
      BY <1>1, <2>2 DEF OperationInv, DoneInv, RowsOf
    <3>. QED  BY <2>1, <2>2, <3>1
  <2>3. ASSUME pc'[d] = "ok", call[d].kind = "delete", NEW i \in call[d].done
        PROVE  Without(i)' /\ rows'[i] = NoRow
    <3>1. Without(i) /\ ~ Targeting(d)
      BY <1>1, <2>3 DEF OperationInv, DoneInv, Targeting
    <3>. QED  BY <2>3, <3>1 DEF ContainersEffect, Made, IsTarget, Same, Without
  <2>. QED  BY <2>2, <2>3 DEF DoneInv, SameCall
<1>. QED  BY <1>7, <1>8, <1>9, <1>10, <1>11, <1>12, <1>13, <1>14, <1>15, <1>16, StepRule
          DEF OperationInv

LEMMA FailRule ==
    ASSUME Inv, TypeOK', NEW d \in Deployment, Fail(d), UNCHANGED <<rows, volumeRows>>,
           pc[d] \in {"volumeRows", "stop", "remove", "writeRow", "ensure", "createContainer"},
           pc[d] = "ensure" => call[d].kind # "recreate",
           ContainersEffect(d),
           \A n \in Uuid : containers[n] # Absent => containers'[n] # Absent,
           \A r \in Ref : <<d, r>> \in volumes => <<d, r>> \in volumes',
           \A e \in Deployment, r \in Ref : e # d => (<<e, r>> \in volumes' <=> <<e, r>> \in volumes)
    PROVE  Inv'
<1>1. call[d] \in Call /\ pc \in [Deployment -> Step] /\ call \in [Deployment -> Call \cup {NoCall}]
  BY CallType DEF Inv, TypeOK
<1>2. /\ pc'[d] = CASE call[d].kind = "recreate" -> "loop"
                    [] call[d].kind = "create" /\ pc[d] \in {"ensure", "createContainer"}
                           -> "rollback"
                    [] OTHER -> "failed"
      /\ \A e \in Deployment : e # d => pc'[e] = pc[e]
  BY <1>1 DEF Fail, Goto
<1>3. call'[d] = [call[d] EXCEPT !.errors = TRUE]
      /\ \A e \in Deployment : e # d => call'[e] = call[e]
  BY <1>1 DEF Fail
<1>4. SameCall(d)
  BY <1>1, <1>3 DEF SameCall, Call
<1>5. UNCHANGED <<parents, deletion, used>>
  BY DEF Fail, Goto
<1>6. OthersEffect(d)
  BY <1>2, <1>3, <1>5 DEF OthersEffect
<1>. QED  BY <1>2, <1>4, <1>5, <1>6, EndRule

\* Steps of an operation other than its last ones.
LEMMA StopContainerStep ==
    ASSUME Inv, TypeOK', NEW d \in Deployment, StopContainer(d)
    PROVE  Inv'
<1>1. /\ call[d] \in Call /\ pc \in [Deployment -> Step] /\ pc[d] = "stop"
      /\ call \in [Deployment -> Call \cup {NoCall}]
      /\ containers \in [Uuid -> Container \cup {Absent}]
      /\ UNCHANGED <<rows, volumeRows, volumes, parents, deletion>>
  BY CallType DEF Inv, TypeOK, StopContainer, Fail, Goto
<1>2. \A n \in Uuid : Stays(n)
  <2>1. PICK stopped : /\ stopped = IF Exists(call[d].old)
                            THEN [containers EXCEPT ![call[d].old].running = FALSE]
                            ELSE containers
                       /\ containers' \in {containers, stopped}
    BY DEF StopContainer
  <2>2. \A n \in Uuid : /\ stopped[n] = Absent <=> containers[n] = Absent
                        /\ containers[n] # Absent => /\ stopped[n].aux = containers[n].aux
                                                     /\ stopped[n].mounts = containers[n].mounts
    <3>. SUFFICES ASSUME NEW n \in Uuid
                  PROVE  /\ stopped[n] = Absent <=> containers[n] = Absent
                         /\ containers[n] # Absent => /\ stopped[n].aux = containers[n].aux
                                                      /\ stopped[n].mounts = containers[n].mounts
      OBVIOUS
    <3>1. CASE Exists(call[d].old) /\ n = call[d].old
      <4>1. stopped[n] = [containers[n] EXCEPT !.running = FALSE] /\ containers[n] \in Container
        BY <1>1, <2>1, <3>1 DEF Exists
      <4>2. stopped[n] \in Container
        BY <4>1 DEF Container
      <4>. QED  BY <4>1, <4>2, <3>1, AuxDeploymentsAssumption DEF Container, Exists
    <3>2. CASE ~ (Exists(call[d].old) /\ n = call[d].old)
      BY <1>1, <2>1, <3>2
    <3>. QED  BY <3>1, <3>2
  <2>. QED  BY <2>1, <2>2 DEF Stays, Same
<1>3. ContainersEffect(d)
  BY <1>2 DEF ContainersEffect, Stays
<1>4. CASE Fail(d)
  BY <1>1, <1>2, <1>3, <1>4, FailRule DEF Stays
<1>5. CASE Goto(d, "remove") /\ UNCHANGED <<call, used>>
  <2>1. pc'[d] = "remove" /\ \A e \in Deployment : e # d => pc'[e] = pc[e]
    BY <1>1, <1>5 DEF Goto
  <2>2. /\ Targeting(d)' /\ Targeting(d) /\ (Replacing(d)' <=> Replacing(d))
        /\ ~ Cleared(d)' /\ RowsOf(d)' = RowsOf(d)
    BY <1>1, <1>5, <2>1 DEF Targeting, Replacing, Cleared, RowsOf
  <2>3. /\ \A i \in Uuid : Concerns(d, i)' <=> Concerns(d, i)
        /\ \A n \in Uuid : IsTarget(d, n)' <=> IsTarget(d, n)
        /\ \A i, n \in Uuid : Holds(d, i, n)' <=> Holds(d, i, n)
    BY <1>1, <1>5, <2>1, <2>2 DEF Concerns, IsTarget, Holds
  <2>4. Effect(d) /\ KeysHold(d) /\ Grows(d)
    BY <1>1, <1>3, <1>5, <2>1, <2>3
       DEF Effect, RowsEffect, Kept, OthersEffect, KeysHold, Grows, Inv, TablesInv
  <2>5. OperationInv(d)
    BY DEF Inv
  <2>6. StepInv(d)'
    BY <1>1, <1>5, <2>1, <2>2, <2>5 DEF OperationInv, StepInv
  <2>7. IdsInv(d)'
    BY <1>1, <1>5, <2>3, <2>5 DEF OperationInv, IdsInv
  <2>8. TargetInv(d)'
    BY <1>1, <1>2, <1>5, <2>1, <2>3, <2>5 DEF OperationInv, TargetInv, Stays
  <2>9. HeldInv(d)'
    BY <1>1, <1>2, <1>5, <2>3, <2>5 DEF OperationInv, HeldInv, Stays, Same
  <2>10. ClearedInv(d)'
    BY <2>1, <2>2 DEF ClearedInv
  <2>11. ItemsInv(d)'
    BY <1>1, <1>5, <2>1, <2>2, <2>5 DEF OperationInv, ItemsInv
  <2>12. VolumesInv(d)'
    BY <1>1, <1>5, <2>1, <2>2, <2>5 DEF OperationInv, VolumesInv
  <2>13. DoneInv(d)'
    <3>1. \A i \in RowsOf(d) : rows[i].name \in Uuid
      BY RowType DEF Inv, RowsOf, Row
    <3>2. \A i \in RowsOf(d) : Complete(d, i) => Complete(d, i)'
      BY <1>1, <1>2, <3>1 DEF Complete, Stays, Same
    <3>. QED  BY <1>1, <1>5, <2>1, <2>2, <2>5, <3>2 DEF OperationInv, DoneInv
  <2>. QED  BY <2>4, <2>6, <2>7, <2>8, <2>9, <2>10, <2>11, <2>12, <2>13, StepRule
            DEF OperationInv
<1>. QED  BY <1>4, <1>5 DEF StopContainer

LEMMA WriteVolumeRowsStep ==
    ASSUME Inv, TypeOK', NEW d \in Deployment, WriteVolumeRows(d)
    PROVE  Inv'
<1>1. /\ call[d] \in Call /\ pc \in [Deployment -> Step] /\ pc[d] = "volumeRows"
      /\ UNCHANGED <<rows, containers, volumes, call, used, parents, deletion>>
      /\ volumeRows' = volumeRows \cup ({d} \X (call[d].mounts \ call[d].refs))
      /\ OperationInv(d)
  BY CallType DEF Inv, TypeOK, WriteVolumeRows, Goto, engine
<1>2. /\ pc'[d] = IF call[d].kind = "create" THEN "writeRow" ELSE "stop"
      /\ \A e \in Deployment : e # d => pc'[e] = pc[e]
  BY <1>1 DEF WriteVolumeRows, Goto
<1>3. call[d].kind \in {"create", "update"} /\ call[d].done = {}
  BY <1>1 DEF OperationInv, StepInv
<1>4. /\ Targeting(d)' /\ Targeting(d) /\ (Replacing(d)' <=> Replacing(d))
      /\ (Cleared(d)' => Cleared(d)) /\ RowsOf(d)' = RowsOf(d)
  BY <1>1, <1>2 DEF Targeting, Replacing, Cleared, RowsOf
<1>5. /\ \A i \in Uuid : Concerns(d, i)' <=> Concerns(d, i)
      /\ \A n \in Uuid : IsTarget(d, n)' <=> IsTarget(d, n)
      /\ \A i, n \in Uuid : Holds(d, i, n)' <=> Holds(d, i, n)
  BY <1>1, <1>2, <1>4 DEF Concerns, IsTarget, Holds
<1>6. Effect(d) /\ Grows(d)
  BY <1>1, <1>2, <1>5
     DEF Effect, RowsEffect, Kept, ContainersEffect, Same, OthersEffect, Grows
<1>7. KeysHold(d)
  BY <1>1 DEF KeysHold, Inv, TablesInv
<1>8. StepInv(d)'
  BY <1>1, <1>2, <1>3, <1>4 DEF OperationInv, StepInv
<1>9. IdsInv(d)' /\ TargetInv(d)' /\ HeldInv(d)'
  BY <1>1, <1>2, <1>5 DEF OperationInv, IdsInv, TargetInv, HeldInv
<1>10. ClearedInv(d)'
  BY <1>1, <1>2, <1>3, <1>4 DEF OperationInv, ClearedInv, StepInv, Without
<1>11. ItemsInv(d)'
  BY <1>1, <1>2, <1>3 DEF OperationInv, ItemsInv
<1>12. VolumesInv(d)'
  <2>1. d \in parents => \A r \in call[d].mounts : <<d, r>> \in volumeRows'
    BY <1>1 DEF OperationInv, VolumesInv
  <2>. QED  BY <1>1, <1>2, <1>3, <2>1 DEF VolumesInv
<1>13. DoneInv(d)'
  BY <1>1, <1>2, <1>3 DEF DoneInv
<1>. QED  BY <1>6, <1>7, <1>8, <1>9, <1>10, <1>11, <1>12, <1>13, StepRule DEF OperationInv

LEMMA RemoveContainerStep ==
    ASSUME Inv, TypeOK', NEW d \in Deployment, RemoveContainer(d)
    PROVE  Inv'
<1>1. /\ call[d] \in Call /\ pc \in [Deployment -> Step] /\ pc[d] = "remove"
      /\ containers \in [Uuid -> Container \cup {Absent}]
      /\ UNCHANGED <<rows, volumeRows, volumes, call, used, parents, deletion>>
      /\ OperationInv(d)
  BY CallType DEF Inv, TypeOK, RemoveContainer, Goto
<1>2. pc'[d] = "writeRow" /\ \A e \in Deployment : e # d => pc'[e] = pc[e]
  BY <1>1 DEF RemoveContainer, Goto
<1>3. /\ \A n \in Uuid : containers'[n] = IF n = call[d].old THEN Absent ELSE containers[n]
  BY <1>1 DEF RemoveContainer, Exists
<1>4. call[d].kind \in {"update", "recreate"} /\ (call[d].kind # "recreate" => call[d].done = {})
  BY <1>1 DEF OperationInv, StepInv
<1>5. /\ Targeting(d)' /\ Targeting(d) /\ (Replacing(d)' <=> Replacing(d))
      /\ RowsOf(d)' = RowsOf(d)
  BY <1>1, <1>2 DEF Targeting, Replacing, Cleared, RowsOf
<1>6. /\ \A i \in Uuid : Concerns(d, i)' <=> Concerns(d, i)
      /\ \A n \in Uuid : IsTarget(d, n)' <=> IsTarget(d, n)
      /\ \A i, n \in Uuid : Holds(d, i, n)' <=> Holds(d, i, n)
  BY <1>1, <1>2, <1>5 DEF Concerns, IsTarget, Holds
<1>7. call[d].id # NoName \/ call[d].old # NoName =>
          /\ call[d].id \in Uuid /\ call[d].old \in Uuid
          /\ Holds(d, call[d].id, call[d].old)
  BY <1>1, <1>4, <1>5, AuxDeploymentsAssumption
     DEF OperationInv, StepInv, Call, Holds, Replacing
<1>8. ContainersEffect(d)
  BY <1>3, <1>7, AuxDeploymentsAssumption DEF ContainersEffect, Same
<1>9. Effect(d) /\ KeysHold(d) /\ Grows(d)
  BY <1>1, <1>2, <1>6, <1>8
     DEF Effect, RowsEffect, Kept, OthersEffect, KeysHold, Grows, Inv, TablesInv
<1>10. StepInv(d)'
  BY <1>1, <1>2, <1>4, <1>5 DEF OperationInv, StepInv
<1>11. IdsInv(d)'
  BY <1>1, <1>6 DEF OperationInv, IdsInv
<1>12. TargetInv(d)'
  BY <1>1, <1>2, <1>3, <1>6 DEF OperationInv, TargetInv
<1>13. HeldInv(d)'
  BY <1>1, <1>3, <1>6 DEF OperationInv, HeldInv
<1>14. ClearedInv(d)'
  <2>1. call[d].id # NoName => Without(call[d].id)'
    BY <1>1, <1>3, <1>7 DEF OperationInv, HeldInv, Without
  <2>2. call[d].old # NoName => containers'[call[d].old] = Absent
    BY <1>3, <1>7
  <2>. QED  BY <1>1, <1>2, <1>4, <2>1, <2>2 DEF ClearedInv, Cleared
<1>15. ItemsInv(d)'
  BY <1>1, <1>2, <1>5 DEF OperationInv, ItemsInv
<1>16. VolumesInv(d)'
  BY <1>1, <1>2, <1>5 DEF OperationInv, VolumesInv
<1>17. DoneInv(d)'
  <2>1. ASSUME NEW i \in call[d].done, i \in RowsOf(d)  PROVE Complete(d, i)'
    <3>1. /\ i \in Uuid /\ rows[i] # NoRow /\ rows[i].name \in Uuid
      BY <2>1, RowType DEF RowsOf, Inv, Row
    <3>2. Complete(d, i) /\ call[d].kind = "recreate" /\ i # call[d].id
      BY <1>1, <1>4, <1>5, <2>1 DEF OperationInv, DoneInv, ItemsInv
    <3>3. rows[i].name # call[d].old
      BY <1>1, <1>7, <3>1, <3>2, AuxDeploymentsAssumption DEF OperationInv, HeldInv
    <3>. QED  BY <1>1, <1>3, <3>1, <3>2, <3>3 DEF Complete
  <2>. QED  BY <1>1, <1>2, <1>4, <1>5, <2>1 DEF DoneInv
<1>. QED  BY <1>9, <1>10, <1>11, <1>12, <1>13, <1>14, <1>15, <1>16, <1>17, StepRule
          DEF OperationInv

LEMMA WriteRowStep ==
    ASSUME Inv, TypeOK', NEW d \in Deployment, WriteRow(d)
    PROVE  Inv'
<1>1. /\ call[d] \in Call /\ pc \in [Deployment -> Step] /\ pc[d] = "writeRow"
      /\ rows \in [Uuid -> Row \cup {NoRow}]
      /\ UNCHANGED <<containers, volumeRows, volumes, call, used, parents, deletion>>
      /\ OperationInv(d) /\ TablesInv
  BY CallType DEF Inv, TypeOK, WriteRow, Goto, engine
<1>2. /\ pc'[d] = IF call[d].kind = "recreate" THEN "createContainer" ELSE "ensure"
      /\ \A e \in Deployment : e # d => pc'[e] = pc[e]
  BY <1>1 DEF WriteRow, Goto
<1>3. /\ call[d].kind \in {"create", "update", "recreate"}
      /\ call[d].kind # "recreate" => call[d].done = {} /\ call[d].todo = {}
      /\ call[d].kind = "create" => call[d].id \in Uuid
  BY <1>1 DEF OperationInv, StepInv
<1>4. Targeting(d)' /\ Targeting(d) /\ ~ Replacing(d)' /\ (Cleared(d)' <=> Cleared(d))
  BY <1>1, <1>2 DEF Targeting, Replacing, Cleared
<1>5. /\ \A i \in Uuid : Concerns(d, i)' <=> Concerns(d, i)
      /\ \A n \in Uuid : IsTarget(d, n)' <=> IsTarget(d, n)
      /\ \A i, n \in Uuid : Holds(d, i, n)' =>
            Holds(d, i, n) /\ \E x \in call[d].todo : x.id = i /\ x.name = n
  BY <1>1, <1>2, <1>4 DEF Concerns, IsTarget, Holds
<1>6. DEFINE written == call[d].kind = "create" \/ call[d].id \in RowsOf(d)
<1>7. written => /\ call[d].id \in Uuid /\ rows'[call[d].id] # NoRow
                 /\ rows'[call[d].id].dep = d /\ rows'[call[d].id].name = call[d].name
                 /\ rows'[call[d].id].mounts = call[d].mounts
  <2>1. written => call[d].id \in Uuid /\ rows'[call[d].id] = RowOf(d)
    BY <1>1, <1>3 DEF WriteRow, RowsOf
  <2>2. written => RowOf(d) # NoRow
    <3>1. call[d].name \in Uuid
      BY <1>1, <1>3, <1>4 DEF OperationInv, StepInv
    <3>2. call[d].kind # "create" /\ written => rows[call[d].id] \in Row
      BY <1>1 DEF RowsOf
    <3>3. written => RowOf(d) \in Row
      BY <1>1, <3>1, <3>2 DEF RowOf, Row, Call
    <3>. QED  BY <3>3, AuxDeploymentsAssumption
  <2>3. RowOf(d).dep = d /\ RowOf(d).name = call[d].name /\ RowOf(d).mounts = call[d].mounts
    BY DEF RowOf
  <2>. QED  BY <2>1, <2>2, <2>3
<1>8. \A i \in Uuid : ~ (written /\ i = call[d].id) => rows'[i] = rows[i]
  BY <1>1 DEF WriteRow
<1>9. IsTarget(d, call[d].name) /\ (written => Without(call[d].id) /\ Concerns(d, call[d].id))
  <2>1. written => call[d].id # NoName
    BY <1>7, AuxDeploymentsAssumption
  <2>. QED  BY <1>1, <1>4, <2>1 DEF IsTarget, OperationInv, ClearedInv, Cleared, Concerns
<1>10. RowsEffect(d)
  BY <1>1, <1>7, <1>8, <1>9 DEF RowsEffect, Kept, Renamed, Without
<1>11. Effect(d) /\ Grows(d)
  BY <1>1, <1>2, <1>5, <1>10 DEF Effect, ContainersEffect, Same, OthersEffect, Grows
<1>12. KeysHold(d)
  <2>1. written => d \in parents
    BY <1>1 DEF WriteRow, RowsOf, TablesInv
  <2>2. written => \A r \in call[d].mounts : <<d, r>> \in volumeRows
    <3>1. CASE call[d].kind # "recreate"
      BY <1>1, <2>1, <3>1 DEF OperationInv, VolumesInv
    <3>2. CASE call[d].kind = "recreate"
      BY <1>1, <1>4, <3>2 DEF OperationInv, ItemsInv, RowsOf, TablesInv
    <3>. QED  BY <3>1, <3>2
  <2>. QED  BY <1>1, <1>7, <1>8, <2>1, <2>2 DEF KeysHold, TablesInv
<1>13. StepInv(d)'
  BY <1>1, <1>2, <1>3, <1>4 DEF OperationInv, StepInv
<1>14. IdsInv(d)'
  BY <1>1, <1>5, <1>7, <1>8 DEF OperationInv, IdsInv
<1>15. TargetInv(d)'
  BY <1>1, <1>2, <1>3, <1>5, <1>7, <1>8 DEF OperationInv, TargetInv
<1>16. HeldInv(d)'
  <2>1. ASSUME NEW i \in Uuid, NEW n \in Uuid, Holds(d, i, n)'
        PROVE  /\ rows'[i] # NoRow => rows'[i].name = n
               /\ \A j \in Uuid : rows'[j] # NoRow /\ rows'[j].name = n => j = i
    <3>1. Holds(d, i, n) /\ i # call[d].id
      BY <1>1, <1>3, <1>4, <1>5, <2>1 DEF OperationInv, ItemsInv
    <3>2. n # call[d].name
      BY <1>1, <1>9, <3>1 DEF OperationInv, HeldInv
    <3>. QED  BY <1>1, <1>7, <1>8, <3>1, <3>2 DEF OperationInv, HeldInv
  <2>. QED  BY <1>1, <1>5, <2>1 DEF OperationInv, HeldInv
<1>17. ClearedInv(d)'
  <2>1. call[d].id \in RowsOf(d)' =>
            rows'[call[d].id].name = call[d].name /\ rows'[call[d].id].mounts = call[d].mounts
    BY <1>7, <1>8 DEF RowsOf
  <2>. QED  BY <1>1, <1>2, <1>3, <1>4, <2>1 DEF OperationInv, ClearedInv, Without
<1>18. ItemsInv(d)'
  <2>1. call[d].id \in RowsOf(d)' => rows'[call[d].id].mounts = call[d].mounts
    BY <1>7, <1>8 DEF RowsOf
  <2>2. \A x \in call[d].todo : x.id \in Uuid
    BY <1>1 DEF Call, Item
  <2>. QED  BY <1>1, <1>2, <1>4, <1>8, <2>1, <2>2 DEF OperationInv, ItemsInv
<1>19. VolumesInv(d)'
  BY <1>1, <1>2, <1>3, <1>4 DEF OperationInv, VolumesInv
<1>20. DoneInv(d)'
  <2>1. ASSUME call[d].kind = "recreate", NEW i \in call[d].done, i \in RowsOf(d)'
        PROVE  Complete(d, i)'
    <3>1. i # call[d].id /\ i \in Uuid
      BY <1>1, <1>4, <2>1 DEF OperationInv, ItemsInv, RowsOf
    <3>. QED  BY <1>1, <1>8, <2>1, <3>1 DEF OperationInv, DoneInv, RowsOf, Complete
  <2>. QED  BY <1>1, <1>2, <1>3, <2>1 DEF DoneInv
<1>. QED  BY <1>11, <1>12, <1>13, <1>14, <1>15, <1>16, <1>17, <1>18, <1>19, <1>20, StepRule
          DEF OperationInv

LEMMA EnsureVolumesStep ==
    ASSUME Inv, TypeOK', NEW d \in Deployment, EnsureVolumes(d)
    PROVE  Inv'
<1>1. /\ call[d] \in Call /\ pc \in [Deployment -> Step] /\ pc[d] = "ensure"
      /\ UNCHANGED <<rows, volumeRows, containers, call, used, parents, deletion>>
      /\ volumes' = volumes \cup ({d} \X (call[d].refs \cup call[d].mounts))
      /\ OperationInv(d)
  BY CallType DEF Inv, TypeOK, EnsureVolumes, Goto
<1>2. /\ pc'[d] = IF call[d].kind = "recreate" THEN "loop" ELSE "createContainer"
      /\ \A e \in Deployment : e # d => pc'[e] = pc[e]
  BY <1>1 DEF EnsureVolumes, Goto
<1>3. /\ call[d].kind \in {"create", "update", "recreate"}
      /\ call[d].kind # "recreate" => call[d].done = {} /\ call[d].todo = {}
  BY <1>1 DEF OperationInv, StepInv
<1>4. /\ (Targeting(d)' <=> Targeting(d)) /\ ~ Replacing(d)' /\ (Cleared(d)' <=> Cleared(d))
      /\ (Targeting(d) <=> call[d].kind # "recreate")
      /\ RowsOf(d)' = RowsOf(d)
  BY <1>1, <1>2 DEF Targeting, Replacing, Cleared, RowsOf
<1>5. /\ \A i \in Uuid : Concerns(d, i)' <=> Concerns(d, i)
      /\ \A n \in Uuid : IsTarget(d, n)' <=> IsTarget(d, n)
      /\ \A i, n \in Uuid : Holds(d, i, n)' => Holds(d, i, n)
  BY <1>1, <1>2, <1>4 DEF Concerns, IsTarget, Holds
<1>6. Effect(d) /\ Grows(d) /\ KeysHold(d)
  BY <1>1, <1>2, <1>5
     DEF Effect, RowsEffect, Kept, ContainersEffect, Same, OthersEffect, Grows, KeysHold,
         Inv, TablesInv
<1>7. StepInv(d)'
  BY <1>1, <1>2, <1>3, <1>4 DEF OperationInv, StepInv
<1>8. IdsInv(d)'
  BY <1>1, <1>5 DEF OperationInv, IdsInv
<1>9. TargetInv(d)'
  <2>1. \A n \in Uuid : IsTarget(d, n) => pc'[d] = "createContainer"
    BY <1>2, <1>4 DEF IsTarget
  <2>. QED  BY <1>1, <1>5, <2>1 DEF OperationInv, TargetInv
<1>10. HeldInv(d)'
  BY <1>1, <1>5 DEF OperationInv, HeldInv
<1>11. ClearedInv(d)'
  BY <1>1, <1>2, <1>4 DEF OperationInv, ClearedInv, Without
<1>12. ItemsInv(d)'
  BY <1>1, <1>2, <1>4 DEF OperationInv, ItemsInv
<1>13. VolumesInv(d)'
  <2>1. /\ \A r \in call[d].refs : <<d, r>> \in volumes'
        /\ \A r \in call[d].mounts : <<d, r>> \in volumes'
    BY <1>1 DEF Call
  <2>. QED  BY <1>1, <1>2, <1>4, <2>1 DEF OperationInv, VolumesInv
<1>14. DoneInv(d)'
  <2>1. \A i \in RowsOf(d) : Complete(d, i) => Complete(d, i)'
    BY <1>1 DEF Complete
  <2>. QED  BY <1>1, <1>2, <1>3, <1>4, <2>1 DEF OperationInv, DoneInv
<1>. QED  BY <1>6, <1>7, <1>8, <1>9, <1>10, <1>11, <1>12, <1>13, <1>14, StepRule
          DEF OperationInv

\* The container that the operation of d may create is under its name.
LEMMA NewContainerEffect ==
    ASSUME Inv, TypeOK', NEW d \in Deployment, pc[d] = "createContainer",
           containers' \in {containers, NewContainer(d)}, UNCHANGED rows
    PROVE  /\ ContainersEffect(d)
           /\ call[d].name \in Uuid /\ containers[call[d].name] = Absent
           /\ \A n \in Uuid : containers[n] # Absent => containers'[n] = containers[n]
           /\ \A n \in Uuid : n # call[d].name => containers'[n] = containers[n]
<1>1. /\ call[d] \in Call /\ OperationInv(d) /\ Targeting(d)
      /\ containers \in [Uuid -> Container \cup {Absent}]
  BY CallType DEF Inv, TypeOK, Targeting
<1>2. call[d].name \in Uuid
  BY <1>1 DEF OperationInv, StepInv
<1>3. IsTarget(d, call[d].name) /\ containers[call[d].name] = Absent
  BY <1>1, <1>2 DEF IsTarget, OperationInv, TargetInv
<1>4. \A n \in Uuid : n # call[d].name => containers'[n] = containers[n]
  BY <1>1 DEF NewContainer
<1>5. containers'[call[d].name] # Absent => Made(d, call[d].name)
  <2>. SUFFICES ASSUME containers'[call[d].name] # Absent
                PROVE  Made(d, call[d].name)
    OBVIOUS
  <2>1. containers'[call[d].name].aux = call[d].id
    BY <1>1, <1>2, <1>3 DEF NewContainer
  <2>2. ASSUME call[d].id # NoName
        PROVE  /\ Without(call[d].id)
               /\ rows'[call[d].id] # NoRow => rows'[call[d].id].name = call[d].name
    <3>1. Without(call[d].id)
      BY <1>1, <2>2 DEF OperationInv, ClearedInv, Cleared
    <3>2. call[d].id \in Uuid /\ Concerns(d, call[d].id)
      BY <1>1, <2>2 DEF Call, Concerns
    <3>3. rows[call[d].id] # NoRow => call[d].id \in RowsOf(d)
      BY <1>1, <3>2 DEF OperationInv, IdsInv, RowsOf
    <3>. QED  BY <1>1, <3>1, <3>3 DEF OperationInv, ClearedInv
  <2>. QED  BY <1>3, <2>1, <2>2 DEF Made
<1>6. ContainersEffect(d)
  BY <1>3, <1>4, <1>5 DEF ContainersEffect, Same
<1>. QED  BY <1>2, <1>3, <1>4, <1>6

LEMMA CreateContainerStep ==
    ASSUME Inv, TypeOK', NEW d \in Deployment, CreateContainer(d)
    PROVE  Inv'
<1>1. /\ call[d] \in Call /\ pc \in [Deployment -> Step] /\ pc[d] = "createContainer"
      /\ call \in [Deployment -> Call \cup {NoCall}]
      /\ containers \in [Uuid -> Container \cup {Absent}]
      /\ UNCHANGED <<rows, volumeRows, volumes, used, parents, deletion>>
      /\ containers' = NewContainer(d)
      /\ OperationInv(d)
  BY CallType DEF Inv, TypeOK, CreateContainer, Goto
<1>2. /\ pc'[d] = IF call[d].kind = "recreate" THEN "loop" ELSE "ok"
      /\ \A e \in Deployment : e # d => pc'[e] = pc[e] /\ call'[e] = call[e]
      /\ call'[d] = [call[d] EXCEPT !.done = @ \cup ({call[d].id} \ {NoName})]
  BY <1>1 DEF CreateContainer, Goto
<1>3. /\ call'[d].kind = call[d].kind /\ call'[d].id = call[d].id
      /\ call'[d].old = call[d].old /\ call'[d].name = call[d].name
      /\ call'[d].mounts = call[d].mounts /\ call'[d].refs = call[d].refs
      /\ call'[d].todo = call[d].todo /\ call'[d].parent = call[d].parent
      /\ call'[d].done = call[d].done \cup ({call[d].id} \ {NoName})
  BY <1>1, <1>2 DEF Call
<1>4. /\ call[d].kind \in {"create", "update", "recreate"}
      /\ call[d].kind # "recreate" => call[d].done = {} /\ call[d].todo = {}
  BY <1>1 DEF OperationInv, StepInv
<1>5. /\ Targeting(d) /\ ~ Targeting(d)' /\ ~ Replacing(d)' /\ ~ Cleared(d)'
      /\ RowsOf(d)' = RowsOf(d)
  BY <1>1, <1>2, <1>3 DEF Targeting, Replacing, Cleared, RowsOf
<1>6. /\ ContainersEffect(d)
      /\ call[d].name \in Uuid /\ containers[call[d].name] = Absent
      /\ \A n \in Uuid : containers[n] # Absent => containers'[n] = containers[n]
      /\ \A n \in Uuid : n # call[d].name => containers'[n] = containers[n]
  BY <1>1, NewContainerEffect
<1>7. /\ \A i \in Uuid : Concerns(d, i)' => Concerns(d, i)
      /\ \A n \in Uuid : ~ IsTarget(d, n)'
      /\ \A i, n \in Uuid : Holds(d, i, n)' =>
            Holds(d, i, n) /\ \E x \in call[d].todo : x.id = i /\ x.name = n
  BY <1>1, <1>3, <1>5 DEF Concerns, IsTarget, Holds
<1>8. Effect(d) /\ Grows(d) /\ KeysHold(d)
  BY <1>1, <1>2, <1>6, <1>7
     DEF Effect, RowsEffect, Kept, OthersEffect, Grows, KeysHold, Inv, TablesInv
<1>9. StepInv(d)'
  BY <1>1, <1>2, <1>3, <1>4, <1>5 DEF OperationInv, StepInv
<1>10. IdsInv(d)'
  BY <1>1, <1>7 DEF OperationInv, IdsInv
<1>11. TargetInv(d)'
  BY <1>7 DEF TargetInv
<1>12. HeldInv(d)'
  <2>1. ASSUME NEW i \in Uuid, NEW n \in Uuid, Holds(d, i, n)',
               NEW m \in Uuid, containers'[m] # Absent, containers'[m].aux = i
        PROVE  m = n
    <3>1. i # call[d].id /\ Holds(d, i, n)
      BY <1>1, <1>4, <1>5, <1>7, <2>1 DEF OperationInv, ItemsInv
    <3>2. m # call[d].name
      BY <1>1, <1>6, <2>1, <3>1 DEF NewContainer
    <3>. QED  BY <1>1, <1>6, <2>1, <3>1, <3>2 DEF OperationInv, HeldInv
  <2>. QED  BY <1>1, <1>7, <2>1 DEF OperationInv, HeldInv
<1>13. ClearedInv(d)'
  BY <1>2, <1>3, <1>5 DEF ClearedInv
<1>14. ItemsInv(d)'
  BY <1>1, <1>3, <1>4, <1>5 DEF OperationInv, ItemsInv
<1>15. VolumesInv(d)'
  BY <1>1, <1>2, <1>3, <1>5 DEF OperationInv, VolumesInv
<1>16. DoneInv(d)'
  <2>1. ASSUME NEW i \in RowsOf(d), i \in call'[d].done  PROVE Complete(d, i)'
    <3>1. i \in Uuid /\ rows[i].name \in Uuid /\ rows[i].mounts \subseteq Ref
      BY <2>1, RowType DEF RowsOf, Inv, Row
    <3>2. CASE i = call[d].id
      <4>1. rows[i].name = call[d].name /\ rows[i].mounts = call[d].mounts
        BY <1>1, <2>1, <3>2 DEF OperationInv, ClearedInv
      <4>2. containers'[call[d].name] =
                [aux |-> call[d].id, dep |-> d, mounts |-> call[d].mounts, running |-> FALSE]
        BY <1>1, <1>6 DEF NewContainer
      <4>3. containers'[call[d].name] # Absent
        <5>1. containers'[call[d].name] \in Container
          BY <1>1, <4>2 DEF Call, Container
        <5>. QED  BY <5>1, AuxDeploymentsAssumption
      <4>4. \A r \in call[d].mounts : <<d, r>> \in volumes
        BY <1>1 DEF OperationInv, VolumesInv
      <4>. QED  BY <1>1, <3>2, <4>1, <4>2, <4>3, <4>4 DEF Complete
    <3>3. CASE i # call[d].id
      <4>1. Complete(d, i)
        BY <1>1, <1>3, <1>4, <2>1, <3>3 DEF OperationInv, DoneInv
      <4>. QED  BY <1>1, <1>6, <3>1, <4>1 DEF Complete
    <3>. QED  BY <3>2, <3>3
  <2>. QED  BY <1>2, <1>3, <1>4, <1>5, <2>1 DEF DoneInv
<1>. QED  BY <1>8, <1>9, <1>10, <1>11, <1>12, <1>13, <1>14, <1>15, <1>16, StepRule
          DEF OperationInv

\* The steps that fail.
LEMMA FailureSteps ==
    ASSUME Inv, TypeOK', NEW d \in Deployment,
           \/ RemoveContainerFails(d) \/ WriteFails(d) \/ CreateContainerFails(d)
    PROVE  Inv'
<1>1. CASE RemoveContainerFails(d) \/ WriteFails(d)
  <2>1. UNCHANGED <<rows, volumeRows, containers, volumes>> /\ Fail(d)
        /\ pc[d] \in {"remove", "volumeRows", "writeRow"}
    BY <1>1 DEF RemoveContainerFails, WriteFails, engine
  <2>2. ContainersEffect(d)
    BY <2>1 DEF ContainersEffect, Same
  <2>. QED  BY <2>1, <2>2, FailRule
<1>2. CASE CreateContainerFails(d)
  BY <1>2, NewContainerEffect, FailRule DEF CreateContainerFails
<1>. QED  BY <1>1, <1>2

LEMMA EnsureVolumesFailsStep ==
    ASSUME Inv, TypeOK', NEW d \in Deployment, EnsureVolumesFails(d)
    PROVE  Inv'
<1>1. /\ call[d] \in Call /\ pc \in [Deployment -> Step] /\ pc[d] = "ensure"
      /\ UNCHANGED <<rows, volumeRows, containers>>
      /\ \A e \in Deployment, r \in Ref : e # d => (<<e, r>> \in volumes' <=> <<e, r>> \in volumes)
      /\ \A r \in Ref : <<d, r>> \in volumes => <<d, r>> \in volumes'
  BY CallType DEF Inv, TypeOK, EnsureVolumesFails
<1>2. ContainersEffect(d)
  BY <1>1 DEF ContainersEffect, Same
<1>3. CASE call[d].kind # "recreate"
  BY <1>1, <1>2, <1>3, FailRule DEF EnsureVolumesFails
<1>4. CASE call[d].kind = "recreate"
  <2>1. Goto(d, "failed") /\ UNCHANGED <<call, used>>
    BY <1>4 DEF EnsureVolumesFails
  <2>2. SameCall(d) /\ OthersEffect(d) /\ pc'[d] = "failed" /\ UNCHANGED <<parents, deletion>>
    BY <1>1, <2>1 DEF SameCall, OthersEffect, Goto
  <2>. QED  BY <1>1, <1>2, <1>4, <2>2, EndRule
<1>. QED  BY <1>3, <1>4

LEMMA RecreateNextStep ==
    ASSUME Inv, TypeOK', NEW d \in Deployment, NEW item \in call[d].todo, NEW u \in Uuid,
           RecreateNext(d, item, u)
    PROVE  Inv'
<1>1. /\ pc \in [Deployment -> Step] /\ pc[d] = "loop" /\ call[d] \in Call
      /\ call \in [Deployment -> Call \cup {NoCall}]
      /\ UNCHANGED <<rows, volumeRows, containers, volumes, parents, deletion>>
      /\ OperationInv(d) /\ TablesInv
  BY CallType DEF Inv, TypeOK, RecreateNext, Goto, engine
<1>2. /\ call[d].kind = "recreate" /\ ~ Targeting(d) /\ ~ Replacing(d)
      /\ item.id \in Uuid /\ item.name \in Uuid /\ item.mounts \subseteq Ref
  BY <1>1 DEF OperationInv, StepInv, Call, Item, Targeting, Replacing
<1>3. CASE /\ call' = [call EXCEPT ![d].todo = @ \ {item}, ![d].errors = TRUE]
           /\ UNCHANGED <<pc, used>>
  <2>1. SameCall(d) /\ \A e \in Deployment : e # d => call'[e] = call[e]
    BY <1>1, <1>3 DEF SameCall, Call
  <2>2. OthersEffect(d) /\ ContainersEffect(d)
    BY <1>1, <1>3, <2>1 DEF OthersEffect, ContainersEffect, Same
  <2>. QED  BY <1>1, <1>2, <1>3, <2>1, <2>2, EndRule
<1>4. CASE /\ u \in Uuid \ used
           /\ Goto(d, "stop")
           /\ call' = [call EXCEPT ![d].todo = @ \ {item}, ![d].id = item.id,
                                   ![d].old = item.name, ![d].name = u,
                                   ![d].mounts = item.mounts]
           /\ used' = used \cup {u}
  <2>1. pc'[d] = "stop" /\ \A e \in Deployment : e # d => pc'[e] = pc[e]
    BY <1>1, <1>4 DEF Goto
  <2>2. /\ \A e \in Deployment : e # d => call'[e] = call[e]
        /\ call'[d].kind = call[d].kind /\ call'[d].id = item.id
        /\ call'[d].old = item.name /\ call'[d].name = u
        /\ call'[d].mounts = item.mounts /\ call'[d].refs = call[d].refs
        /\ call'[d].done = call[d].done /\ call'[d].parent = call[d].parent
        /\ call'[d].todo = call[d].todo \ {item}
    BY <1>1, <1>4 DEF Call
  <2>3. Targeting(d)' /\ Replacing(d)' /\ ~ Cleared(d)' /\ RowsOf(d)' = RowsOf(d)
    BY <1>1, <1>2, <2>1, <2>2, AuxDeploymentsAssumption DEF Targeting, Replacing, Cleared, RowsOf
  <2>4. /\ \A i \in Uuid : Concerns(d, i)' => Concerns(d, i)
        /\ \A n \in Uuid : IsTarget(d, n)' => n = u
        /\ \A i, n \in Uuid : Holds(d, i, n)' => Holds(d, i, n)
        /\ Concerns(d, item.id)
    BY <1>1, <1>2, <2>1, <2>2, <2>3 DEF Concerns, IsTarget, Holds
  <2>5. Effect(d) /\ Grows(d) /\ KeysHold(d)
    BY <1>1, <1>4, <2>1, <2>2, <2>4
       DEF Effect, RowsEffect, Kept, ContainersEffect, Same, OthersEffect, Grows, KeysHold,
           TablesInv
  <2>6. StepInv(d)'
    BY <1>1, <1>2, <2>1, <2>2, <2>3 DEF OperationInv, StepInv
  <2>7. IdsInv(d)'
    BY <1>1, <1>4, <2>4 DEF OperationInv, IdsInv
  <2>8. TargetInv(d)'
    BY <1>1, <1>4, <2>4 DEF TargetInv, TablesInv
  <2>9. HeldInv(d)'
    BY <1>1, <1>4, <2>4 DEF OperationInv, HeldInv
  <2>10. ClearedInv(d)'
    BY <2>1, <2>3 DEF ClearedInv
  <2>11. ItemsInv(d)'
    <3>1. \A x \in call[d].todo \ {item} : x.id # item.id
      BY <1>1 DEF OperationInv, ItemsInv
    <3>2. item.id \notin call[d].done /\
          (item.id \in RowsOf(d) => rows[item.id].mounts = item.mounts)
      BY <1>1, <1>2 DEF OperationInv, ItemsInv, RowsOf
    <3>. QED  BY <1>1, <1>2, <2>1, <2>2, <2>3, <3>1, <3>2 DEF OperationInv, ItemsInv
  <2>12. VolumesInv(d)'
    BY <1>1, <1>2, <2>1, <2>2, <2>3 DEF OperationInv, VolumesInv
  <2>13. DoneInv(d)'
    <3>1. \A i \in RowsOf(d) : Complete(d, i) => Complete(d, i)'
      BY <1>1 DEF Complete
    <3>. QED  BY <1>1, <1>2, <2>1, <2>2, <2>3, <3>1 DEF OperationInv, DoneInv
  <2>. QED  BY <2>5, <2>6, <2>7, <2>8, <2>9, <2>10, <2>11, <2>12, <2>13, StepRule
            DEF OperationInv
<1>. QED  BY <1>3, <1>4 DEF RecreateNext

\* Steps after the last change to the engine.
LEMMA LastSteps ==
    ASSUME Inv, TypeOK', NEW d \in Deployment,
           \/ EndRecreate(d) \/ Rollback(d) \/ DeleteRows(d) \/ DeleteFails(d)
    PROVE  Inv'
<1>1. /\ pc \in [Deployment -> Step] /\ pc[d] # "idle"
      /\ UNCHANGED <<volumeRows, containers, volumes, call, used, parents, deletion>>
      /\ OperationInv(d)
  BY DEF Inv, TypeOK, EndRecreate, Rollback, DeleteRows, DeleteFails, Goto, engine
<1>2. SameCall(d) /\ ContainersEffect(d)
  BY <1>1 DEF SameCall, ContainersEffect, Same
<1>3. \A e \in Deployment : e # d => pc'[e] = pc[e]
  BY <1>1 DEF EndRecreate, Rollback, DeleteRows, DeleteFails, Goto
<1>4. OthersEffect(d)
  BY <1>1, <1>3 DEF OthersEffect
<1>5. CASE EndRecreate(d)
  <2>1. pc[d] = "loop" /\ pc'[d] = "ok" /\ UNCHANGED rows /\ call[d].kind = "recreate"
    BY <1>1, <1>5 DEF EndRecreate, Goto, OperationInv, StepInv
  <2>. QED  BY <1>1, <1>2, <1>4, <2>1, EndRule
<1>6. CASE Rollback(d)
  <2>1. pc[d] = "rollback" /\ pc'[d] = "failed"
    BY <1>1, <1>6 DEF Rollback, Goto
  <2>2. \A i \in Uuid : rows'[i] = rows[i] \/ rows'[i] = NoRow
    BY <1>6 DEF Rollback, Inv, TypeOK
  <2>. QED  BY <1>1, <1>2, <1>4, <2>1, <2>2, EndRule
<1>7. CASE DeleteRows(d)
  <2>1. pc[d] = "deleteRows" /\ pc'[d] = "ok"
    BY <1>1, <1>7 DEF DeleteRows, Goto
  <2>2. \A i \in Uuid : (rows'[i] = rows[i] \/ rows'[i] = NoRow) /\ (i \in call[d].done => rows'[i] = NoRow)
    BY <1>7 DEF DeleteRows
  <2>3. call[d].done \subseteq Uuid
    BY <1>1, CallType DEF Inv, Call
  <2>. QED  BY <1>1, <1>2, <1>4, <2>1, <2>2, <2>3, EndRule
<1>8. CASE DeleteFails(d)
  <2>1. pc'[d] = "failed" /\ UNCHANGED rows
    BY <1>1, <1>8 DEF DeleteFails, Goto
  <2>. QED  BY <1>1, <1>2, <1>4, <2>1, EndRule
<1>. QED  BY <1>5, <1>6, <1>7, <1>8

LEMMA RemoveContainersStep ==
    ASSUME Inv, TypeOK', NEW d \in Deployment, RemoveContainers(d)
    PROVE  Inv'
<1>1. /\ pc \in [Deployment -> Step] /\ pc[d] = "removeContainers" /\ call[d] \in Call
      /\ call \in [Deployment -> Call \cup {NoCall}]
      /\ UNCHANGED <<rows, volumeRows, volumes, used, parents, deletion>>
      /\ OperationInv(d) /\ TablesInv /\ call[d].kind = "delete"
  BY CallType DEF Inv, TypeOK, RemoveContainers, Goto, OperationInv, StepInv
<1>2. pc'[d] = "deleteRows" /\ \A e \in Deployment : e # d => pc'[e] = pc[e]
  BY <1>1 DEF RemoveContainers, Goto
<1>3. PICK S \in SUBSET call[d].todo :
          /\ containers' = [n \in Uuid |-> IF n \in Names(S) THEN Absent ELSE containers[n]]
          /\ call' = [call EXCEPT ![d].done = Ids(S), ![d].errors = S # call[d].todo]
  BY DEF RemoveContainers
<1>4. /\ \A e \in Deployment : e # d => call'[e] = call[e]
      /\ call'[d].kind = "delete" /\ call'[d].id = call[d].id
      /\ call'[d].todo = call[d].todo /\ call'[d].parent = call[d].parent
      /\ call'[d].done = Ids(S)
  BY <1>1, <1>3 DEF Call
<1>5. \A x \in call[d].todo : x.id \in Uuid /\ x.name \in Uuid
  BY <1>1 DEF Call, Item
<1>6. \A x \in S : Holds(d, x.id, x.name)
  BY <1>1 DEF Holds
<1>7. ~ Targeting(d)' /\ ~ Replacing(d)' /\ ~ Cleared(d)'
  BY <1>2 DEF Targeting, Replacing, Cleared
<1>8. /\ \A i \in Uuid : Concerns(d, i)' => Concerns(d, i)
      /\ \A n \in Uuid : ~ IsTarget(d, n)'
      /\ \A i, n \in Uuid : Holds(d, i, n)' => Holds(d, i, n)
  BY <1>1, <1>2, <1>4, <1>7 DEF Concerns, IsTarget, Holds, Ids
<1>9. /\ \A n \in Uuid : containers'[n] # Absent => containers'[n] = containers[n]
      /\ \A x \in S : containers'[x.name] = Absent
  BY <1>3, <1>5 DEF Names
<1>10. ContainersEffect(d)
  BY <1>3, <1>5, <1>6 DEF ContainersEffect, Same, Names
<1>11. Effect(d) /\ Grows(d) /\ KeysHold(d)
  BY <1>1, <1>2, <1>4, <1>8, <1>10
     DEF Effect, RowsEffect, Kept, OthersEffect, Grows, KeysHold, TablesInv
<1>12. StepInv(d)'
  BY <1>1, <1>2, <1>4 DEF OperationInv, StepInv
<1>13. IdsInv(d)'
  BY <1>1, <1>8 DEF OperationInv, IdsInv
<1>14. TargetInv(d)'
  BY <1>8 DEF TargetInv
<1>15. HeldInv(d)'
  BY <1>1, <1>8, <1>9 DEF OperationInv, HeldInv
<1>16. ClearedInv(d)'
  BY <1>2, <1>7 DEF ClearedInv
<1>17. ItemsInv(d)'
  BY <1>1, <1>2, <1>4 DEF OperationInv, ItemsInv
<1>18. VolumesInv(d)'
  BY <1>2, <1>4 DEF VolumesInv
<1>19. DoneInv(d)'
  <2>1. ASSUME NEW i \in Ids(S)
        PROVE  Without(i)' /\ (rows[i] # NoRow => containers'[rows[i].name] = Absent)
    <3>1. PICK x \in S : x.id = i
      BY DEF Ids
    <3>2. Holds(d, i, x.name) /\ i \in Uuid /\ x.name \in Uuid
      BY <1>5, <1>6, <3>1
    <3>3. /\ rows[i] # NoRow => rows[i].name = x.name
          /\ \A m \in Uuid : containers[m] # Absent /\ containers[m].aux = i => m = x.name
      BY <1>1, <3>2 DEF OperationInv, HeldInv
    <3>. QED  BY <1>9, <3>3 DEF Without
  <2>. QED  BY <1>1, <1>2, <1>4, <2>1 DEF DoneInv
<1>. QED  BY <1>11, <1>12, <1>13, <1>14, <1>15, <1>16, <1>17, <1>18, <1>19, StepRule
          DEF OperationInv

\* Operations on volumes are about no id.
LEMMA VolumeSteps ==
    ASSUME Inv, TypeOK', NEW d \in Deployment, RemoveVolumes(d) \/ DeleteVolumeRows(d)
    PROVE  Inv'
<1>1. /\ pc \in [Deployment -> Step] /\ call[d] \in Call
      /\ pc[d] \in {"removeVolumes", "deleteVolumeRows"}
      /\ call \in [Deployment -> Call \cup {NoCall}]
      /\ UNCHANGED <<containers, used, parents, deletion>>
      /\ OperationInv(d) /\ TablesInv
  BY CallType DEF Inv, TypeOK, RemoveVolumes, DeleteVolumeRows, Goto, engine
<1>2. /\ call[d].kind \in {"deleteVolumes", "deleteUnused"}
      /\ call[d].id = NoName /\ call[d].todo = {} /\ call[d].done = {}
  BY <1>1 DEF OperationInv, StepInv
<1>3. /\ pc'[d] \in {"deleteVolumeRows", "ok"}
      /\ \A e \in Deployment : e # d => pc'[e] = pc[e] /\ call'[e] = call[e]
      /\ call'[d].kind = call[d].kind /\ call'[d].id = NoName
      /\ call'[d].todo = {} /\ call'[d].done = {} /\ call'[d].parent = call[d].parent
  <2>1. CASE RemoveVolumes(d)
    <3>1. PICK S : call' = [call EXCEPT ![d].refs = S, ![d].errors = S # call[d].refs]
      BY <2>1 DEF RemoveVolumes
    <3>2. pc' = [pc EXCEPT ![d] = "deleteVolumeRows"]
      BY <2>1 DEF RemoveVolumes, Goto
    <3>. QED  BY <1>1, <1>2, <3>1, <3>2 DEF Call
  <2>2. CASE DeleteVolumeRows(d)
    BY <1>1, <1>2, <2>2 DEF DeleteVolumeRows, Goto
  <2>. QED  BY <1>1, <2>1, <2>2
<1>4. ~ Targeting(d)' /\ ~ Replacing(d)' /\ ~ Cleared(d)'
  BY <1>3 DEF Targeting, Replacing, Cleared
<1>5. /\ \A i \in Uuid : ~ Concerns(d, i)'
      /\ \A n \in Uuid : ~ IsTarget(d, n)'
      /\ \A i, n \in Uuid : ~ Holds(d, i, n)'
  BY <1>3, <1>4 DEF Concerns, IsTarget, Holds
<1>6. /\ \A i \in Uuid : rows'[i] # NoRow =>
            /\ rows[i] # NoRow /\ rows'[i].dep = rows[i].dep /\ rows'[i].name = rows[i].name
            /\ rows[i].dep # d => rows'[i].mounts = rows[i].mounts
            /\ rows[i].dep = d => \A r \in rows'[i].mounts :
                  r \in rows[i].mounts /\ (<<d, r>> \in volumeRows => <<d, r>> \in volumeRows')
      /\ \A e \in Deployment, r \in Ref : e # d =>
            /\ <<e, r>> \in volumes' <=> <<e, r>> \in volumes
            /\ <<e, r>> \in volumeRows' <=> <<e, r>> \in volumeRows
  <2>1. CASE RemoveVolumes(d)
    BY <2>1 DEF RemoveVolumes
  <2>2. CASE DeleteVolumeRows(d)
    <3>1. PICK R : volumeRows' = volumeRows \ ({d} \X R) /\ rows' = Unmount(d, R)
      BY <2>2 DEF DeleteVolumeRows
    <3>2. UNCHANGED volumes
      BY <2>2 DEF DeleteVolumeRows, engine
    <3>3. ASSUME NEW i \in Uuid, rows'[i] # NoRow
          PROVE  /\ rows[i] # NoRow /\ rows'[i].dep = rows[i].dep /\ rows'[i].name = rows[i].name
                 /\ rows[i].dep # d => rows'[i].mounts = rows[i].mounts
                 /\ rows[i].dep = d => rows'[i].mounts = rows[i].mounts \ R
      <4>1. CASE i \in RowsOf(d)
        <5>1. rows'[i] = [rows[i] EXCEPT !.mounts = @ \ R] /\ rows[i] \in Row
              /\ rows[i] # NoRow /\ rows[i].dep = d
          BY <3>1, <4>1, RowType DEF Unmount, RowsOf, Inv
        <5>. QED  BY <5>1 DEF Row
      <4>2. CASE i \notin RowsOf(d)
        BY <3>1, <3>3, <4>2 DEF Unmount, RowsOf
      <4>. QED  BY <4>1, <4>2
    <3>. QED  BY <3>1, <3>2, <3>3
  <2>. QED  BY <2>1, <2>2
<1>7. Effect(d) /\ Grows(d)
  BY <1>1, <1>3, <1>5, <1>6
     DEF Effect, RowsEffect, Kept, ContainersEffect, Same, OthersEffect, Grows
<1>8. KeysHold(d)
  BY <1>1, <1>6 DEF KeysHold, TablesInv
<1>9. StepInv(d)'
  BY <1>1, <1>2, <1>3 DEF OperationInv, StepInv
<1>10. IdsInv(d)' /\ TargetInv(d)' /\ HeldInv(d)'
  BY <1>5 DEF IdsInv, TargetInv, HeldInv
<1>11. ClearedInv(d)' /\ ItemsInv(d)' /\ DoneInv(d)'
  BY <1>2, <1>3, <1>4 DEF ClearedInv, ItemsInv, DoneInv
<1>12. VolumesInv(d)'
  <2>1. pc'[d] = "deleteVolumeRows" => \A r \in call'[d].refs : <<d, r>> \notin volumes'
    <3>1. CASE RemoveVolumes(d)
      <4>1. PICK S : volumes' = volumes \ ({d} \X S) /\
                     call' = [call EXCEPT ![d].refs = S, ![d].errors = S # call[d].refs]
        BY <3>1 DEF RemoveVolumes
      <4>2. call'[d].refs = S
        BY <1>1, <4>1 DEF Call
      <4>. QED  BY <4>1, <4>2
    <3>2. CASE DeleteVolumeRows(d)
      BY <1>1, <3>2 DEF DeleteVolumeRows, Goto
    <3>. QED  BY <3>1, <3>2
  <2>. QED  BY <1>2, <1>3, <2>1 DEF VolumesInv
<1>. QED  BY <1>7, <1>8, <1>9, <1>10, <1>11, <1>12, StepRule DEF OperationInv

LEMMA ReturnStep ==
    ASSUME Inv, TypeOK', NEW d \in Deployment, Return(d)
    PROVE  Inv'
<1>1. /\ pc \in [Deployment -> Step] /\ pc[d] # "idle"
      /\ call \in [Deployment -> Call \cup {NoCall}]
      /\ UNCHANGED <<rows, volumeRows, containers, volumes, used, parents>>
      /\ OperationInv(d) /\ TablesInv
  BY DEF Inv, TypeOK, Return, tables, engine
<1>2. pc'[d] = "idle" /\ \A e \in Deployment : e # d => pc'[e] = pc[e] /\ call'[e] = call[e]
  BY <1>1 DEF Return
<1>3. deletion' # NoDeletion => deletion # NoDeletion /\ deletion'.dep = deletion.dep
  <2>1. call[d].parent => deletion \in Deletion
    BY <1>1 DEF OperationInv, StepInv, Inv, TypeOK
  <2>2. CASE call[d].parent
    <3>1. \/ deletion' = NoDeletion
          \/ deletion' = [deletion EXCEPT !.step = "volumes", !.errors = call[d].errors]
          \/ deletion' = [deletion EXCEPT !.step = "row"]
      BY <2>2 DEF Return
    <3>. QED  BY <2>1, <2>2, <3>1, AuxDeploymentsAssumption DEF Deletion
  <2>3. CASE ~ call[d].parent
    BY <2>3 DEF Return
  <2>. QED  BY <2>2, <2>3
<1>4. \A e \in Deployment : e # d /\ pc[e] # "idle" /\ call[e].parent => deletion' = deletion
  BY <1>1 DEF Return, Inv, OperationInv, StepInv
<1>5. ~ Targeting(d)' /\ ~ Replacing(d)' /\ ~ Cleared(d)'
  BY <1>2 DEF Targeting, Replacing, Cleared
<1>6. /\ \A i \in Uuid : ~ Concerns(d, i)'
      /\ \A n \in Uuid : ~ IsTarget(d, n)'
      /\ \A i, n \in Uuid : ~ Holds(d, i, n)'
  BY <1>2, <1>5 DEF Concerns, IsTarget, Holds
<1>7. Effect(d) /\ Grows(d) /\ KeysHold(d)
  BY <1>1, <1>2, <1>3, <1>4, <1>6
     DEF Effect, RowsEffect, Kept, ContainersEffect, Same, OthersEffect, Grows, KeysHold,
         TablesInv
<1>8. OperationInv(d)'
  BY <1>2, <1>5, <1>6
     DEF OperationInv, StepInv, IdsInv, TargetInv, HeldInv, ClearedInv, ItemsInv, VolumesInv,
         DoneInv
<1>. QED  BY <1>7, <1>8, StepRule

-----------------------------------------------------------------------------
(* The beginning of an operation. *)

LEMMA BeginEffect ==
    ASSUME Inv, TypeOK', NEW d \in Deployment, NEW c, NEW first, Begin(d, c, first)
    PROVE  /\ pc'[d] = first /\ call'[d] = c
           /\ Effect(d) /\ KeysHold(d) /\ TablesInv
           /\ used' = used \cup ({c.name} \ {NoName})
           /\ UNCHANGED <<rows, volumeRows, containers, volumes, parents, deletion>>
<1>1. pc \in [Deployment -> Step] /\ call \in [Deployment -> Call \cup {NoCall}] /\ TablesInv
  BY DEF Inv, TypeOK
<1>2. /\ UNCHANGED <<rows, volumeRows, containers, volumes, parents, deletion>>
      /\ used' = used \cup ({c.name} \ {NoName})
      /\ pc' = [pc EXCEPT ![d] = first] /\ call' = [call EXCEPT ![d] = c]
  BY DEF Begin, tables, engine
<1>3. \A e \in Deployment : e # d => pc'[e] = pc[e] /\ call'[e] = call[e]
  BY <1>1, <1>2
<1>4. RowsEffect(d) /\ ContainersEffect(d)
  BY <1>2 DEF RowsEffect, Kept, ContainersEffect, Same
<1>5. OthersEffect(d)
  BY <1>2, <1>3 DEF OthersEffect
<1>6. KeysHold(d)
  BY <1>1, <1>2 DEF KeysHold, TablesInv
<1>. QED  BY <1>1, <1>2, <1>4, <1>5, <1>6 DEF Effect

\* What a row of the table stands for.
LEMMA RowHeld ==
    ASSUME Inv, NEW d \in Deployment, NEW i \in RowsOf(d)
    PROVE  /\ i \in Uuid /\ i \in used /\ rows[i] # NoRow /\ rows[i].dep = d
           /\ rows[i].name \in Uuid /\ rows[i].name \in used
           /\ \A j \in Uuid : rows[j] # NoRow /\ rows[j].name = rows[i].name => j = i
           /\ \A m \in Uuid : containers[m] # Absent /\ containers[m].aux = i => m = rows[i].name
           /\ \A r \in rows[i].mounts : r \in RefsOf(d)
<1>1. i \in Uuid /\ rows[i] # NoRow /\ rows[i].dep = d /\ rows[i] \in Row
  BY RowType DEF RowsOf, Inv
<1>2. i # NoName
  BY <1>1, AuxDeploymentsAssumption
<1>3. \A m \in Uuid : containers[m] # Absent /\ containers[m].aux = i => m = rows[i].name
  BY <1>1, <1>2 DEF Inv, OneContainerPerRow, Exists
<1>. QED  BY <1>1, <1>3 DEF Inv, TablesInv, Row, RefsOf

LEMMA BeginWriteStep ==
    ASSUME Inv, TypeOK', NEW d \in Deployment, NEW u \in Uuid, NEW M \in SUBSET Ref,
           \/ Create(d, u, M) \/ UpdateUnknown(d, u, M)
           \/ \E i \in Uuid : Update(d, i, u, M)
    PROVE  Inv'
<1>1. PICK c : /\ Begin(d, c, "volumeRows") /\ u \notin used
               /\ c.name = u /\ c.mounts = M /\ c.refs = RefsOf(d)
               /\ c.todo = {} /\ c.done = {} /\ c.parent = FALSE
               /\ \/ c.kind = "create" /\ c.id = u /\ c.old = NoName
                  \/ c.kind = "update" /\ c.id = NoName /\ c.old = NoName
                  \/ c.kind = "update" /\ c.id \in RowsOf(d) /\ c.old = rows[c.id].name
  <2>1. CASE Create(d, u, M)
    <3>1. \E c : /\ c = [NewCall("create") EXCEPT !.id = u, !.name = u, !.mounts = M,
                                                   !.refs = RefsOf(d)]
                 /\ Begin(d, c, "volumeRows")
      BY <2>1 DEF Create
    <3>. QED  BY <2>1, <3>1 DEF Create, NewCall
  <2>2. CASE UpdateUnknown(d, u, M)
    <3>1. \E c : /\ c = [NewCall("update") EXCEPT !.name = u, !.mounts = M,
                                                   !.refs = RefsOf(d)]
                 /\ Begin(d, c, "volumeRows")
      BY <2>2 DEF UpdateUnknown
    <3>. QED  BY <2>2, <3>1 DEF UpdateUnknown, NewCall
  <2>3. CASE \E i \in Uuid : Update(d, i, u, M)
    <3>1. PICK i \in RowsOf(d) : Update(d, i, u, M)
      BY <2>3 DEF Update
    <3>2. PICK c : /\ c = [NewCall("update") EXCEPT !.id = i, !.old = rows[i].name,
                                                     !.name = u, !.mounts = M,
                                                     !.refs = RefsOf(d)]
                   /\ Begin(d, c, "volumeRows")
      BY <3>1 DEF Update
    <3>3. /\ c.name = u /\ c.mounts = M /\ c.refs = RefsOf(d) /\ c.id = i
          /\ c.old = rows[i].name /\ c.todo = {} /\ c.done = {} /\ c.parent = FALSE
          /\ c.kind = "update"
      BY <3>2 DEF NewCall
    <3>4. u \notin used
      BY <3>1 DEF Update
    <3>. QED  BY <3>2, <3>3, <3>4
  <2>. QED  BY <2>1, <2>2, <2>3
<1>2. /\ pc'[d] = "volumeRows" /\ call'[d] = c /\ u \in used'
      /\ Effect(d) /\ KeysHold(d) /\ TablesInv /\ used \subseteq used'
      /\ UNCHANGED <<rows, volumeRows, containers, volumes, parents, deletion>>
  BY <1>1, BeginEffect, AuxDeploymentsAssumption
<1>3. /\ c.id \in RowsOf(d) =>
            /\ c.id \in Uuid /\ c.id \in used /\ c.old \in Uuid /\ c.old \in used
            /\ rows[c.id].dep = d /\ rows[c.id].name = c.old
            /\ \A j \in Uuid : rows[j] # NoRow /\ rows[j].name = c.old => j = c.id
            /\ \A m \in Uuid : containers[m] # Absent /\ containers[m].aux = c.id => m = c.old
            /\ c.kind = "update"
  <2>1. u \notin RowsOf(d) /\ NoName \notin RowsOf(d)
    BY <1>1, RowHeld, AuxDeploymentsAssumption
  <2>. QED  BY <1>1, <2>1, RowHeld
<1>4. rows[u] = NoRow /\ containers[u] = Absent /\ Without(u)
      /\ \A i \in Uuid : rows[i] # NoRow => rows[i].name # u
  BY <1>1, <1>2, AuxDeploymentsAssumption DEF TablesInv, Without
<1>5. Targeting(d)' /\ (Cleared(d)' => c.kind = "create")
      /\ (Replacing(d)' => c.id \in RowsOf(d))
  BY <1>1, <1>2 DEF Targeting, Cleared, Replacing
<1>6. /\ \A i \in Uuid : Concerns(d, i)' => i = c.id /\ (i = u \/ i \in RowsOf(d))
      /\ \A n \in Uuid : IsTarget(d, n)' => n = u
      /\ \A i, n \in Uuid : Holds(d, i, n)' => i \in RowsOf(d) /\ i = c.id /\ n = c.old
  BY <1>1, <1>2, <1>5, AuxDeploymentsAssumption DEF Concerns, IsTarget, Holds
<1>7. Grows(d)
  BY <1>1, <1>3, <1>6 DEF Grows
<1>8. StepInv(d)'
  <2>1. c.old = NoName <=> c.id = NoName \/ c.kind = "create"
    BY <1>1, <1>3, AuxDeploymentsAssumption
  <2>. QED  BY <1>1, <1>2, <1>5, <2>1 DEF StepInv
<1>9. IdsInv(d)'
  BY <1>2, <1>3, <1>4, <1>6 DEF IdsInv
<1>10. TargetInv(d)'
  BY <1>2, <1>4, <1>6 DEF TargetInv
<1>11. HeldInv(d)'
  BY <1>1, <1>2, <1>3, <1>6 DEF HeldInv
<1>12. ClearedInv(d)'
  BY <1>1, <1>2, <1>4, <1>5 DEF ClearedInv, Without
<1>13. ItemsInv(d)' /\ DoneInv(d)'
  BY <1>1, <1>2 DEF ItemsInv, DoneInv
<1>14. VolumesInv(d)'
  BY <1>1, <1>2 DEF VolumesInv, RefsOf
<1>. QED  BY <1>2, <1>7, <1>8, <1>9, <1>10, <1>11, <1>12, <1>13, <1>14, StepRule
          DEF OperationInv

LEMMA BeginItemsStep ==
    ASSUME Inv, TypeOK', NEW d \in Deployment, NEW S \in SUBSET ItemsOf(d),
           Recreate(d, S) \/ Delete(d, S) \/ DeleteAuxDeployments(d)
    PROVE  Inv'
<1>1. PICK c, first, T :
          /\ Begin(d, c, first) /\ c.name = NoName /\ c.id = NoName /\ c.old = NoName
          /\ T \in SUBSET ItemsOf(d) /\ c.todo = T /\ c.done = {}
          /\ \/ first = "ensure" /\ c.kind = "recreate" /\ c.refs = RefsOf(d)
             \/ first = "removeContainers" /\ c.kind = "delete"
          /\ c.parent => deletion # NoDeletion /\ deletion.dep = d /\ deletion.step = "containers"
  <2>1. CASE Recreate(d, S)
    <3>1. \E c : /\ c = [NewCall("recreate") EXCEPT !.todo = S, !.refs = RefsOf(d)]
                 /\ Begin(d, c, "ensure")
      BY <2>1 DEF Recreate
    <3>. QED  BY <3>1 DEF NewCall
  <2>2. CASE Delete(d, S)
    BY <2>2 DEF Delete, NewCall
  <2>3. CASE DeleteAuxDeployments(d)
    <3>1. \E c : /\ c = [NewCall("delete") EXCEPT !.todo = ItemsOf(d), !.parent = TRUE]
                 /\ Begin(d, c, "removeContainers")
      BY <2>3 DEF DeleteAuxDeployments
    <3>2. DeletionAt(d, "containers") /\ ItemsOf(d) \in SUBSET ItemsOf(d)
      BY <2>3 DEF DeleteAuxDeployments
    <3>. QED  BY <3>1, <3>2 DEF DeletionAt, NewCall
  <2>. QED  BY <2>1, <2>2, <2>3
<1>2. /\ pc'[d] = first /\ call'[d] = c /\ used \subseteq used'
      /\ Effect(d) /\ KeysHold(d) /\ TablesInv
      /\ UNCHANGED <<rows, volumeRows, containers, volumes, parents, deletion>>
  BY <1>1, BeginEffect
<1>3. \A x \in T : /\ x.id \in RowsOf(d) /\ x.name = rows[x.id].name
                   /\ x.mounts = rows[x.id].mounts
                   /\ x = [id |-> x.id, name |-> x.name, mounts |-> x.mounts]
  BY <1>1 DEF ItemsOf
<1>4. ~ Targeting(d)' /\ ~ Replacing(d)' /\ ~ Cleared(d)'
  BY <1>1, <1>2 DEF Targeting, Replacing, Cleared
<1>5. /\ \A i \in Uuid : Concerns(d, i)' => i \in RowsOf(d)
      /\ \A n \in Uuid : ~ IsTarget(d, n)'
      /\ \A i, n \in Uuid : Holds(d, i, n)' => i \in RowsOf(d) /\ n = rows[i].name
  BY <1>1, <1>2, <1>3, <1>4 DEF Concerns, IsTarget, Holds
<1>6. Grows(d)
  BY <1>5 DEF Grows
<1>7. StepInv(d)'
  BY <1>1, <1>2, <1>4 DEF StepInv
<1>8. IdsInv(d)'
  BY <1>2, <1>5, RowHeld DEF IdsInv
<1>9. TargetInv(d)'
  BY <1>5 DEF TargetInv
<1>10. HeldInv(d)'
  BY <1>2, <1>5, RowHeld DEF HeldInv
<1>11. ClearedInv(d)'
  BY <1>1, <1>2, <1>4 DEF ClearedInv
<1>12. ItemsInv(d)'
  <2>1. \A x, y \in T : x.id = y.id => x = y
    BY <1>3
  <2>. QED  BY <1>1, <1>2, <1>3, <1>4, <2>1 DEF ItemsInv
<1>13. VolumesInv(d)'
  BY <1>1, <1>2, <1>3, <1>4, RowHeld DEF VolumesInv
<1>14. DoneInv(d)'
  BY <1>1, <1>2 DEF DoneInv
<1>. QED  BY <1>2, <1>6, <1>7, <1>8, <1>9, <1>10, <1>11, <1>12, <1>13, <1>14, StepRule
          DEF OperationInv

LEMMA BeginVolumesStep ==
    ASSUME Inv, TypeOK', NEW d \in Deployment, NEW R \in SUBSET RefsOf(d),
           DeleteVolumes(d, R) \/ DeleteUnusedVolumes(d, R) \/ DeleteAuxVolumes(d)
    PROVE  Inv'
<1>1. PICK c : /\ Begin(d, c, "removeVolumes") /\ c.name = NoName /\ c.id = NoName
               /\ c.todo = {} /\ c.done = {}
               /\ c.kind \in {"deleteVolumes", "deleteUnused"}
               /\ c.kind = "deleteUnused" => c.refs \cap Mounted(d) = {}
               /\ c.parent => /\ deletion # NoDeletion /\ deletion.dep = d
                              /\ deletion.step = "volumes"
  <2>1. CASE DeleteVolumes(d, R)
    BY <2>1 DEF DeleteVolumes, NewCall
  <2>2. CASE DeleteUnusedVolumes(d, R)
    BY <2>2 DEF DeleteUnusedVolumes, NewCall
  <2>3. CASE DeleteAuxVolumes(d)
    BY <2>3 DEF DeleteAuxVolumes, DeletionAt, NewCall
  <2>. QED  BY <2>1, <2>2, <2>3
<1>2. /\ pc'[d] = "removeVolumes" /\ call'[d] = c
      /\ Effect(d) /\ KeysHold(d)
      /\ UNCHANGED <<rows, volumeRows, containers, volumes, parents, deletion>>
  BY <1>1, BeginEffect
<1>3. ~ Targeting(d)' /\ ~ Replacing(d)' /\ ~ Cleared(d)'
  BY <1>2 DEF Targeting, Replacing, Cleared
<1>4. /\ \A i \in Uuid : ~ Concerns(d, i)'
      /\ \A n \in Uuid : ~ IsTarget(d, n)'
      /\ \A i, n \in Uuid : ~ Holds(d, i, n)'
  BY <1>1, <1>2, <1>3 DEF Concerns, IsTarget, Holds
<1>5. Grows(d)
  BY <1>4 DEF Grows
<1>6. StepInv(d)'
  BY <1>1, <1>2 DEF StepInv
<1>7. IdsInv(d)' /\ TargetInv(d)' /\ HeldInv(d)'
  BY <1>4 DEF IdsInv, TargetInv, HeldInv
<1>8. ClearedInv(d)' /\ ItemsInv(d)' /\ DoneInv(d)'
  BY <1>1, <1>2, <1>3 DEF ClearedInv, ItemsInv, DoneInv
<1>9. VolumesInv(d)'
  BY <1>1, <1>2 DEF VolumesInv, Mounted, RowsOf
<1>. QED  BY <1>2, <1>5, <1>6, <1>7, <1>8, <1>9, StepRule DEF OperationInv

-----------------------------------------------------------------------------
(* Everything else: the deletion of the parent, the runtime monitor, requests *)
(* to enable and disable, exits and crashes.                                  *)

LEMMA DeletionSteps ==
    ASSUME Inv, TypeOK', NEW d \in Deployment,
           StartDeletion(d) \/ DeleteParent(d) \/ DeleteParentFails(d)
    PROVE  Inv'
<1>1. /\ UNCHANGED <<pc, call, used, containers, volumes>> /\ TablesInv
      /\ \A n \in Uuid : Stays(n)
  BY DEF Inv, StartDeletion, DeleteParent, DeleteParentFails, engine, Stays, Same
<1>2. \A e \in Deployment : ~ (pc[e] # "idle" /\ call[e].parent)
  BY DEF Inv, OperationInv, StepInv, StartDeletion, DeleteParent, DeleteParentFails, DeletionAt
<1>3. CASE StartDeletion(d)
  <2>1. UNCHANGED <<parents, rows, volumeRows>> /\ deletion'.dep = d /\ d \in parents
    BY <1>3 DEF StartDeletion, tables
  <2>. QED  BY <1>1, <1>2, <2>1, Bystander DEF Lasts, TablesInv
<1>4. CASE DeleteParentFails(d)
  <2>1. UNCHANGED <<parents, rows, volumeRows>> /\ deletion' = NoDeletion
    BY <1>4 DEF DeleteParentFails, tables
  <2>. QED  BY <1>1, <1>2, <2>1, Bystander DEF Lasts, TablesInv
<1>5. CASE DeleteParent(d)
  <2>1. /\ parents' = parents \ {d} /\ deletion' = NoDeletion
        /\ \A i \in Uuid : rows'[i] = IF i \in RowsOf(d) THEN NoRow ELSE rows[i]
        /\ volumeRows' = volumeRows \ ({d} \X Ref)
    BY <1>5 DEF DeleteParent
  <2>2. /\ \A i \in Uuid : Lasts(i)
        /\ \A i \in Uuid : rows'[i] # NoRow => rows'[i].dep \in parents'
    BY <1>1, <2>1 DEF Lasts, RowsOf, TablesInv
  <2>3. \A e \in Deployment : e \in parents' =>
            \A r \in Ref : <<e, r>> \in volumeRows' <=> <<e, r>> \in volumeRows
    BY <2>1
  <2>. QED  BY <1>1, <1>2, <2>1, <2>2, <2>3, Bystander
<1>. QED  BY <1>3, <1>4, <1>5

LEMMA RuntimeSteps ==
    ASSUME Inv, TypeOK', RuntimeNext \/ UNCHANGED vars
    PROVE  Inv'
<1>1. TablesInv /\ containers \in [Uuid -> Container \cup {Absent}]
      /\ rows \in [Uuid -> Row \cup {NoRow}]
  BY DEF Inv, TypeOK
<1>2. SUFFICES /\ UNCHANGED <<pc, call, used, volumes, volumeRows, parents, deletion>>
               /\ \A i \in Uuid : Lasts(i)
               /\ \A n \in Uuid : Stays(n)
  BY <1>1, Bystander DEF Lasts, TablesInv
<1>3. CASE UNCHANGED rows /\ UNCHANGED containers
           /\ UNCHANGED <<pc, call, used, volumes, volumeRows, parents, deletion>>
  BY <1>3 DEF Lasts, Stays, Same
<1>4. ASSUME NEW d \in Deployment, NEW S \in SUBSET RowsOf(d), NEW state \in BOOLEAN,
             SetEnabled(d, S, state)
      PROVE  /\ UNCHANGED <<pc, call, used, volumes, volumeRows, parents, deletion>>
             /\ \A i \in Uuid : Lasts(i)
             /\ \A n \in Uuid : Stays(n)
  <2>1. UNCHANGED <<pc, call, used, volumes, volumeRows, parents, deletion, containers>>
    BY <1>4 DEF SetEnabled, engine, operations
  <2>2. ASSUME NEW i \in Uuid  PROVE Lasts(i)
    <3>1. CASE i \in S
      <4>1. rows'[i] = [rows[i] EXCEPT !.enabled = state] /\ rows[i] \in Row /\ rows[i] # NoRow
        BY <1>1, <1>4, <3>1 DEF SetEnabled, RowsOf
      <4>. QED  BY <4>1 DEF Lasts, Row
    <3>2. CASE i \notin S
      BY <1>4, <3>2 DEF SetEnabled, Lasts
    <3>. QED  BY <3>1, <3>2
  <2>. QED  BY <2>1, <2>2 DEF Stays, Same
<1>5. ASSUME NEW n \in Uuid, NEW b \in BOOLEAN, Exists(n),
             containers' = [containers EXCEPT ![n].running = b],
             UNCHANGED <<rows, pc, call, used, volumes, volumeRows, parents, deletion>>
      PROVE  /\ UNCHANGED <<pc, call, used, volumes, volumeRows, parents, deletion>>
             /\ \A i \in Uuid : Lasts(i)
             /\ \A m \in Uuid : Stays(m)
  <2>1. ASSUME NEW m \in Uuid  PROVE Stays(m)
    <3>1. CASE m = n
      <4>1. containers'[m] = [containers[m] EXCEPT !.running = b] /\ containers[m] \in Container
        BY <1>1, <1>5, <3>1 DEF Exists
      <4>2. containers'[m] \in Container
        BY <4>1 DEF Container
      <4>. QED  BY <4>1, <4>2, <1>5, <3>1, AuxDeploymentsAssumption DEF Stays, Same, Container, Exists
    <3>2. CASE m # n
      BY <1>1, <1>5, <3>2 DEF Stays, Same
    <3>. QED  BY <3>1, <3>2
  <2>. QED  BY <1>5, <2>1 DEF Lasts
<1>6. ASSUME NEW d \in Deployment, Control(d)
      PROVE  /\ UNCHANGED <<pc, call, used, volumes, volumeRows, parents, deletion>>
             /\ \A i \in Uuid : Lasts(i)
             /\ \A m \in Uuid : Stays(m)
  <2>1. ASSUME NEW state \in BOOLEAN, SetActive(d, state)
        PROVE  /\ UNCHANGED <<pc, call, used, volumes, volumeRows, parents, deletion>>
               /\ UNCHANGED rows /\ UNCHANGED containers
    BY <2>1 DEF SetActive, engine, operations
  <2>. QED  BY <1>3, <1>4, <1>6, <2>1 DEF Control
<1>7. ASSUME NEW d \in Deployment, Look(d) \/ Decide(d)
      PROVE  /\ UNCHANGED <<pc, call, used, volumes, volumeRows, parents, deletion>>
             /\ UNCHANGED rows /\ UNCHANGED containers
  BY <1>7 DEF Look, Decide, tables, engine, operations
<1>8. ASSUME NEW d \in Deployment, JobStep(d)
      PROVE  /\ UNCHANGED <<pc, call, used, volumes, volumeRows, parents, deletion>>
             /\ \A i \in Uuid : Lasts(i)
             /\ \A m \in Uuid : Stays(m)
  <2>1. CASE EndJob(d)
    BY <1>3, <2>1 DEF EndJob, tables, engine, operations
  <2>2. ASSUME NEW n \in Uuid, Start(d, n) \/ Stop(d, n)
        PROVE  /\ UNCHANGED <<pc, call, used, volumes, volumeRows, parents, deletion>>
               /\ \A i \in Uuid : Lasts(i)
               /\ \A m \in Uuid : Stays(m)
    <3>1. UNCHANGED <<rows, pc, call, used, volumes, volumeRows, parents, deletion>>
      BY <2>2 DEF Start, Stop, tables, operations
    <3>2. \/ UNCHANGED containers
          \/ \E b \in BOOLEAN : Exists(n) /\ containers' = [containers EXCEPT ![n].running = b]
      BY <2>2 DEF Start, Stop
    <3>. QED  BY <1>3, <1>5, <3>1, <3>2
  <2>. QED  BY <1>8, <2>1, <2>2 DEF JobStep
<1>9. ASSUME NEW n \in Uuid, ContainerExits(n)
      PROVE  /\ UNCHANGED <<pc, call, used, volumes, volumeRows, parents, deletion>>
             /\ \A i \in Uuid : Lasts(i)
             /\ \A m \in Uuid : Stays(m)
  BY <1>5, <1>9 DEF ContainerExits, Running, Exists, tables, operations
<1>10. CASE UNCHANGED vars
  BY <1>3, <1>10 DEF vars, tables, engine, operations
<1>. QED  BY <1>3, <1>6, <1>7, <1>8, <1>9, <1>10 DEF RuntimeNext

LEMMA CrashStep ==
    ASSUME Inv, TypeOK', Crash
    PROVE  Inv'
<1>1. /\ UNCHANGED <<rows, volumeRows, parents, containers, volumes, used>>
      /\ deletion' = NoDeletion /\ \A d \in Deployment : pc'[d] = "idle"
  BY DEF Crash, tables, engine
<1>2. TablesInv' /\ OneContainerPerRow'
  BY <1>1 DEF Inv, TablesInv, OneContainerPerRow, Exists
<1>3. \A d \in Deployment : ~ Targeting(d)' /\ ~ Replacing(d)' /\ ~ Cleared(d)'
  BY <1>1 DEF Targeting, Replacing, Cleared
<1>4. \A d \in Deployment :
        /\ \A i \in Uuid : ~ Concerns(d, i)'
        /\ \A n \in Uuid : ~ IsTarget(d, n)'
        /\ \A i, n \in Uuid : ~ Holds(d, i, n)'
  BY <1>1, <1>3 DEF Concerns, IsTarget, Holds
<1>5. ASSUME NEW d \in Deployment  PROVE OperationInv(d)'
  BY <1>1, <1>3, <1>4
     DEF OperationInv, StepInv, IdsInv, TargetInv, HeldInv, ClearedInv, ItemsInv, VolumesInv,
         DoneInv
<1>6. \A d, e \in Deployment : d # e => Apart(d, e)'
  BY <1>4 DEF Apart
<1>. QED  BY <1>2, <1>5, <1>6 DEF Inv

-----------------------------------------------------------------------------
(* Types. *)

LEMMA CallsTyped ==
    ASSUME TypeOK, NEW d \in Deployment, NEW p \in Step, NEW c \in Call \cup {NoCall},
           p = "idle" <=> c = NoCall,
           pc' = [pc EXCEPT ![d] = p], call' = [call EXCEPT ![d] = c]
    PROVE  /\ pc' \in [Deployment -> Step]
           /\ call' \in [Deployment -> Call \cup {NoCall}]
           /\ \A e \in Deployment : pc'[e] = "idle" <=> call'[e] = NoCall
<1>1. pc \in [Deployment -> Step] /\ call \in [Deployment -> Call \cup {NoCall}]
  BY DEF TypeOK
<1>2. pc' \in [Deployment -> Step] /\ call' \in [Deployment -> Call \cup {NoCall}]
  BY <1>1
<1>3. ASSUME NEW e \in Deployment  PROVE pc'[e] = "idle" <=> call'[e] = NoCall
  BY <1>1 DEF TypeOK
<1>. QED  BY <1>2, <1>3

\* A step of a running operation from p to c, with the rest typed.
LEMMA OperationTyped ==
    ASSUME TypeOK, NEW d \in Deployment, NEW p \in Step \ {"idle"}, NEW c \in Call,
           Goto(d, p), call' = [call EXCEPT ![d] = c],
           rows' \in [Uuid -> Row \cup {NoRow}], volumeRows' \in SUBSET (Deployment \X Ref),
           containers' \in [Uuid -> Container \cup {Absent}],
           volumes' \in SUBSET (Deployment \X Ref), used' \in SUBSET Uuid,
           faults' \in 0..MaxFaults
    PROVE  TypeOK'
<1>1. c # NoCall
  BY AuxDeploymentsAssumption
<1>2. /\ pc' \in [Deployment -> Step]
      /\ call' \in [Deployment -> Call \cup {NoCall}]
      /\ \A e \in Deployment : pc'[e] = "idle" <=> call'[e] = NoCall
  BY <1>1, CallsTyped DEF Goto
<1>. QED  BY <1>2 DEF TypeOK, Goto, monitor

LEMMA FaultsTyped ==
    ASSUME TypeOK, Fault \/ NoFault
    PROVE  faults' \in 0..MaxFaults
  BY AuxDeploymentsAssumption DEF TypeOK, Fault, NoFault

LEMMA FailTyped ==
    ASSUME TypeOK, NEW d \in Deployment, pc[d] # "idle", Fail(d), Fault \/ NoFault,
           UNCHANGED <<rows, volumeRows>>,
           containers' \in [Uuid -> Container \cup {Absent}],
           volumes' \in SUBSET (Deployment \X Ref)
    PROVE  TypeOK'
<1>1. PICK p \in {"loop", "rollback", "failed"} : Goto(d, p)
  BY DEF Fail
<1>2. DEFINE c == [call[d] EXCEPT !.errors = TRUE]
<1>3. call[d] \in Call /\ call \in [Deployment -> Call \cup {NoCall}]
  BY CallType DEF TypeOK
<1>4. c \in Call
  BY <1>3 DEF Call
<1>5. call' = [call EXCEPT ![d] = c]
  BY DEF Fail
<1>6. p \in Step \ {"idle"}
  BY DEF Step
<1>7. /\ rows' \in [Uuid -> Row \cup {NoRow}] /\ volumeRows' \in SUBSET (Deployment \X Ref)
      /\ used' \in SUBSET Uuid
  BY DEF TypeOK, Fail
<1>. HIDE DEF c
<1>. QED  BY <1>1, <1>4, <1>5, <1>6, <1>7, FaultsTyped, OperationTyped

LEMMA BeginTyped ==
    ASSUME TypeOK, NEW d \in Deployment, NEW c \in Call, NEW first \in Step \ {"idle"},
           Begin(d, c, first)
    PROVE  TypeOK'
<1>1. c # NoCall
  BY AuxDeploymentsAssumption
<1>2. /\ pc' \in [Deployment -> Step]
      /\ call' \in [Deployment -> Call \cup {NoCall}]
      /\ \A e \in Deployment : pc'[e] = "idle" <=> call'[e] = NoCall
  BY <1>1, CallsTyped DEF Begin
<1>3. used' \in SUBSET Uuid
  BY DEF Begin, TypeOK, Call
<1>. QED  BY <1>2, <1>3 DEF TypeOK, Begin, tables, engine, monitor

LEMMA RequestTyped ==
    ASSUME TypeOK, NEW d \in Deployment,
           Request(d) \/ DeleteAuxDeployments(d) \/ DeleteAuxVolumes(d)
    PROVE  TypeOK'
<1>1. /\ RefsOf(d) \in SUBSET Ref /\ NoName \in Uuid \cup {NoName}
      /\ ItemsOf(d) \in SUBSET Item
      /\ \A i \in RowsOf(d) : i \in Uuid /\ rows[i].name \in Uuid
  <2>1. \A i \in RowsOf(d) : i \in Uuid /\ rows[i] \in Row
    BY RowType DEF RowsOf
  <2>. QED  BY <2>1 DEF RefsOf, ItemsOf, Item, Row
<1>2. {"volumeRows", "ensure", "removeContainers", "removeVolumes"} \subseteq Step \ {"idle"}
  BY DEF Step
<1>3. ASSUME NEW u \in Uuid, NEW M \in SUBSET Ref,
             \/ Create(d, u, M) \/ UpdateUnknown(d, u, M)
             \/ \E i \in Uuid : Update(d, i, u, M)
      PROVE  TypeOK'
  <2>1. CASE Create(d, u, M)
    <3>1. [NewCall("create") EXCEPT !.id = u, !.name = u, !.mounts = M,
                                    !.refs = RefsOf(d)] \in Call
      BY <1>1 DEF NewCall, Call
    <3>. QED  BY <1>2, <2>1, <3>1, BeginTyped DEF Create
  <2>2. CASE UpdateUnknown(d, u, M)
    <3>1. [NewCall("update") EXCEPT !.name = u, !.mounts = M, !.refs = RefsOf(d)] \in Call
      BY <1>1 DEF NewCall, Call
    <3>. QED  BY <1>2, <2>2, <3>1, BeginTyped DEF UpdateUnknown
  <2>3. ASSUME NEW i \in Uuid, Update(d, i, u, M)  PROVE TypeOK'
    <3>1. [NewCall("update") EXCEPT !.id = i, !.old = rows[i].name, !.name = u, !.mounts = M,
                                    !.refs = RefsOf(d)] \in Call
      BY <1>1, <2>3 DEF NewCall, Call, Update
    <3>. QED  BY <1>2, <2>3, <3>1, BeginTyped DEF Update
  <2>. QED  BY <1>3, <2>1, <2>2, <2>3
<1>4. ASSUME NEW S \in SUBSET ItemsOf(d), Recreate(d, S) \/ Delete(d, S)
      PROVE  TypeOK'
  <2>1. CASE Recreate(d, S)
    <3>1. [NewCall("recreate") EXCEPT !.todo = S, !.refs = RefsOf(d)] \in Call
      BY <1>1 DEF NewCall, Call
    <3>. QED  BY <1>2, <2>1, <3>1, BeginTyped DEF Recreate
  <2>2. CASE Delete(d, S)
    <3>1. [NewCall("delete") EXCEPT !.todo = S] \in Call
      BY <1>1 DEF NewCall, Call
    <3>. QED  BY <1>2, <2>2, <3>1, BeginTyped DEF Delete
  <2>. QED  BY <1>4, <2>1, <2>2
<1>5. ASSUME NEW R \in SUBSET RefsOf(d), DeleteVolumes(d, R) \/ DeleteUnusedVolumes(d, R)
      PROVE  TypeOK'
  <2>1. \A k \in {"deleteVolumes", "deleteUnused"} : [NewCall(k) EXCEPT !.refs = R] \in Call
    BY <1>1 DEF NewCall, Call
  <2>. QED  BY <1>2, <1>5, <2>1, BeginTyped DEF DeleteVolumes, DeleteUnusedVolumes
<1>6. CASE DeleteAuxDeployments(d)
  <2>1. [NewCall("delete") EXCEPT !.todo = ItemsOf(d), !.parent = TRUE] \in Call
    BY <1>1 DEF NewCall, Call
  <2>. QED  BY <1>2, <1>6, <2>1, BeginTyped DEF DeleteAuxDeployments
<1>7. CASE DeleteAuxVolumes(d)
  <2>1. [NewCall("deleteVolumes") EXCEPT !.refs = RefsOf(d), !.parent = TRUE] \in Call
    BY <1>1 DEF NewCall, Call
  <2>. QED  BY <1>2, <1>7, <2>1, BeginTyped DEF DeleteAuxVolumes
<1>. QED  BY <1>3, <1>4, <1>5, <1>6, <1>7 DEF Request

LEMMA StepTyped ==
    ASSUME Inv, NEW d \in Deployment, Operation(d)
    PROVE  TypeOK'
<1>1. /\ TypeOK /\ OperationInv(d)
      /\ rows \in [Uuid -> Row \cup {NoRow}] /\ volumeRows \in SUBSET (Deployment \X Ref)
      /\ containers \in [Uuid -> Container \cup {Absent}]
      /\ volumes \in SUBSET (Deployment \X Ref) /\ used \in SUBSET Uuid
      /\ call \in [Deployment -> Call \cup {NoCall}]
  BY DEF Inv, TypeOK
<1>2. pc[d] # "idle" => call[d] \in Call /\ call[d].refs \subseteq Ref /\ call[d].mounts \subseteq Ref
  BY <1>1, CallType DEF Call
<1>3. {"stop", "remove", "writeRow", "ensure", "createContainer", "loop", "failed", "ok",
       "deleteRows", "deleteVolumeRows"} \subseteq Step \ {"idle"}
  BY DEF Step
<1>4. pc[d] # "idle" /\ call' = call => call' = [call EXCEPT ![d] = call[d]]
  BY <1>1
<1>5. CASE WriteVolumeRows(d)
  <2>1. volumeRows' \in SUBSET (Deployment \X Ref)
    BY <1>1, <1>2, <1>5 DEF WriteVolumeRows
  <2>2. PICK p \in {"writeRow", "stop"} : Goto(d, p)
    BY <1>5 DEF WriteVolumeRows
  <2>. QED  BY <1>1, <1>2, <1>3, <1>4, <1>5, <2>1, <2>2, FaultsTyped, OperationTyped
            DEF WriteVolumeRows, engine, NoFault
<1>6. CASE StopContainer(d)
  <2>1. containers' \in [Uuid -> Container \cup {Absent}]
    <3>1. PICK stopped : /\ stopped = IF Exists(call[d].old)
                              THEN [containers EXCEPT ![call[d].old].running = FALSE]
                              ELSE containers
                         /\ containers' \in {containers, stopped}
      BY <1>6 DEF StopContainer
    <3>2. Exists(call[d].old) => [containers[call[d].old] EXCEPT !.running = FALSE] \in Container
      BY <1>1 DEF Exists, Container
    <3>. QED  BY <1>1, <3>1, <3>2 DEF Exists
  <2>2. CASE Fail(d)
    <3>1. FaultUnless(call[d].old = NoName) \/ UNCHANGED faults
      BY <1>6 DEF StopContainer
    <3>. QED  BY <1>1, <1>6, <2>1, <2>2, <3>1, FailTyped DEF StopContainer, FaultUnless, NoFault
  <2>3. CASE Goto(d, "remove") /\ UNCHANGED <<call, used, faults>>
    BY <1>1, <1>2, <1>3, <1>4, <1>6, <2>1, <2>3, FaultsTyped, OperationTyped
       DEF StopContainer, NoFault
  <2>. QED  BY <1>6, <2>2, <2>3 DEF StopContainer
<1>7. CASE RemoveContainer(d)
  BY <1>1, <1>2, <1>3, <1>4, <1>7, FaultsTyped, OperationTyped DEF RemoveContainer, NoFault
<1>8. CASE RemoveContainerFails(d) \/ WriteFails(d)
  <2>1. pc[d] # "idle" /\ Fail(d) /\ UNCHANGED <<rows, volumeRows, engine>> /\ (Fault \/ NoFault)
    BY <1>8 DEF RemoveContainerFails, WriteFails, FaultUnless
  <2>. QED  BY <1>1, <2>1, FailTyped DEF engine
<1>9. CASE WriteRow(d)
  <2>1. rows' \in [Uuid -> Row \cup {NoRow}]
    <3>1. call[d].name \in Uuid
      BY <1>1, <1>9 DEF WriteRow, OperationInv, StepInv, Targeting
    <3>2. call[d].kind = "create" \/ call[d].id \in RowsOf(d) => RowOf(d) \in Row
      <4>1. call[d].id \in RowsOf(d) => rows[call[d].id] \in Row
        BY <1>1 DEF RowsOf
      <4>. QED  BY <1>2, <1>9, <3>1, <4>1 DEF WriteRow, RowOf, Row
    <3>. QED  BY <1>1, <1>9, <3>2 DEF WriteRow
  <2>2. PICK p \in {"createContainer", "ensure"} : Goto(d, p)
    BY <1>9 DEF WriteRow
  <2>. QED  BY <1>1, <1>2, <1>3, <1>4, <1>9, <2>1, <2>2, FaultsTyped, OperationTyped
            DEF WriteRow, engine, NoFault
<1>10. CASE EnsureVolumes(d)
  <2>1. volumes' \in SUBSET (Deployment \X Ref)
    BY <1>1, <1>2, <1>10 DEF EnsureVolumes
  <2>2. PICK p \in {"loop", "createContainer"} : Goto(d, p)
    BY <1>10 DEF EnsureVolumes
  <2>. QED  BY <1>1, <1>2, <1>3, <1>4, <1>10, <2>1, <2>2, FaultsTyped, OperationTyped
            DEF EnsureVolumes, NoFault
<1>11. CASE EnsureVolumesFails(d)
  <2>1. volumes' \in SUBSET (Deployment \X Ref)
    BY <1>1, <1>2, <1>11 DEF EnsureVolumesFails
  <2>2. CASE Fail(d)
    BY <1>1, <1>11, <2>1, <2>2, FailTyped DEF EnsureVolumesFails
  <2>3. CASE Goto(d, "failed") /\ UNCHANGED <<call, used>>
    BY <1>1, <1>2, <1>3, <1>4, <1>11, <2>1, <2>3, FaultsTyped, OperationTyped
       DEF EnsureVolumesFails
  <2>. QED  BY <1>11, <2>2, <2>3 DEF EnsureVolumesFails
<1>12. ASSUME NEW item \in call[d].todo, pc[d] = "loop", NEW u \in Uuid, RecreateNext(d, item, u)
       PROVE  TypeOK'
  <2>1. item \in Item
    BY <1>2, <1>12 DEF Call
  <2>2. CASE /\ Goto(d, "stop") /\ used' = used \cup {u}
             /\ call' = [call EXCEPT ![d].todo = @ \ {item}, ![d].id = item.id,
                                     ![d].old = item.name, ![d].name = u,
                                     ![d].mounts = item.mounts]
    <3>1. PICK c : c = [call[d] EXCEPT !.todo = @ \ {item}, !.id = item.id, !.old = item.name,
                                       !.name = u, !.mounts = item.mounts]
      OBVIOUS
    <3>2. c \in Call
      BY <1>2, <1>12, <2>1, <3>1 DEF Call, Item
    <3>3. call' = [call EXCEPT ![d] = c]
      BY <1>1, <2>2, <3>1
    <3>4. /\ UNCHANGED <<rows, volumeRows, containers, volumes, faults>>
          /\ used' \in SUBSET Uuid
      BY <1>1, <1>12, <2>2 DEF RecreateNext, engine
    <3>. QED  BY <1>1, <1>3, <2>2, <3>2, <3>3, <3>4, FaultsTyped, OperationTyped DEF NoFault
  <2>3. CASE /\ call' = [call EXCEPT ![d].todo = @ \ {item}, ![d].errors = TRUE]
             /\ UNCHANGED <<pc, used, parents, active, deletion, monitor>>
    <3>1. PICK c : c = [call[d] EXCEPT !.todo = @ \ {item}, !.errors = TRUE]
      OBVIOUS
    <3>2. c \in Call
      BY <1>2, <1>12, <3>1 DEF Call
    <3>3. call' = [call EXCEPT ![d] = c]
      BY <1>1, <2>3, <3>1
    <3>4. Goto(d, "loop")
      BY <1>1, <1>12, <2>3 DEF Goto, TypeOK
    <3>. QED  BY <1>1, <1>3, <1>12, <2>3, <3>2, <3>3, <3>4, FaultsTyped, OperationTyped
              DEF RecreateNext, engine, NoFault
  <2>. QED  BY <1>12, <2>2, <2>3 DEF RecreateNext
<1>13. CASE EndRecreate(d)
  BY <1>1, <1>2, <1>3, <1>4, <1>13, FaultsTyped, OperationTyped DEF EndRecreate, engine, NoFault
<1>14. pc[d] = "createContainer" => NewContainer(d) \in [Uuid -> Container \cup {Absent}]
  BY <1>1, <1>2 DEF NewContainer, Container, Call
<1>15. CASE CreateContainer(d)
  <2>1. PICK c : c = [call[d] EXCEPT !.done = @ \cup ({call[d].id} \ {NoName})]
    OBVIOUS
  <2>2. c \in Call
    BY <1>2, <1>15, <2>1 DEF Call, CreateContainer
  <2>3. call' = [call EXCEPT ![d] = c]
    BY <1>1, <1>15, <2>1 DEF CreateContainer
  <2>4. PICK p \in {"loop", "ok"} : Goto(d, p)
    BY <1>15 DEF CreateContainer
  <2>. QED  BY <1>1, <1>3, <1>14, <1>15, <2>2, <2>3, <2>4, FaultsTyped, OperationTyped
            DEF CreateContainer, NoFault
<1>16. CASE CreateContainerFails(d)
  BY <1>1, <1>14, <1>16, FailTyped DEF CreateContainerFails
<1>17. CASE Rollback(d)
  BY <1>1, <1>2, <1>3, <1>4, <1>17, FaultsTyped, OperationTyped DEF Rollback, engine, NoFault
<1>18. CASE RemoveContainers(d)
  <2>1. PICK S \in SUBSET call[d].todo :
            /\ containers' = [n \in Uuid |-> IF n \in Names(S) THEN Absent ELSE containers[n]]
            /\ call' = [call EXCEPT ![d].done = Ids(S), ![d].errors = S # call[d].todo]
            /\ FaultUnless(S = call[d].todo)
    BY <1>18 DEF RemoveContainers
  <2>2. PICK c : c = [call[d] EXCEPT !.done = Ids(S), !.errors = S # call[d].todo]
    OBVIOUS
  <2>3. c \in Call
    <3>1. Ids(S) \in SUBSET Uuid /\ (S # call[d].todo) \in BOOLEAN /\ call[d] \in Call
      BY <1>2, <1>18 DEF Call, Ids, Item, RemoveContainers
    <3>. QED  BY <2>2, <3>1 DEF Call
  <2>4. call' = [call EXCEPT ![d] = c]
    BY <1>1, <2>1, <2>2
  <2>5. containers' \in [Uuid -> Container \cup {Absent}]
    BY <1>1, <2>1
  <2>. QED  BY <1>1, <1>3, <1>18, <2>1, <2>3, <2>4, <2>5, FaultsTyped, OperationTyped
            DEF RemoveContainers, FaultUnless
<1>19. CASE DeleteRows(d)
  <2>1. rows' \in [Uuid -> Row \cup {NoRow}]
    BY <1>1, <1>19 DEF DeleteRows
  <2>. QED  BY <1>1, <1>2, <1>3, <1>4, <1>19, <2>1, FaultsTyped, OperationTyped
            DEF DeleteRows, engine, NoFault
<1>20. CASE RemoveVolumes(d)
  <2>1. PICK S : /\ S \in SUBSET call[d].refs /\ volumes' = volumes \ ({d} \X S)
                 /\ call' = [call EXCEPT ![d].refs = S, ![d].errors = S # call[d].refs]
                 /\ Fault \/ NoFault
    BY <1>20 DEF RemoveVolumes, FaultUnless
  <2>2. PICK c : c = [call[d] EXCEPT !.refs = S, !.errors = S # call[d].refs]
    OBVIOUS
  <2>3. c \in Call
    BY <1>2, <1>20, <2>1, <2>2 DEF Call, RemoveVolumes
  <2>4. call' = [call EXCEPT ![d] = c]
    BY <1>1, <2>1, <2>2
  <2>5. volumes' \in SUBSET (Deployment \X Ref)
    BY <1>1, <2>1
  <2>. QED  BY <1>1, <1>3, <1>20, <2>1, <2>3, <2>4, <2>5, FaultsTyped, OperationTyped
            DEF RemoveVolumes
<1>21. CASE DeleteVolumeRows(d)
  <2>1. PICK R : volumeRows' = volumeRows \ ({d} \X R) /\ rows' = Unmount(d, R)
    BY <1>21 DEF DeleteVolumeRows
  <2>2. rows' \in [Uuid -> Row \cup {NoRow}]
    <3>1. \A i \in RowsOf(d) : rows[i] \in Row /\ [rows[i] EXCEPT !.mounts = @ \ R] \in Row
      BY <1>1 DEF RowsOf, Row
    <3>. QED  BY <1>1, <2>1, <3>1 DEF Unmount
  <2>3. volumeRows' \in SUBSET (Deployment \X Ref)
    BY <1>1, <2>1
  <2>. QED  BY <1>1, <1>2, <1>3, <1>4, <1>21, <2>2, <2>3, FaultsTyped, OperationTyped
            DEF DeleteVolumeRows, engine, NoFault
<1>22. CASE DeleteFails(d)
  BY <1>1, <1>2, <1>3, <1>4, <1>22, FaultsTyped, OperationTyped DEF DeleteFails, engine
<1>23. CASE Return(d)
  <2>1. deletion' \in Deletion \cup {NoDeletion}
    <3>1. CASE ~ call[d].parent \/ deletion' = NoDeletion
      BY <1>1, <1>23, <3>1 DEF Return, TypeOK
    <3>2. CASE call[d].parent /\ deletion' # NoDeletion
      <4>1. deletion \in Deletion
        BY <1>1, <1>23, <3>2 DEF Return, OperationInv, StepInv, TypeOK
      <4>2. call[d].errors \in BOOLEAN
        BY <1>2, <1>23 DEF Return, Call
      <4>3. \/ deletion' = [deletion EXCEPT !.step = "volumes", !.errors = call[d].errors]
            \/ deletion' = [deletion EXCEPT !.step = "row"]
        BY <1>23, <3>2 DEF Return
      <4>. QED  BY <4>1, <4>2, <4>3 DEF Deletion
    <3>. QED  BY <3>1, <3>2
  <2>2. /\ pc' \in [Deployment -> Step]
        /\ call' \in [Deployment -> Call \cup {NoCall}]
        /\ \A e \in Deployment : pc'[e] = "idle" <=> call'[e] = NoCall
    BY <1>1, <1>23, CallsTyped DEF Return, Step
  <2>. QED  BY <1>1, <1>23, <2>1, <2>2 DEF Return, TypeOK, tables, engine, monitor
<1>. QED  BY <1>5, <1>6, <1>7, <1>8, <1>9, <1>10, <1>11, <1>12, <1>13, <1>15, <1>16, <1>17,
             <1>18, <1>19, <1>20, <1>21, <1>22, <1>23 DEF Operation

LEMMA OthersTyped ==
    ASSUME Inv, \/ RuntimeNext \/ Crash \/ UNCHANGED vars
                \/ \E d \in Deployment : StartDeletion(d) \/ DeleteParent(d) \/ DeleteParentFails(d)
    PROVE  TypeOK'
<1>1. TypeOK /\ TablesInv
  BY DEF Inv
<1>2. CASE UNCHANGED vars
  BY <1>1, <1>2 DEF vars, tables, engine, operations, monitor, TypeOK
<1>3. CASE Crash
  BY <1>1, <1>3, FaultsTyped DEF Crash, tables, engine, TypeOK, Step
<1>4. ASSUME NEW d \in Deployment, StartDeletion(d) \/ DeleteParent(d) \/ DeleteParentFails(d)
      PROVE  TypeOK'
  <2>1. CASE StartDeletion(d)
    BY <1>1, <2>1 DEF StartDeletion, tables, engine, monitor, TypeOK, Deletion
  <2>2. CASE DeleteParent(d)
    <3>1. rows' \in [Uuid -> Row \cup {NoRow}] /\ volumeRows' \in SUBSET (Deployment \X Ref)
      BY <1>1, <2>2 DEF DeleteParent, TypeOK
    <3>. QED  BY <1>1, <2>2, <3>1 DEF DeleteParent, engine, monitor, TypeOK
  <2>3. CASE DeleteParentFails(d)
    BY <1>1, <2>3, FaultsTyped DEF DeleteParentFails, tables, engine, monitor, TypeOK
  <2>. QED  BY <1>4, <2>1, <2>2, <2>3
<1>5. ASSUME NEW d \in Deployment, Control(d)  PROVE TypeOK'
  <2>1. ASSUME NEW state \in BOOLEAN, SetActive(d, state)  PROVE TypeOK'
    BY <1>1, <2>1 DEF SetActive, engine, operations, monitor, TypeOK
  <2>2. ASSUME NEW state \in BOOLEAN, NEW S \in SUBSET RowsOf(d), SetEnabled(d, S, state)
        PROVE  TypeOK'
    <3>1. rows' \in [Uuid -> Row \cup {NoRow}]
      <4>1. \A i \in S : rows[i] \in Row /\ [rows[i] EXCEPT !.enabled = state] \in Row
        BY <1>1 DEF RowsOf, Row, TypeOK
      <4>. QED  BY <1>1, <2>2, <4>1 DEF SetEnabled, TypeOK
    <3>. QED  BY <1>1, <2>2, <3>1 DEF SetEnabled, engine, operations, monitor, TypeOK
  <2>. QED  BY <1>5, <2>1, <2>2 DEF Control
<1>6. ASSUME NEW d \in Deployment, Look(d)  PROVE TypeOK'
  <2>1. \A S \in SUBSET RowsOf(d) : {rows[i].name : i \in S} \in SUBSET Uuid
    BY <1>1, RowType DEF RowsOf, Row
  <2>2. PICK s : /\ s = [active |-> d \in active,
                         enabled |-> {rows[i].name : i \in {j \in RowsOf(d) : rows[j].enabled}},
                         disabled |-> {rows[i].name : i \in {j \in RowsOf(d) : ~ rows[j].enabled}}]
                 /\ seen' = [seen EXCEPT ![d] = s]
    BY <1>6 DEF Look
  <2>3. s \in Seen
    BY <2>1, <2>2 DEF Seen
  <2>. QED  BY <1>1, <1>6, <2>2, <2>3 DEF Look, tables, engine, operations, TypeOK
<1>7. ASSUME NEW d \in Deployment, Decide(d)  PROVE TypeOK'
  <2>1. seen[d] \in Seen
    BY <1>1, <1>7 DEF Decide, TypeOK
  <2>2. PICK job : /\ job = [start |-> IF seen[d].active THEN Stopped(seen[d].enabled) ELSE {},
                             stop |-> Running(seen[d].disabled \cup
                                              IF seen[d].active THEN {} ELSE seen[d].enabled)]
                   /\ jobs' \in {jobs, [jobs EXCEPT ![d] = job]}
    BY <1>7 DEF Decide
  <2>3. job \in Job
    BY <2>1, <2>2 DEF Job, Seen, Stopped, Running
  <2>4. jobs' \in [Deployment -> Job \cup {NoJob}]
    BY <1>1, <2>2, <2>3 DEF TypeOK
  <2>. QED  BY <1>1, <1>7, <2>4 DEF Decide, tables, engine, operations, TypeOK
<1>8. ASSUME NEW n \in Uuid, NEW b \in BOOLEAN, Exists(n)
      PROVE  [containers EXCEPT ![n].running = b] \in [Uuid -> Container \cup {Absent}]
  <2>1. containers[n] \in Container /\ [containers[n] EXCEPT !.running = b] \in Container
    BY <1>1, <1>8 DEF Exists, TypeOK, Container
  <2>. QED  BY <1>1, <2>1 DEF TypeOK
<1>9. ASSUME NEW d \in Deployment, JobStep(d)  PROVE TypeOK'
  <2>1. CASE EndJob(d)
    BY <1>1, <2>1 DEF EndJob, tables, engine, operations, TypeOK
  <2>2. ASSUME NEW n \in Uuid, Start(d, n) \/ Stop(d, n)  PROVE TypeOK'
    <3>1. jobs[d] \in Job /\ jobs \in [Deployment -> Job \cup {NoJob}]
      BY <1>1, <2>2 DEF Start, Stop, TypeOK
    <3>2. \/ jobs' = [jobs EXCEPT ![d].start = @ \ {n}]
          \/ jobs' = [jobs EXCEPT ![d].stop = @ \ {n}]
      BY <2>2 DEF Start, Stop
    <3>3. /\ [jobs[d] EXCEPT !.start = @ \ {n}] \in Job
          /\ [jobs[d] EXCEPT !.stop = @ \ {n}] \in Job
      BY <3>1 DEF Job
    <3>4. jobs' \in [Deployment -> Job \cup {NoJob}]
      BY <3>1, <3>2, <3>3
    <3>5. containers' \in [Uuid -> Container \cup {Absent}] /\ (Fault \/ NoFault)
      <4>1. \/ UNCHANGED containers
            \/ \E b \in BOOLEAN : Exists(n) /\ containers' = [containers EXCEPT ![n].running = b]
        BY <2>2 DEF Start, Stop
      <4>2. Fault \/ NoFault
        BY <2>2 DEF Start, Stop, FaultUnless
      <4>. QED  BY <1>1, <1>8, <4>1, <4>2 DEF TypeOK
    <3>6. faults' \in 0..MaxFaults
      BY <1>1, <3>5, FaultsTyped
    <3>. QED  BY <1>1, <2>2, <3>4, <3>5, <3>6 DEF Start, Stop, tables, operations, TypeOK
  <2>. QED  BY <1>9, <2>1, <2>2 DEF JobStep
<1>10. ASSUME NEW n \in Uuid, ContainerExits(n)  PROVE TypeOK'
  <2>1. containers' \in [Uuid -> Container \cup {Absent}] /\ faults' \in 0..MaxFaults
    BY <1>1, <1>8, <1>10, FaultsTyped DEF ContainerExits, Running, Exists
  <2>. QED  BY <1>1, <1>10, <2>1 DEF ContainerExits, tables, operations, monitor, TypeOK
<1>. QED  BY <1>2, <1>3, <1>4, <1>5, <1>6, <1>7, <1>9, <1>10 DEF RuntimeNext

-----------------------------------------------------------------------------
(* The theorems. *)

LEMMA Initially ==
    ASSUME Init
    PROVE  Inv
<1>1. TypeOK
  BY AuxDeploymentsAssumption DEF Init, TypeOK, Step
<1>2. TablesInv /\ OneContainerPerRow
  BY DEF Init, TablesInv, OneContainerPerRow, Exists
<1>3. \A d \in Deployment : pc[d] = "idle"
  BY DEF Init
<1>4. \A d \in Deployment : ~ Targeting(d) /\ ~ Replacing(d) /\ ~ Cleared(d)
  BY <1>3 DEF Targeting, Replacing, Cleared
<1>5. \A d \in Deployment :
        /\ \A i \in Uuid : ~ Concerns(d, i)
        /\ \A n \in Uuid : ~ IsTarget(d, n)
        /\ \A i, n \in Uuid : ~ Holds(d, i, n)
  BY <1>3, <1>4 DEF Concerns, IsTarget, Holds
<1>6. \A d \in Deployment : OperationInv(d)
  BY <1>3, <1>4, <1>5
     DEF OperationInv, StepInv, IdsInv, TargetInv, HeldInv, ClearedInv, ItemsInv, VolumesInv,
         DoneInv
<1>7. \A d, e \in Deployment : d # e => Apart(d, e)
  BY <1>5 DEF Apart
<1>. QED  BY <1>1, <1>2, <1>6, <1>7 DEF Inv

LEMMA Inductive ==
    ASSUME Inv, [Next]_vars
    PROVE  Inv'
<1>1. ASSUME NEW d \in Deployment, Request(d) \/ DeleteAuxDeployments(d) \/ DeleteAuxVolumes(d)
      PROVE  Inv'
  <2>1. TypeOK'
    BY <1>1, RequestTyped DEF Inv
  <2>2. {} \in SUBSET ItemsOf(d) /\ {} \in SUBSET RefsOf(d)
    OBVIOUS
  <2>. QED  BY <1>1, <2>1, <2>2, BeginWriteStep, BeginItemsStep, BeginVolumesStep DEF Request
<1>2. ASSUME NEW d \in Deployment, Operation(d)
      PROVE  Inv'
  <2>1. TypeOK'
    BY <1>2, StepTyped
  <2>2. \A item \in IF pc[d] = "loop" THEN call[d].todo ELSE {} : item \in call[d].todo
    OBVIOUS
  <2>. QED  BY <1>2, <2>1, <2>2, WriteVolumeRowsStep, StopContainerStep, RemoveContainerStep,
               WriteRowStep, FailureSteps, EnsureVolumesStep, EnsureVolumesFailsStep,
               RecreateNextStep, LastSteps, CreateContainerStep, RemoveContainersStep,
               VolumeSteps, ReturnStep DEF Operation
<1>3. ASSUME NEW d \in Deployment, StartDeletion(d) \/ DeleteParent(d) \/ DeleteParentFails(d)
      PROVE  Inv'
  BY <1>3, OthersTyped, DeletionSteps
<1>4. CASE Crash
  BY <1>4, OthersTyped, CrashStep
<1>5. CASE RuntimeNext \/ UNCHANGED vars
  BY <1>5, OthersTyped, RuntimeSteps
<1>. QED  BY <1>1, <1>2, <1>3, <1>4, <1>5 DEF Next, OperationsNext, DeletionStep

LEMMA Invariance == Spec => []Inv
  BY Initially, Inductive, PTL DEF Spec

\* The tables, the engine and the local variables of the operations are typed.
THEOREM TypeCorrect == Spec => []TypeOK
<1>1. Inv => TypeOK
  BY DEF Inv
<1>. QED  BY <1>1, Invariance, PTL

\* However the operations of any number of deployments interleave, no auxiliary
\* deployment has two containers, and its row names the one it has
\* (CreateDeployment, UpdateDeployment, RecreateDeployments).
THEOREM OneContainer == Spec => []OneContainerPerRow
<1>1. Inv => OneContainerPerRow
  BY DEF Inv
<1>. QED  BY <1>1, Invariance, PTL

\* What an operation has reported without an error is done: the container of the
\* row stands with its volumes, or row and container are gone (also if operations of
\* other deployments have deleted rows in between).
THEOREM SuccessComplete == Spec => []SuccessIsComplete
<1>1. ASSUME Inv  PROVE SuccessIsComplete
  <2>. SUFFICES ASSUME NEW d \in Deployment, pc[d] = "ok", NEW i \in call[d].done
                PROVE  IF call[d].kind = "delete"
                       THEN rows[i] = NoRow /\ \A n \in Uuid : Exists(n) => containers[n].aux # i
                       ELSE i \in RowsOf(d) =>
                                /\ Exists(rows[i].name)
                                /\ containers[rows[i].name].aux = i
                                /\ containers[rows[i].name].mounts = rows[i].mounts
                                /\ {d} \X rows[i].mounts \subseteq volumes
    BY DEF SuccessIsComplete
  <2>1. OperationInv(d) /\ call[d] \in Call
    BY <1>1, CallType DEF Inv
  <2>2. CASE call[d].kind = "delete"
    BY <2>1, <2>2 DEF OperationInv, DoneInv, Without, Exists
  <2>3. CASE call[d].kind # "delete"
    <3>. SUFFICES ASSUME i \in RowsOf(d)
                  PROVE  /\ Exists(rows[i].name)
                         /\ containers[rows[i].name].aux = i
                         /\ containers[rows[i].name].mounts = rows[i].mounts
                         /\ {d} \X rows[i].mounts \subseteq volumes
      BY <2>3
    <3>1. call[d].kind \in {"create", "update", "recreate"}
      BY <2>1, <2>3 DEF OperationInv, StepInv, Call
    <3>2. Complete(d, i)
      BY <2>1, <3>1 DEF OperationInv, DoneInv
    <3>3. rows[i].name \in Uuid
      BY <1>1, RowHeld
    <3>. QED  BY <3>2, <3>3 DEF Complete, Exists
  <2>. QED  BY <2>2, <2>3
<1>. QED  BY <1>1, Invariance, PTL

\* The steps that touch the tables, and those that remove volumes.
LEMMA TablesFrame ==
    ASSUME [Next]_vars
    PROVE  \/ UNCHANGED <<rows, volumeRows>>
           \/ \E d \in Deployment :
                 \/ WriteVolumeRows(d) \/ WriteRow(d) \/ Rollback(d) \/ DeleteRows(d)
                 \/ DeleteVolumeRows(d) \/ DeleteParent(d)
                 \/ \E S \in SUBSET RowsOf(d), state \in BOOLEAN : SetEnabled(d, S, state)
<1>1. ASSUME NEW d \in Deployment, Request(d) \/ DeleteAuxDeployments(d) \/ DeleteAuxVolumes(d)
      PROVE  UNCHANGED <<rows, volumeRows>>
  BY <1>1 DEF Request, Create, Update, UpdateUnknown, Recreate, Delete, DeleteVolumes,
     DeleteUnusedVolumes, DeleteAuxDeployments, DeleteAuxVolumes, Begin, tables
<1>2. ASSUME NEW d \in Deployment, Operation(d)
      PROVE  \/ UNCHANGED <<rows, volumeRows>>
             \/ WriteVolumeRows(d) \/ WriteRow(d) \/ Rollback(d) \/ DeleteRows(d)
             \/ DeleteVolumeRows(d)
  BY <1>2 DEF Operation, StopContainer, RemoveContainer, RemoveContainerFails, WriteFails,
     EnsureVolumes, EnsureVolumesFails, RecreateNext, EndRecreate, CreateContainer,
     CreateContainerFails, RemoveContainers, RemoveVolumes, DeleteFails, Return, tables
<1>3. ASSUME NEW d \in Deployment,
             StartDeletion(d) \/ DeleteParentFails(d) \/ Look(d) \/ Decide(d) \/ JobStep(d)
      PROVE  UNCHANGED <<rows, volumeRows>>
  BY <1>3 DEF StartDeletion, DeleteParentFails, Look, Decide, JobStep, Start, Stop, EndJob, tables
<1>4. Crash \/ UNCHANGED vars \/ (\E n \in Uuid : ContainerExits(n)) =>
          UNCHANGED <<rows, volumeRows>>
  BY DEF Crash, ContainerExits, vars, tables
<1>5. ASSUME NEW d \in Deployment, NEW state \in BOOLEAN, SetActive(d, state)
      PROVE  UNCHANGED <<rows, volumeRows>>
  BY <1>5 DEF SetActive
<1>. QED  BY <1>1, <1>2, <1>3, <1>4, <1>5 DEF Next, OperationsNext, RuntimeNext, DeletionStep, Control

LEMMA VolumesFrame ==
    ASSUME [Next]_vars
    PROVE  volumes \subseteq volumes' \/ \E d \in Deployment : RemoveVolumes(d)
<1>1. ASSUME NEW d \in Deployment, Request(d) \/ DeleteAuxDeployments(d) \/ DeleteAuxVolumes(d)
      PROVE  UNCHANGED volumes
  BY <1>1 DEF Request, Create, Update, UpdateUnknown, Recreate, Delete, DeleteVolumes,
     DeleteUnusedVolumes, DeleteAuxDeployments, DeleteAuxVolumes, Begin, engine
<1>2. ASSUME NEW d \in Deployment, Operation(d)
      PROVE  volumes \subseteq volumes' \/ RemoveVolumes(d)
  <2>1. CASE EnsureVolumes(d) \/ EnsureVolumesFails(d)
    BY <2>1 DEF EnsureVolumes, EnsureVolumesFails
  <2>2. CASE ~ (EnsureVolumes(d) \/ EnsureVolumesFails(d))
    BY <1>2, <2>2 DEF Operation, WriteVolumeRows, StopContainer, RemoveContainer,
       RemoveContainerFails, WriteRow, WriteFails, RecreateNext, EndRecreate, CreateContainer,
       CreateContainerFails, Rollback, RemoveContainers, DeleteRows, DeleteVolumeRows,
       DeleteFails, Return, engine
  <2>. QED  BY <2>1, <2>2
<1>3. ASSUME NEW d \in Deployment,
             \/ StartDeletion(d) \/ DeleteParent(d) \/ DeleteParentFails(d)
             \/ Look(d) \/ Decide(d) \/ JobStep(d) \/ Control(d)
      PROVE  UNCHANGED volumes
  BY <1>3 DEF StartDeletion, DeleteParent, DeleteParentFails, Look, Decide, JobStep, Start, Stop,
     EndJob, Control, SetActive, SetEnabled, engine
<1>4. Crash \/ UNCHANGED vars \/ (\E n \in Uuid : ContainerExits(n)) => UNCHANGED volumes
  BY DEF Crash, ContainerExits, vars, engine
<1>. QED  BY <1>1, <1>2, <1>3, <1>4 DEF Next, OperationsNext, RuntimeNext, DeletionStep

\* The record of a container or a volume that exists is neither deleted nor written
\* over, by any interleaving of operations, deletions of the parent and crashes, but
\* for the cases that the property names.
THEOREM RowsOutlive == Spec => RowsOutliveResources
<1>1. ASSUME Inv, [Next]_vars
      PROVE  /\ \A i \in Uuid : ContainerKeepsRow(i)
             /\ \A d \in Deployment, r \in Ref : VolumeKeepsRow(d, r)
  <2>1. /\ \A d \in Deployment : OperationInv(d) /\ (pc[d] # "idle" => call[d] \in Call)
        /\ TablesInv /\ rows \in [Uuid -> Row \cup {NoRow}]
    BY <1>1, CallType DEF Inv, TypeOK
  <2>2. CASE UNCHANGED <<rows, volumeRows>>
    BY <2>2 DEF ContainerKeepsRow, VolumeKeepsRow
  <2>3. ASSUME NEW d \in Deployment, WriteVolumeRows(d)
        PROVE  /\ \A i \in Uuid : ContainerKeepsRow(i)
               /\ \A e \in Deployment, r \in Ref : VolumeKeepsRow(e, r)
    BY <2>3 DEF WriteVolumeRows, ContainerKeepsRow, VolumeKeepsRow
  <2>4. ASSUME NEW d \in Deployment, WriteRow(d)
        PROVE  /\ \A i \in Uuid : ContainerKeepsRow(i)
               /\ \A e \in Deployment, r \in Ref : VolumeKeepsRow(e, r)
    <3>1. pc[d] = "writeRow" /\ call[d] \in Call /\ Targeting(d)
      BY <2>1, <2>4 DEF WriteRow, Targeting
    <3>2. ASSUME NEW i \in Uuid, rows[i] # NoRow, rows'[i] # rows[i]
          PROVE  containers[rows[i].name] = Absent
      <4>1. i = call[d].id /\ (call[d].kind = "create" \/ i \in RowsOf(d))
        BY <2>1, <2>4, <3>2 DEF WriteRow
      <4>2. call[d].kind # "create" /\ call[d].id # NoName
        BY <2>1, <3>1, <3>2, <4>1, AuxDeploymentsAssumption DEF OperationInv, ClearedInv
      <4>3. call[d].old \in Uuid /\ call[d].old # NoName
        BY <2>1, <3>1, <4>2, AuxDeploymentsAssumption DEF OperationInv, StepInv, Call
      <4>4. Holds(d, i, call[d].old)
        BY <3>1, <4>1, <4>3 DEF Holds, Replacing
      <4>. QED  BY <2>1, <3>1, <3>2, <4>3, <4>4 DEF OperationInv, HeldInv, ClearedInv
    <3>3. UNCHANGED volumeRows
      BY <2>4 DEF WriteRow
    <3>. QED  BY <3>2, <3>3 DEF ContainerKeepsRow, VolumeKeepsRow, Exists
  <2>5. ASSUME NEW d \in Deployment, Rollback(d)
        PROVE  /\ \A i \in Uuid : ContainerKeepsRow(i)
               /\ \A e \in Deployment, r \in Ref : VolumeKeepsRow(e, r)
    <3>1. pc[d] = "rollback" /\ UNCHANGED volumeRows
          /\ \A i \in Uuid : rows'[i] = rows[i] \/ i = call[d].id
      BY <2>1, <2>5 DEF Rollback
    <3>. QED  BY <3>1 DEF ContainerKeepsRow, VolumeKeepsRow
  <2>6. ASSUME NEW d \in Deployment, DeleteRows(d)
        PROVE  /\ \A i \in Uuid : ContainerKeepsRow(i)
               /\ \A e \in Deployment, r \in Ref : VolumeKeepsRow(e, r)
    <3>1. pc[d] = "deleteRows" /\ UNCHANGED volumeRows
          /\ \A i \in Uuid : rows'[i] = rows[i] \/ call[d].done = {} \/ i \in call[d].done
      BY <2>6 DEF DeleteRows
    <3>2. \A i \in call[d].done : rows[i] # NoRow => containers[rows[i].name] = Absent
      BY <2>1, <3>1 DEF OperationInv, StepInv, DoneInv
    <3>. QED  BY <3>1, <3>2 DEF ContainerKeepsRow, VolumeKeepsRow, Wipes, Exists
  <2>7. ASSUME NEW d \in Deployment, DeleteVolumeRows(d)
        PROVE  /\ \A i \in Uuid : ContainerKeepsRow(i)
               /\ \A e \in Deployment, r \in Ref : VolumeKeepsRow(e, r)
    <3>1. PICK R : /\ R = IF call[d].refs = {} THEN Ref ELSE call[d].refs
                   /\ volumeRows' = volumeRows \ ({d} \X R) /\ rows' = Unmount(d, R)
      BY <2>7 DEF DeleteVolumeRows
    <3>2. \A i \in Uuid : rows[i] # NoRow => rows'[i] # NoRow /\ rows'[i].name = rows[i].name
      <4>1. ASSUME NEW i \in RowsOf(d)
            PROVE  rows'[i] # NoRow /\ rows'[i].name = rows[i].name
        <5>1. i \in Uuid /\ rows[i] \in Row /\ rows'[i] = [rows[i] EXCEPT !.mounts = @ \ R]
          BY <2>1, <3>1, <4>1 DEF RowsOf, Unmount
        <5>2. rows'[i] \in Row
          BY <5>1 DEF Row
        <5>. QED  BY <5>1, <5>2, AuxDeploymentsAssumption DEF Row
      <4>2. \A i \in Uuid \ RowsOf(d) : rows'[i] = rows[i]
        BY <3>1 DEF Unmount
      <4>. QED  BY <4>1, <4>2
    <3>3. pc[d] = "deleteVolumeRows" /\ \A r \in call[d].refs : <<d, r>> \notin volumes
      BY <2>1, <2>7 DEF DeleteVolumeRows, OperationInv, VolumesInv
    <3>. QED  BY <3>1, <3>2, <3>3 DEF ContainerKeepsRow, VolumeKeepsRow
  <2>8. ASSUME NEW d \in Deployment, DeleteParent(d)
        PROVE  /\ \A i \in Uuid : ContainerKeepsRow(i)
               /\ \A e \in Deployment, r \in Ref : VolumeKeepsRow(e, r)
    BY <2>1, <2>8 DEF DeleteParent, DeletionAt, TablesInv, ContainerKeepsRow, VolumeKeepsRow
  <2>9. ASSUME NEW d \in Deployment, NEW S \in SUBSET RowsOf(d), NEW state \in BOOLEAN,
               SetEnabled(d, S, state)
        PROVE  /\ \A i \in Uuid : ContainerKeepsRow(i)
               /\ \A e \in Deployment, r \in Ref : VolumeKeepsRow(e, r)
    <3>1. \A i \in S : rows[i] \in Row
      BY <2>1 DEF RowsOf
    <3>2. \A i \in S : [rows[i] EXCEPT !.enabled = state] \in Row
                       /\ [rows[i] EXCEPT !.enabled = state].name = rows[i].name
      BY <3>1 DEF Row
    <3>3. \A i \in Uuid : rows[i] # NoRow => rows'[i] # NoRow /\ rows'[i].name = rows[i].name
      BY <2>9, <3>2, AuxDeploymentsAssumption DEF SetEnabled
    <3>. QED  BY <2>9, <3>3 DEF SetEnabled, ContainerKeepsRow, VolumeKeepsRow
  <2>. QED  BY <1>1, <2>2, <2>3, <2>4, <2>5, <2>6, <2>7, <2>8, <2>9, TablesFrame
<1>. QED  BY <1>1, Invariance, PTL DEF Spec, RowsOutliveResources

\* Only DeleteVolumes removes a volume that a row mounts: DeleteUnusedVolumes reads
\* the mounts and removes the volumes in separate steps, and the mutex of the
\* deployment keeps the rows from changing in between.
THEOREM VolumesKept == Spec => MountedVolumesAreKept
<1>1. ASSUME Inv, [Next]_vars
      PROVE  \A d \in Deployment, r \in Ref :
                <<d, r>> \in volumes \ volumes' /\ r \in Mounted(d) =>
                    call[d].kind = "deleteVolumes"
  <2>. SUFFICES ASSUME NEW d \in Deployment, NEW r \in Ref,
                       <<d, r>> \in volumes \ volumes', r \in Mounted(d)
                PROVE  call[d].kind = "deleteVolumes"
    OBVIOUS
  <2>1. PICK e \in Deployment : RemoveVolumes(e)
    BY <1>1, VolumesFrame
  <2>2. e = d /\ r \in call[d].refs /\ pc[d] = "removeVolumes"
    BY <2>1 DEF RemoveVolumes
  <2>3. PICK i \in RowsOf(d) : r \in rows[i].mounts
    BY DEF Mounted
  <2>4. OperationInv(d)
    BY <1>1 DEF Inv
  <2>. QED  BY <2>2, <2>3, <2>4 DEF OperationInv, StepInv, VolumesInv
<1>. QED  BY <1>1, Invariance, PTL DEF Spec, MountedVolumesAreKept

=============================================================================
