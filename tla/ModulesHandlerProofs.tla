------------------------- MODULE ModulesHandlerProofs -------------------------
(***************************************************************************)
(* Proofs about ModulesHandler: rows, directories, cache and images agree  *)
(* whatever fails, and the handler implements ModuleStore.                 *)
(***************************************************************************)
EXTENDS ModulesHandler, TLAPS

\* A call that adds or updates, before the row is written.
Preparing == {"copy", "check", "pull", "write", "rollbackImages", "rollbackDir"}

Deleting == {"removeImages", "removeDir", "deleteRow"}

Unreferenced(d) == \A m \in Module : rows[m] # d

\* No two modules share a directory, and a name that was never used is free.
DirInv ==
    /\ \A m, n \in Module : rows[m] = rows[n] /\ rows[m] # NoDir => m = n
    /\ \A d \in Dir : content[d] = NoPackage => dirs[d] = "absent" /\ Unreferenced(d)

\* What the local variables of a call mean at each of its steps.
CallInv ==
    /\ pc \in Preparing =>
          /\ call.dir \in Dir /\ Unreferenced(call.dir)
          /\ call.package \in Package
          /\ call.oldDir = rows[call.module]
          /\ IF pc = "copy" THEN content[call.dir] = NoPackage
                            ELSE content[call.dir] = call.package
    /\ pc \in {"check", "pull", "write"} => dirs[call.dir] = "whole"
    /\ pc \in {"pull", "write"} => ModuleOf[call.package] = call.module
    /\ pc = "removeOldDir" => call.oldDir \in Dir /\ Unreferenced(call.oldDir)
    /\ pc \in {"removeOldDir", "removeOldImages"} => call.package \in Package
    /\ pc \in Deleting => call.oldDir \in Dir /\ call.oldDir = rows[call.module]
    /\ pc \in {"removeDir", "deleteRow"} => call.module \in halfDeleted
    /\ pc = "deleteRow" => dirs[call.oldDir] = "absent"

\* The directory of a row holds a package of the row's module.
RowInv ==
    \A m \in Module : rows[m] # NoDir =>
        /\ content[rows[m]] \in Package
        /\ ModuleOf[content[rows[m]]] = m
        /\ m \notin halfDeleted => dirs[rows[m]] = "whole"

\* DirsAreAccounted, extended to the steps of a call.
StrayInv ==
    \A d \in Dir : dirs[d] # "absent" =>
        \/ ~Unreferenced(d)
        \/ d \in strayDirs
        \/ pc \in Preparing /\ d = call.dir
        \/ pc = "removeOldDir" /\ d = call.oldDir

Inv == TypeOK /\ DirInv /\ CallInv /\ RowInv /\ CacheIsCurrent /\ StrayInv

-----------------------------------------------------------------------------

LEMMA InitInv == Init => Inv
  BY ModulesHandlerAssumption
  DEF Init, Inv, TypeOK, DirInv, CallInv, RowInv, CacheIsCurrent, StrayInv,
      DirState, Step, Preparing, Deleting, Unreferenced

\* The record of a call is well-formed.
LEMMA CallType ==
    ASSUME NEW m \in Module, NEW p \in Package \cup {NoPackage},
           NEW d \in Dir \cup {NoDir}, NEW o \in Dir \cup {NoDir},
           NEW mod \in Package \cup {NoPackage}
    PROVE  [module |-> m, package |-> p, dir |-> d, oldDir |-> o,
            oldMod |-> mod, newImages |-> {}] \in Call
  BY DEF Call

\* The modfile that can be read is the one of the row's package.
LEMMA ReadableIsPackage ==
    ASSUME TypeOK, RowInv, CacheIsCurrent,
           NEW m \in Module, rows[m] # NoDir, NEW mod \in Readable(m)
    PROVE  mod = content[rows[m]] /\ mod \in Package
  BY DEF TypeOK, RowInv, CacheIsCurrent, Readable

LEMMA NextTypeOK ==
    ASSUME Inv, [Next]_vars
    PROVE  TypeOK'
<1> USE ModulesHandlerAssumption DEF Inv, TypeOK, Step, DirState
<1>1. ASSUME NEW m \in Module, NEW p \in Package, NEW d \in Dir, AddModule(m, p, d)
      PROVE  TypeOK'
  BY <1>1, CallType DEF AddModule, Enter
<1>2. ASSUME NEW m \in Module, NEW p \in Package, NEW d \in Dir, UpdateModule(m, p, d)
      PROVE  TypeOK'
  <2>1. PICK mod \in Readable(m) :
              Enter([module |-> m, package |-> p, dir |-> d, oldDir |-> rows[m],
                     oldMod |-> mod, newImages |-> {}], "copy")
    BY <1>2 DEF UpdateModule
  <2>2. mod \in Package /\ rows[m] \in Dir
    BY <1>2, ReadableIsPackage DEF UpdateModule
  <2>3. call' \in Call
    BY <2>1, <2>2, CallType DEF Enter
  <2>4. QED
    BY <2>1, <2>3 DEF Enter
<1>3. ASSUME NEW m \in Module, DeleteModule(m)
      PROVE  TypeOK'
  <2>1. PICK mod \in IF Readable(m) = {} THEN {NoPackage} ELSE Readable(m) :
              Enter([module |-> m, package |-> NoPackage, dir |-> NoDir,
                     oldDir |-> rows[m], oldMod |-> mod, newImages |-> {}],
                    "removeImages")
    BY <1>3 DEF DeleteModule
  <2>2. mod \in Package \cup {NoPackage} /\ rows[m] \in Dir
    BY <1>3, ReadableIsPackage DEF DeleteModule
  <2>3. call' \in Call
    BY <2>1, <2>2, CallType DEF Enter
  <2>4. QED
    BY <2>1, <2>3 DEF Enter
<1>4. ASSUME NEW m \in Module, GetModule(m)
      PROVE  TypeOK'
  BY <1>4, ReadableIsPackage DEF GetModule
<1>5. CASE CopyAll \/ CopyAllFails
  BY <1>5 DEF CopyAll, CopyAllFails, Goto, CallInv, Preparing, Call
<1>6. CASE CheckModfile
  BY <1>6 DEF CheckModfile, Goto
<1>7. CASE PullImages
  <2>1. call \in Call /\ call.package \in Package
    BY <1>7 DEF PullImages, CallInv, Preparing
  <2>2. MissingImages \in SUBSET Image /\ ImagesOf[call.package] \in SUBSET Image
    BY <2>1 DEF MissingImages
  <2>3. call' \in Call
    BY <1>7, <2>1, <2>2 DEF PullImages, Call
  <2>4. QED
    BY <1>7, <2>2, <2>3 DEF PullImages
<1>8. CASE PullImagesFails
  <2>1. MissingImages \in SUBSET Image
    BY <1>8 DEF PullImagesFails, MissingImages, CallInv, Preparing
  <2>2. QED
    BY <1>8, <2>1 DEF PullImagesFails, Goto
<1>9. CASE WriteRow \/ WriteRowFails
  BY <1>9 DEF WriteRow, WriteRowFails, Goto, CallInv, Preparing, Call
<1>10. CASE RollbackImages
  <2>1. call.newImages \in SUBSET Image
    BY <1>10 DEF RollbackImages, Call
  <2>2. QED
    BY <1>10, <2>1 DEF RollbackImages, Goto
<1>11. CASE RollbackDir
  <2>1. call.dir \in Dir
    BY <1>11 DEF RollbackDir, CallInv, Preparing
  <2>2. QED
    BY <1>11, <2>1 DEF RollbackDir, RemoveAll, RemoveAllFails, Goto
<1>12. CASE RemoveOldDir
  <2>1. call.oldDir \in Dir
    BY <1>12 DEF RemoveOldDir, CallInv
  <2>2. QED
    BY <1>12, <2>1 DEF RemoveOldDir, RemoveAll, RemoveAllFails, Goto
<1>13. CASE RemoveOldImages
  <2>1. ModuleImages(call.oldMod) \in SUBSET Image
    BY <1>13 DEF RemoveOldImages, ModuleImages, Call
  <2>2. QED
    BY <1>13, <2>1 DEF RemoveOldImages, Goto
<1>14. CASE RemoveImages
  BY <1>14 DEF RemoveImages, Goto, Call
<1>15. CASE RemoveDir
  BY <1>15 DEF RemoveDir, RemoveAll, RemoveAllFails, Goto
<1>16. CASE DeleteRow \/ DeleteRowFails
  BY <1>16 DEF DeleteRow, DeleteRowFails, Goto, Call
<1>17. CASE Crash
  BY <1>17 DEF Crash, Goto
<1>18. CASE UNCHANGED vars
  BY <1>18 DEF vars
<1>19. QED
  BY <1>1, <1>2, <1>3, <1>4, <1>5, <1>6, <1>7, <1>8, <1>9, <1>10, <1>11,
     <1>12, <1>13, <1>14, <1>15, <1>16, <1>17, <1>18 DEF Next, Continue

\* The other parts of the invariant, without the images.
Placed == DirInv /\ CallInv /\ RowInv /\ CacheIsCurrent /\ StrayInv

LEMMA NextPlaced ==
    ASSUME Inv, [Next]_vars
    PROVE  Placed'
<1> USE ModulesHandlerAssumption
    DEF Inv, TypeOK, Placed, DirInv, CallInv, RowInv, CacheIsCurrent, StrayInv,
        Preparing, Deleting, Unreferenced
<1>1. ASSUME NEW m \in Module, NEW p \in Package, NEW d \in Dir, AddModule(m, p, d)
      PROVE  Placed'
  BY <1>1 DEF AddModule, Enter, Unused
<1>2. ASSUME NEW m \in Module, NEW p \in Package, NEW d \in Dir, UpdateModule(m, p, d)
      PROVE  Placed'
  BY <1>2 DEF UpdateModule, Enter, Unused
<1>3. ASSUME NEW m \in Module, DeleteModule(m)
      PROVE  Placed'
  BY <1>3 DEF DeleteModule, Enter
<1>4. ASSUME NEW m \in Module, GetModule(m)
      PROVE  Placed'
  BY <1>4, ReadableIsPackage DEF GetModule
<1>5. CASE CopyAll
  BY <1>5 DEF CopyAll, Goto
<1>6. CASE CopyAllFails
  BY <1>6 DEF CopyAllFails, Goto
<1>7. CASE CheckModfile
  BY <1>7 DEF CheckModfile, Goto
<1>8. CASE PullImages
  <2>1. call \in Call
    BY <1>8 DEF PullImages
  <2>2. /\ call'.dir = call.dir /\ call'.package = call.package
        /\ call'.module = call.module /\ call'.oldDir = call.oldDir
    BY <1>8, <2>1 DEF PullImages, Call
  <2>3. QED
    BY <1>8, <2>2 DEF PullImages
<1>9. CASE PullImagesFails
  BY <1>9 DEF PullImagesFails, Goto
<1>10. CASE WriteRow
  <2>1. call.module \in Module
    BY <1>10 DEF WriteRow, Call
  <2>2. QED
    BY <1>10, <2>1 DEF WriteRow, Goto
<1>11. CASE WriteRowFails
  BY <1>11 DEF WriteRowFails, Goto
<1>12. CASE RollbackImages
  BY <1>12 DEF RollbackImages, Goto
<1>13. CASE RollbackDir
  BY <1>13 DEF RollbackDir, RemoveAll, RemoveAllFails, Goto
<1>14. CASE RemoveOldDir
  <2>1. call.oldDir \in Dir /\ Unreferenced(call.oldDir) /\ call' = call
    BY <1>14 DEF RemoveOldDir, RemoveAll, RemoveAllFails, Goto
  <2>2. /\ pc' = "removeOldImages" /\ call.package \in Package
        /\ UNCHANGED <<rows, content, cache, halfDeleted>>
    BY <1>14 DEF RemoveOldDir, RemoveAll, RemoveAllFails, Goto
  <2>3. \A d \in Dir : d # call.oldDir => dirs'[d] = dirs[d]
    BY <1>14 DEF RemoveOldDir, RemoveAll, RemoveAllFails
  <2>4. /\ dirs'[call.oldDir] # "absent" =>
              dirs[call.oldDir] # "absent" /\ call.oldDir \in strayDirs'
        /\ strayDirs \subseteq strayDirs'
    BY <1>14, <2>1 DEF RemoveOldDir, RemoveAll, RemoveAllFails
  <2>5. StrayInv'
    BY <1>14, <2>1, <2>2, <2>3, <2>4 DEF RemoveOldDir
  <2>6. (DirInv /\ RowInv /\ CacheIsCurrent)'
    BY <2>1, <2>2, <2>3, <2>4
  <2>7. CallInv'
    BY <2>1, <2>2
  <2>8. QED
    BY <2>5, <2>6, <2>7
<1>15. CASE RemoveOldImages
  BY <1>15 DEF RemoveOldImages, Goto
<1>16. CASE RemoveImages
  BY <1>16 DEF RemoveImages, Goto
<1>17. CASE RemoveDir
  BY <1>17 DEF RemoveDir, RemoveAll, RemoveAllFails, Goto
<1>18. CASE DeleteRow
  <2>1. call.module \in Module
    BY <1>18 DEF DeleteRow, Call
  <2>2. QED
    BY <1>18, <2>1 DEF DeleteRow, Goto
<1>19. CASE DeleteRowFails
  BY <1>19 DEF DeleteRowFails, Goto
<1>20. CASE Crash
  BY <1>20 DEF Crash, Goto, Referenced
<1>21. CASE UNCHANGED vars
  BY <1>21 DEF vars
<1>22. QED
  BY <1>1, <1>2, <1>3, <1>4, <1>5, <1>6, <1>7, <1>8, <1>9, <1>10, <1>11, <1>12,
     <1>13, <1>14, <1>15, <1>16, <1>17, <1>18, <1>19, <1>20, <1>21
  DEF Next, Continue

\* The invariant of the modules handler.
THEOREM Invariant == Spec => []Inv
<1>1. Init => Inv
  BY InitInv
<1>2. Inv /\ [Next]_vars => Inv'
  BY NextTypeOK, NextPlaced DEF Inv, Placed
<1>3. QED
  BY <1>1, <1>2, PTL DEF Spec

\* Type correctness.
THEOREM TypeCorrect == Spec => []TypeOK
  BY Invariant, PTL DEF Inv

\* A listed module has its own files, whatever failed (AddModule,
\* UpdateModule, DeleteModule).
THEOREM RowsIntact == Spec => []RowsAreIntact
<1>1. Inv => RowsAreIntact
  BY DEF Inv, RowInv, RowsAreIntact
<1>2. QED
  BY <1>1, Invariant, PTL

\* The cache shows the current row's module (cacheSet, cacheDel).
THEOREM CacheCurrent == Spec => []CacheIsCurrent
  BY Invariant, PTL DEF Inv

\* When no call runs, every directory belongs to a row or is known to have
\* been left behind (the deferred functions).
THEOREM DirsAccounted == Spec => []DirsAreAccounted
<1>1. Inv => DirsAreAccounted
  BY ModulesHandlerAssumption
  DEF Inv, StrayInv, DirsAreAccounted, Preparing, Referenced, Unreferenced
<1>2. QED
  BY <1>1, Invariant, PTL

-----------------------------------------------------------------------------
(* Images *)

\* The call has pulled images that no row accounts for yet.
Pulled == IF pc \in {"write", "rollbackImages"} THEN call.newImages ELSE {}

\* The call has replaced a module and still has to remove its images.
Replaced ==
    IF pc \in {"removeOldDir", "removeOldImages"} THEN ModuleImages(call.oldMod) ELSE {}

Shared(m, i) == \E p \in Package : ModuleOf[p] # m /\ i \in ImagesOf[p]

\* The modfile of m can be read and names i.
Needs(m, i) ==
    /\ rows[m] # NoDir
    /\ cache[m] # NoPackage \/ dirs[rows[m]] # "absent"
    /\ i \in ImagesOf[content[rows[m]]]

\* What the call knows of the module that it replaces or deletes.
OldInv ==
    /\ pc # "idle" /\ call.oldMod # NoPackage => ModuleOf[call.oldMod] = call.module
    /\ pc \in Preparing /\ rows[call.module] # NoDir =>
          call.oldMod = content[rows[call.module]]
    /\ pc \in {"removeOldDir", "removeOldImages"} =>
          /\ rows[call.module] # NoDir /\ call.module \notin halfDeleted
          /\ content[rows[call.module]] = call.package
    /\ pc \in Deleting =>
          \/ call.oldMod = content[rows[call.module]]
          \/ cache[call.module] = NoPackage /\ dirs[call.oldDir] = "absent"
    /\ pc \in {"removeDir", "deleteRow"} => images \cap ModuleImages(call.oldMod) = {}
    /\ pc = "write" => ImagesOf[call.package] \subseteq images
    /\ pc = "write" => call.newImages \subseteq ImagesOf[call.package]

\* ImagesAreAccounted, extended to the steps of a call.
AccountedInv ==
    \A i \in images :
        i \in strayImages \cup Pulled \cup Replaced \/ \E m \in Module : Needs(m, i)

\* UnsharedImagesPresent holds also of what a rollback will leave.
PresentInv ==
    \A m \in Module :
        rows[m] # NoDir /\ m \notin halfDeleted =>
            \A i \in ImagesOf[content[rows[m]]] : i \in images \ Pulled \/ Shared(m, i)

ImagesInv == OldInv /\ AccountedInv /\ PresentInv

LEMMA NeededAreNeeded ==
    ASSUME Inv
    PROVE  \A i : i \in NeededImages <=> \E m \in Module : Needs(m, i)
<1>1. ASSUME NEW m \in Module, rows[m] # NoDir, NEW p
      PROVE  p \in Readable(m) <=>
                /\ cache[m] # NoPackage \/ dirs[rows[m]] # "absent"
                /\ p = content[rows[m]]
  BY <1>1 DEF Inv, TypeOK, RowInv, CacheIsCurrent, Readable
<1> QED  BY <1>1 DEF NeededImages, Needs

LEMMA NeededAreNeededNext ==
    ASSUME Inv'
    PROVE  \A i : i \in NeededImages' <=> \E m \in Module : Needs(m, i)'
<1>1. ASSUME NEW m \in Module, rows'[m] # NoDir, NEW p
      PROVE  p \in Readable(m)' <=>
                /\ cache'[m] # NoPackage \/ dirs'[rows'[m]] # "absent"
                /\ p = content'[rows'[m]]
  BY <1>1 DEF Inv, TypeOK, RowInv, CacheIsCurrent, Readable
<1> QED  BY <1>1 DEF NeededImages, Needs

LEMMA NextOldInv ==
    ASSUME Inv, Inv', ImagesInv, [Next]_vars
    PROVE  OldInv'
<1> USE ModulesHandlerAssumption
    DEF Inv, TypeOK, ImagesInv, OldInv, CallInv, Preparing, Deleting
<1>1. ASSUME NEW m \in Module, NEW p \in Package, NEW d \in Dir, AddModule(m, p, d)
      PROVE  OldInv'
  BY <1>1 DEF AddModule, Enter
<1>2. ASSUME NEW m \in Module, NEW p \in Package, NEW d \in Dir, UpdateModule(m, p, d)
      PROVE  OldInv'
  <2>1. PICK mod \in Readable(m) :
              Enter([module |-> m, package |-> p, dir |-> d, oldDir |-> rows[m],
                     oldMod |-> mod, newImages |-> {}], "copy")
    BY <1>2 DEF UpdateModule
  <2>2. mod = content[rows[m]] /\ ModuleOf[mod] = m
    BY <1>2, ReadableIsPackage DEF UpdateModule, RowInv
  <2>. QED  BY <2>1, <2>2 DEF Enter
<1>3. ASSUME NEW m \in Module, DeleteModule(m)
      PROVE  OldInv'
  <2>1. PICK mod \in IF Readable(m) = {} THEN {NoPackage} ELSE Readable(m) :
              Enter([module |-> m, package |-> NoPackage, dir |-> NoDir,
                     oldDir |-> rows[m], oldMod |-> mod, newImages |-> {}],
                    "removeImages")
    BY <1>3 DEF DeleteModule
  <2>2. CASE Readable(m) = {}
    <3>1. cache[m] = NoPackage /\ dirs[rows[m]] = "absent"
      BY <2>2 DEF Readable
    <3>. QED  BY <2>1, <2>2, <3>1 DEF Enter
  <2>3. CASE Readable(m) # {}
    <3>1. mod = content[rows[m]] /\ ModuleOf[mod] = m
      BY <1>3, <2>1, <2>3, ReadableIsPackage DEF DeleteModule, RowInv
    <3>. QED  BY <2>1, <3>1 DEF Enter
  <2>. QED  BY <2>2, <2>3
<1>4. ASSUME NEW m \in Module, GetModule(m)
      PROVE  OldInv'
  BY <1>4 DEF GetModule
<1>5. CASE CopyAll \/ CopyAllFails
  <2>1. rows[call.module] # NoDir => rows[call.module] # call.dir
    BY <1>5 DEF CopyAll, CopyAllFails, Unreferenced, Call
  <2>. QED  BY <1>5, <2>1 DEF CopyAll, CopyAllFails, Goto, Call
<1>6. CASE CheckModfile
  BY <1>6 DEF CheckModfile, Goto
<1>7. CASE PullImages
  <2>1. call \in Call
    BY <1>7 DEF PullImages
  <2>2. /\ call'.oldMod = call.oldMod /\ call'.package = call.package
        /\ call'.module = call.module /\ call'.newImages = MissingImages
    BY <1>7, <2>1 DEF PullImages, Call
  <2>. QED  BY <1>7, <2>2 DEF PullImages, MissingImages
<1>8. CASE PullImagesFails
  BY <1>8 DEF PullImagesFails, Goto
<1>9. CASE WriteRow
  <2>1. call.module \in Module /\ call.dir \in Dir
    BY <1>9 DEF WriteRow, Call
  <2>2. /\ rows'[call.module] = call.dir /\ call.module \notin halfDeleted'
        /\ content'[call.dir] = call.package
    BY <1>9, <2>1 DEF WriteRow
  <2>. QED  BY <1>9, <2>1, <2>2 DEF WriteRow, Goto
<1>10. CASE WriteRowFails \/ RollbackImages \/ DeleteRowFails \/ RemoveOldImages
  BY <1>10 DEF WriteRowFails, RollbackImages, DeleteRowFails, RemoveOldImages, Goto
<1>11. CASE RollbackDir
  BY <1>11 DEF RollbackDir, RemoveAll, RemoveAllFails, Goto
<1>12. CASE RemoveOldDir
  BY <1>12 DEF RemoveOldDir, RemoveAll, RemoveAllFails, Goto
<1>13. CASE RemoveImages
  BY <1>13 DEF RemoveImages, Goto
<1>14. CASE RemoveDir
  BY <1>14 DEF RemoveDir, RemoveAll, RemoveAllFails, Goto
<1>15. CASE DeleteRow
  BY <1>15 DEF DeleteRow, Goto
<1>16. CASE Crash
  BY <1>16 DEF Crash, Goto
<1>17. CASE UNCHANGED vars
  BY <1>17 DEF vars, ModuleImages
<1> QED
  BY <1>1, <1>2, <1>3, <1>4, <1>5, <1>6, <1>7, <1>8, <1>9, <1>10, <1>11, <1>12,
     <1>13, <1>14, <1>15, <1>16, <1>17 DEF Next, Continue

LEMMA NextAccountedInv ==
    ASSUME Inv, Inv', ImagesInv, [Next]_vars
    PROVE  AccountedInv'
<1> USE ModulesHandlerAssumption
    DEF Inv, TypeOK, ImagesInv, AccountedInv, Pulled, Replaced, Preparing, Deleting
\* Steps that disturb nothing that is needed.
<1>1. ASSUME \A m \in Module, i \in Image : Needs(m, i) => Needs(m, i)',
             images' \subseteq images \cup strayImages' \cup Pulled' \cup Replaced',
             (strayImages \cup Pulled \cup Replaced) \cap images'
                 \subseteq strayImages' \cup Pulled' \cup Replaced'
      PROVE  AccountedInv'
  BY <1>1
<1>2. ASSUME UNCHANGED <<rows, dirs, content, cache>>
      PROVE  \A m \in Module, i \in Image : Needs(m, i)' <=> Needs(m, i)
  BY <1>2 DEF Needs
<1>3. CASE \E m \in Module, p \in Package, d \in Dir :
              AddModule(m, p, d) \/ UpdateModule(m, p, d)
  BY <1>1, <1>2, <1>3 DEF AddModule, UpdateModule, Enter
<1>4. CASE \E m \in Module : DeleteModule(m)
  BY <1>1, <1>2, <1>4 DEF DeleteModule, Enter
<1>5. ASSUME NEW m \in Module, GetModule(m)
      PROVE  AccountedInv'
  <2>1. \A n \in Module, i \in Image : Needs(n, i) => Needs(n, i)'
    BY <1>5, ReadableIsPackage DEF GetModule, Needs
  <2>. QED  BY <1>1, <1>5, <2>1 DEF GetModule
<1>6. CASE CopyAll \/ CopyAllFails
  <2>1. \A m \in Module : rows[m] # call.dir
    BY <1>6 DEF CopyAll, CopyAllFails, CallInv, Unreferenced
  <2>2. \A m \in Module, i \in Image : Needs(m, i) => Needs(m, i)'
    BY <1>6, <2>1 DEF CopyAll, CopyAllFails, Needs
  <2>. QED  BY <1>1, <1>6, <2>2 DEF CopyAll, CopyAllFails, Goto
<1>7. CASE CheckModfile
  BY <1>1, <1>2, <1>7 DEF CheckModfile, Goto
<1>8. CASE PullImages
  <2>1. call \in Call
    BY <1>8 DEF PullImages
  <2>2. call'.newImages = MissingImages
    BY <1>8, <2>1 DEF PullImages, Call
  <2>. QED  BY <1>1, <1>2, <1>8, <2>2 DEF PullImages, MissingImages
<1>9. CASE PullImagesFails
  BY <1>1, <1>2, <1>9 DEF PullImagesFails, Goto
<1>10. CASE WriteRow
  <2>. PICK m \in Module, p \in Package : m = call.module /\ p = call.package
    BY <1>10 DEF WriteRow, Call, CallInv
  <2>1. /\ call.dir \in Dir /\ call.oldDir = rows[m] /\ content[call.dir] = p
        /\ pc = "write" /\ call.newImages \subseteq ImagesOf[p]
    BY <1>10 DEF WriteRow, Call, CallInv, OldInv
  <2>2. /\ rows' = [rows EXCEPT ![m] = call.dir] /\ cache' = [cache EXCEPT ![m] = p]
        /\ UNCHANGED <<dirs, content, images, strayImages>>
        /\ IF call.oldDir = NoDir THEN pc' = "idle"
                                  ELSE pc' = "removeOldDir" /\ call' = call
    BY <1>10 DEF WriteRow, Goto
  <2>3. \A i \in ImagesOf[p] : Needs(m, i)'
    BY <2>1, <2>2 DEF Needs
  <2>4. ASSUME NEW i \in Image, Needs(m, i)
        PROVE  i \in Replaced'
    <3>1. rows[m] # NoDir /\ i \in ImagesOf[content[rows[m]]]
      BY <2>4 DEF Needs
    <3>2. call.oldMod = content[rows[m]] /\ call.oldMod \in Package
      BY <2>1, <3>1 DEF OldInv, RowInv
    <3>. QED  BY <2>1, <2>2, <3>1, <3>2 DEF ModuleImages
  <2>5. \A n \in Module \ {m}, i \in Image : Needs(n, i) => Needs(n, i)'
    BY <2>1, <2>2 DEF Needs
  <2> SUFFICES ASSUME NEW i \in images
               PROVE  i \in strayImages' \cup Replaced' \/ \E n \in Module : Needs(n, i)'
    BY <2>2
  <2>6. i \in strayImages \/ i \in call.newImages \/ \E n \in Module : Needs(n, i)
    BY <2>1
  <2>. QED  BY <2>1, <2>2, <2>3, <2>4, <2>5, <2>6
<1>11. CASE WriteRowFails
  BY <1>1, <1>2, <1>11 DEF WriteRowFails, Goto
<1>12. CASE RollbackImages
  BY <1>1, <1>2, <1>12 DEF RollbackImages, Goto
<1>13. CASE RollbackDir
  <2>1. \A m \in Module : rows[m] # call.dir
    BY <1>13 DEF RollbackDir, CallInv, Unreferenced
  <2>2. \A m \in Module, i \in Image : Needs(m, i) => Needs(m, i)'
    BY <1>13, <2>1 DEF RollbackDir, RemoveAll, RemoveAllFails, Needs
  <2>. QED  BY <1>1, <1>13, <2>2 DEF RollbackDir, RemoveAll, RemoveAllFails, Goto
<1>14. CASE RemoveOldDir
  <2>1. \A m \in Module : rows[m] # call.oldDir
    BY <1>14 DEF RemoveOldDir, CallInv, Unreferenced
  <2>2. \A m \in Module, i \in Image : Needs(m, i) => Needs(m, i)'
    BY <1>14, <2>1 DEF RemoveOldDir, RemoveAll, RemoveAllFails, Needs
  <2>. QED  BY <1>1, <1>14, <2>2 DEF RemoveOldDir, RemoveAll, RemoveAllFails, Goto
<1>15. CASE RemoveOldImages
  <2> DEFINE m == call.module
             p == call.package
  <2>1. /\ m \in Module /\ p \in Package /\ rows[m] # NoDir /\ m \notin halfDeleted
        /\ content[rows[m]] = p /\ pc = "removeOldImages"
    BY <1>15 DEF RemoveOldImages, Call, CallInv, OldInv
  <2>2. \A i \in ImagesOf[p] : Needs(m, i)
    BY <2>1 DEF Needs, RowInv
  <2>3. /\ UNCHANGED <<rows, dirs, content, cache>> /\ pc' = "idle"
        /\ strayImages \subseteq strayImages' /\ images' \subseteq images
        /\ \A i \in images' : i \in ModuleImages(call.oldMod) =>
              i \in ImagesOf[p] \cup strayImages'
    BY <1>15 DEF RemoveOldImages, Goto
  <2>. QED  BY <1>2, <2>1, <2>2, <2>3
<1>16. CASE RemoveImages
  BY <1>1, <1>2, <1>16 DEF RemoveImages, Goto
<1>17. CASE RemoveDir
  <2> DEFINE m == call.module
  <2>1. /\ m \in Module /\ call.oldDir = rows[m] /\ rows[m] \in Dir /\ pc = "removeDir"
        /\ images \cap ModuleImages(call.oldMod) = {}
        /\ \/ call.oldMod = content[rows[m]]
           \/ cache[m] = NoPackage /\ dirs[rows[m]] = "absent"
    BY <1>17 DEF RemoveDir, Call, CallInv, OldInv
  <2>2. \A i \in images : ~ Needs(m, i)
    BY <2>1 DEF Needs, RowInv, ModuleImages
  <2>3. \A n \in Module \ {m} : rows[n] # call.oldDir
    BY <2>1 DEF DirInv
  <2>4. /\ UNCHANGED <<rows, content, cache, images, strayImages>>
        /\ \A d \in Dir \ {call.oldDir} : dirs'[d] = dirs[d]
        /\ pc' \in {"deleteRow", "idle"}
    BY <1>17 DEF RemoveDir, RemoveAll, RemoveAllFails, Goto
  <2>5. \A n \in Module \ {m}, i \in Image : Needs(n, i) => Needs(n, i)'
    BY <2>3, <2>4 DEF Needs
  <2>. QED  BY <2>1, <2>2, <2>4, <2>5
<1>18. CASE DeleteRow
  <2> DEFINE m == call.module
  <2>1. /\ m \in Module /\ call.oldDir = rows[m] /\ rows[m] \in Dir /\ pc = "deleteRow"
        /\ images \cap ModuleImages(call.oldMod) = {}
        /\ \/ call.oldMod = content[rows[m]]
           \/ cache[m] = NoPackage /\ dirs[rows[m]] = "absent"
    BY <1>18 DEF DeleteRow, Call, CallInv, OldInv
  <2>2. \A i \in images : ~ Needs(m, i)
    BY <2>1 DEF Needs, RowInv, ModuleImages
  <2>3. \A n \in Module \ {m}, i \in Image : Needs(n, i) => Needs(n, i)'
    BY <1>18, <2>1 DEF DeleteRow, Needs
  <2>. QED  BY <1>18, <2>1, <2>2, <2>3 DEF DeleteRow, Goto
<1>19. CASE DeleteRowFails
  BY <1>1, <1>2, <1>19 DEF DeleteRowFails, Goto
<1>20. CASE Crash
  BY <1>20, NeededAreNeededNext DEF Crash, Goto
<1>21. CASE UNCHANGED vars
  BY <1>1, <1>2, <1>21 DEF vars, ModuleImages
<1> QED
  BY <1>3, <1>4, <1>5, <1>6, <1>7, <1>8, <1>9, <1>10, <1>11, <1>12, <1>13, <1>14,
     <1>15, <1>16, <1>17, <1>18, <1>19, <1>20, <1>21 DEF Next, Continue

LEMMA NextPresentInv ==
    ASSUME Inv, Inv', ImagesInv, [Next]_vars
    PROVE  PresentInv'
<1> USE ModulesHandlerAssumption
    DEF Inv, TypeOK, ImagesInv, PresentInv, Pulled, Preparing, Deleting
\* Steps that touch no row and no file of one, and remove only what others name.
<1>1. ASSUME UNCHANGED rows, halfDeleted \subseteq halfDeleted',
             \A m \in Module : rows[m] # NoDir => content'[rows[m]] = content[rows[m]],
             \A m \in Module, i \in Image :
                 (/\ rows[m] # NoDir /\ m \notin halfDeleted'
                  /\ i \in ImagesOf[content[rows[m]]]
                  /\ i \in images \ Pulled /\ i \notin images' \ Pulled') => Shared(m, i)
      PROVE  PresentInv'
  <2> SUFFICES ASSUME NEW m \in Module, rows'[m] # NoDir, m \notin halfDeleted',
                      NEW i \in ImagesOf[content'[rows'[m]]]
               PROVE  i \in images' \ Pulled' \/ Shared(m, i)'
    BY DEF PresentInv
  <2>1. content[rows[m]] \in Package /\ i \in Image /\ i \in ImagesOf[content[rows[m]]]
    BY <1>1 DEF RowInv
  <2>. QED  BY <1>1, <2>1 DEF Shared
<1>2. CASE UNCHANGED <<rows, content, halfDeleted, images>> /\ Pulled' \subseteq Pulled
  BY <1>1, <1>2
<1>3. CASE \E m \in Module, p \in Package, d \in Dir :
              AddModule(m, p, d) \/ UpdateModule(m, p, d)
  BY <1>2, <1>3 DEF AddModule, UpdateModule, Enter
<1>4. CASE \E m \in Module : DeleteModule(m) \/ GetModule(m)
  BY <1>2, <1>4 DEF DeleteModule, GetModule, Enter
<1>5. CASE CopyAll \/ CopyAllFails
  <2>1. \A m \in Module : rows[m] # call.dir
    BY <1>5 DEF CopyAll, CopyAllFails, CallInv, Unreferenced
  <2>. QED  BY <1>1, <1>5, <2>1 DEF CopyAll, CopyAllFails, Goto
<1>6. CASE CheckModfile \/ RollbackDir \/ RemoveOldDir
  BY <1>2, <1>6
  DEF CheckModfile, RollbackDir, RemoveOldDir, RemoveAll, RemoveAllFails, Goto
<1>7. CASE PullImages
  <2>1. call \in Call
    BY <1>7 DEF PullImages
  <2>2. call'.newImages = MissingImages
    BY <1>7, <2>1 DEF PullImages, Call
  <2>. QED  BY <1>1, <1>7, <2>2 DEF PullImages, MissingImages
<1>8. CASE PullImagesFails
  BY <1>1, <1>8 DEF PullImagesFails, Goto
<1>9. CASE WriteRow
  <2> DEFINE m == call.module
             p == call.package
  <2>1. /\ m \in Module /\ call.dir \in Dir /\ p \in Package
        /\ content[call.dir] = p /\ pc = "write" /\ ImagesOf[p] \subseteq images
    BY <1>9 DEF WriteRow, Call, CallInv, OldInv
  <2>2. /\ rows' = [rows EXCEPT ![m] = call.dir] /\ halfDeleted' = halfDeleted \ {m}
        /\ UNCHANGED <<content, images>> /\ Pulled' = {}
    BY <1>9 DEF WriteRow, Goto
  <2>. QED  BY <2>1, <2>2 DEF Shared
<1>10. CASE WriteRowFails
  BY <1>2, <1>10 DEF WriteRowFails, Goto
<1>11. CASE RollbackImages
  BY <1>1, <1>11 DEF RollbackImages, Goto
<1>12. CASE RemoveOldImages
  <2> DEFINE m == call.module
             p == call.package
  <2>1. /\ m \in Module /\ content[rows[m]] = p /\ pc = "removeOldImages"
        /\ call.oldMod \in Package \cup {NoPackage}
        /\ call.oldMod # NoPackage => ModuleOf[call.oldMod] = m
    BY <1>12 DEF RemoveOldImages, Call, OldInv
  <2>2. /\ UNCHANGED <<rows, content, halfDeleted>> /\ pc' = "idle"
        /\ images \ (ModuleImages(call.oldMod) \ ImagesOf[p]) \subseteq images'
    BY <1>12 DEF RemoveOldImages, Goto
  <2>3. \A n \in Module \ {m}, i \in ModuleImages(call.oldMod) : Shared(n, i)
    BY <2>1 DEF ModuleImages, Shared
  <2>. QED  BY <1>1, <2>1, <2>2, <2>3
<1>13. CASE RemoveImages
  <2> DEFINE m == call.module
  <2>1. /\ m \in Module /\ pc = "removeImages"
        /\ call.oldMod \in Package \cup {NoPackage}
        /\ call.oldMod # NoPackage => ModuleOf[call.oldMod] = m
    BY <1>13 DEF RemoveImages, Call, OldInv
  <2>2. /\ UNCHANGED <<rows, content>> /\ halfDeleted' = halfDeleted \cup {m}
        /\ images \ ModuleImages(call.oldMod) \subseteq images'
        /\ pc' \in {"removeDir", "idle"}
    BY <1>13 DEF RemoveImages, Goto
  <2>3. \A n \in Module \ {m}, i \in ModuleImages(call.oldMod) : Shared(n, i)
    BY <2>1 DEF ModuleImages, Shared
  <2>. QED  BY <1>1, <2>1, <2>2, <2>3
<1>14. CASE RemoveDir
  BY <1>2, <1>14 DEF RemoveDir, RemoveAll, RemoveAllFails, Goto
<1>15. CASE DeleteRow
  <2>1. call.module \in Module /\ pc = "deleteRow"
    BY <1>15 DEF DeleteRow, Call
  <2>. QED  BY <1>15, <2>1 DEF DeleteRow, Goto, Shared
<1>16. CASE DeleteRowFails \/ Crash
  BY <1>2, <1>16 DEF DeleteRowFails, Crash, Goto
<1>17. CASE UNCHANGED vars
  BY <1>2, <1>17 DEF vars
<1> QED
  BY <1>3, <1>4, <1>5, <1>6, <1>7, <1>8, <1>9, <1>10, <1>11, <1>12, <1>13, <1>14,
     <1>15, <1>16, <1>17 DEF Next, Continue

LEMMA ImagesInvariant == Spec => []ImagesInv
<1>1. Init => ImagesInv
  BY DEF Init, ImagesInv, OldInv, AccountedInv, PresentInv, Preparing, Deleting
<1>2. Inv /\ Inv' /\ ImagesInv /\ [Next]_vars => ImagesInv'
  BY NextOldInv, NextAccountedInv, NextPresentInv DEF ImagesInv
<1>. QED  BY <1>1, <1>2, Invariant, PTL DEF Spec

\* What was pulled belongs to an installed module or has a named cause, and no module
\* lacks an image that is its own, whatever failed: the deferred functions, and the
\* removals that look at one module only, leave nothing else behind (pullImages,
\* removeImages, removeOldImages).
THEOREM ImagesMatch == Spec => []ImagesMatchModules
<1>1. Inv /\ ImagesInv => ImagesAreAccounted
  BY NeededAreNeeded
  DEF Inv, TypeOK, ImagesInv, AccountedInv, ImagesAreAccounted, Pulled, Replaced
<1>2. ImagesInv => UnsharedImagesPresent
  BY DEF ImagesInv, PresentInv, UnsharedImagesPresent, Shared
<1>. QED  BY <1>1, <1>2, Invariant, ImagesInvariant, PTL DEF ImagesMatchModules

-----------------------------------------------------------------------------
(* Refinement *)

\* Steps that leave rows alone, and the directories of rows, are invisible.
LEMMA InvisibleStep ==
    ASSUME Inv, UNCHANGED <<rows, content>>,
           \A d \in Dir : ~Unreferenced(d) => dirs'[d] = dirs[d]
    PROVE  UNCHANGED Installed
<1>1. \A m \in Module : rows[m] # NoDir => dirs'[rows[m]] = dirs[rows[m]]
  BY DEF Inv, TypeOK, Unreferenced
<1>2. QED
  BY <1>1 DEF Installed

\* A step of the handler is a step of the store or is invisible.
LEMMA StoreStep ==
    ASSUME Inv, [Next]_vars
    PROVE  [Store!StoreNext]_Installed
<1> USE ModulesHandlerAssumption DEF Inv
<1>1. CASE CopyAll \/ CopyAllFails
  <2>1. call.dir \in Dir /\ Unreferenced(call.dir) /\ content[call.dir] = NoPackage
    BY <1>1 DEF CopyAll, CopyAllFails, CallInv, Preparing
  <2>2. /\ \A m \in Module : rows[m] # NoDir => rows[m] # call.dir
        /\ UNCHANGED rows
        /\ \A d \in Dir : d # call.dir => dirs'[d] = dirs[d] /\ content'[d] = content[d]
    BY <1>1, <2>1 DEF CopyAll, CopyAllFails, Unreferenced, TypeOK
  <2>3. UNCHANGED Installed
    BY <2>2 DEF Installed, TypeOK
  <2>4. QED
    BY <2>3
<1>2. CASE RollbackDir
  <2>1. Unreferenced(call.dir)
    BY <1>2 DEF RollbackDir, CallInv, Preparing
  <2>2. QED
    BY <1>2, <2>1, InvisibleStep DEF RollbackDir, RemoveAll, RemoveAllFails, TypeOK
<1>3. CASE RemoveOldDir
  <2>1. Unreferenced(call.oldDir)
    BY <1>3 DEF RemoveOldDir, CallInv
  <2>2. QED
    BY <1>3, <2>1, InvisibleStep DEF RemoveOldDir, RemoveAll, RemoveAllFails, TypeOK
<1>4. CASE WriteRow
  <2> DEFINE m == call.module
             p == call.package
  <2>1. /\ m \in Module /\ p \in Package /\ ModuleOf[p] = m
        /\ call.dir \in Dir /\ Unreferenced(call.dir)
        /\ dirs[call.dir] = "whole" /\ content[call.dir] = p
    BY <1>4 DEF WriteRow, TypeOK, Call, CallInv, Preparing
  <2>2. Installed' = [Installed EXCEPT ![m] = p]
    BY <1>4, <2>1 DEF WriteRow, Installed, TypeOK
  <2>3. Store!Install(m, p) \/ Store!Replace(m, p)
    BY <2>2 DEF Store!Install, Store!Replace
  <2>4. QED
    BY <2>1, <2>3 DEF Store!StoreNext
<1>5. CASE RemoveDir
  <2> DEFINE m == call.module
  <2>1. m \in Module /\ call.oldDir = rows[m] /\ call.oldDir \in Dir
    BY <1>5 DEF RemoveDir, TypeOK, Call, CallInv, Deleting
  <2>2. \A n \in Module : n # m => rows[n] # call.oldDir
    BY <2>1 DEF DirInv
  <2>3. content[rows[m]] \in Package
    BY <2>1 DEF RowInv
  <2>4. CASE dirs' = dirs
    BY <1>5, <2>4, InvisibleStep DEF RemoveDir, RemoveAll, RemoveAllFails
  <2>5. CASE dirs' = [dirs EXCEPT ![call.oldDir] = "absent"]
             \/ dirs' = [dirs EXCEPT ![call.oldDir] = "part"]
    <3>1. Installed' = [Installed EXCEPT ![m] = Broken]
      <4>1. UNCHANGED <<rows, content>>
        BY <1>5 DEF RemoveDir, RemoveAll, RemoveAllFails
      <4>2. \A n \in Module : Installed'[n] = IF n = m THEN Broken ELSE Installed[n]
        BY <2>1, <2>2, <2>5, <4>1 DEF Installed, TypeOK
      <4>3. QED
        BY <4>1, <4>2 DEF Installed
    <3>2. Installed[m] \in Package \cup {Broken}
      BY <2>1, <2>3 DEF Installed
    <3>3. CASE Installed[m] = Broken
      <4>1. UNCHANGED Installed
        BY <2>1, <3>1, <3>3 DEF Installed
      <4>2. QED
        BY <4>1
    <3>4. CASE Installed[m] \in Package
      BY <2>1, <3>1, <3>4 DEF Store!StoreNext, Store!Break
    <3>5. QED
      BY <3>2, <3>3, <3>4
  <2>6. QED
    BY <1>5, <2>4, <2>5 DEF RemoveDir, RemoveAll, RemoveAllFails
<1>6. CASE DeleteRow
  <2> DEFINE m == call.module
  <2>1. /\ m \in Module /\ call.oldDir = rows[m] /\ call.oldDir \in Dir
        /\ dirs[rows[m]] = "absent"
    BY <1>6 DEF DeleteRow, TypeOK, Call, CallInv, Deleting
  <2>2. Installed[m] = Broken /\ Installed' = [Installed EXCEPT ![m] = NoPackage]
    BY <1>6, <2>1 DEF DeleteRow, Installed, TypeOK
  <2>3. QED
    BY <2>1, <2>2 DEF Store!StoreNext, Store!Forget
<1>7. CASE UNCHANGED <<rows, dirs, content>>
  BY <1>7 DEF Installed
<1>8. QED
  BY <1>1, <1>2, <1>3, <1>4, <1>5, <1>6, <1>7
  DEF Next, Continue, AddModule, UpdateModule, DeleteModule, GetModule, Enter,
      CheckModfile, PullImages, PullImagesFails, WriteRowFails, RollbackImages,
      RemoveOldImages, RemoveImages, DeleteRowFails, Crash, vars

\* The handler implements the store: what is installed changes in one step or
\* not at all.
THEOREM Refinement == Spec => StoreRefinement
<1>1. Init => Store!StoreInit
  BY DEF Init, Store!StoreInit, Installed
<1>2. QED
  BY <1>1, StoreStep, Invariant, PTL DEF Spec, StoreRefinement, Store!StoreSpec

=============================================================================
