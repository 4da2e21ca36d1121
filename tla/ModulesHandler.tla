---------------------------- MODULE ModulesHandler ----------------------------
(***************************************************************************)
(* The modules handler (pkg/components/handler/modules): it keeps modules  *)
(* in four places that no transaction spans: the table of the database,    *)
(* one directory per installed package, the images of the container        *)
(* engine, and a cache of parsed modfiles.                                 *)
(*                                                                         *)
(* AddModule, UpdateModule and DeleteModule hold Handler.mu, so one call   *)
(* runs at a time; every effect of a call on one of the four places is a   *)
(* step, may fail, and may be the last before a crash.  A call that fails  *)
(* without an effect is no step.                                           *)
(*                                                                         *)
(* A package is the content of a module's file system: a modfile with the  *)
(* id of its module and the images of its services.                        *)
(***************************************************************************)
EXTENDS Naturals, FiniteSets

CONSTANTS
    Module,    \* module ids
    Package,   \* versions of modules that a repository offers
    Image,     \* images of the container engine
    Dir,       \* directory names (UUIDs, each used once)
    NoPackage, \* missing cache entry, directory without content
    NoDir,     \* missing row of the database
    NoCall,    \* no call holds Handler.mu
    Broken,    \* a module whose files are gone (see Installed)
    ModuleOf,  \* id in the modfile of a package
    ImagesOf   \* images of the services of a package

ASSUME ModulesHandlerAssumption ==
    /\ NoPackage \notin Package
    /\ Broken \notin Package \cup {NoPackage}
    /\ NoDir \notin Dir
    /\ ModuleOf \in [Package -> Module]
    /\ ImagesOf \in [Package -> SUBSET Image]

VARIABLES
    rows,        \* table modules: the directory of each module
    dirs,        \* the directories below WorkdirPath
    content,     \* the package that was copied to a directory
    cache,       \* Handler.cache: parsed modfiles
    images,      \* images the engine has
    pc,          \* next step of the call that holds Handler.mu
    call,        \* its arguments and local variables
    halfDeleted, \* history: modules with an unfinished deletion
    strayDirs,   \* history: directories left behind by a failure
    strayImages  \* history: images left behind by a failure

vars == <<rows, dirs, content, cache, images, pc, call,
          halfDeleted, strayDirs, strayImages>>

DirState == {"absent", "whole", "part"}

Step == {"idle", "copy", "check", "pull", "write", "rollbackImages",
         "rollbackDir", "removeOldDir", "removeOldImages",
         "removeImages", "removeDir", "deleteRow"}

\* module and package: arguments; dir: new directory; oldDir: the row's
\* directory; oldMod: the module read at the beginning; newImages: images
\* pulled by this call.
Call == [module: Module, package: Package \cup {NoPackage},
         dir: Dir \cup {NoDir}, oldDir: Dir \cup {NoDir},
         oldMod: Package \cup {NoPackage}, newImages: SUBSET Image]

TypeOK ==
    /\ rows \in [Module -> Dir \cup {NoDir}]
    /\ dirs \in [Dir -> DirState]
    /\ content \in [Dir -> Package \cup {NoPackage}]
    /\ cache \in [Module -> Package \cup {NoPackage}]
    /\ images \in SUBSET Image
    /\ pc \in Step
    /\ IF pc = "idle" THEN call = NoCall ELSE call \in Call
    /\ halfDeleted \in SUBSET Module
    /\ strayDirs \in SUBSET Dir
    /\ strayImages \in SUBSET Image

Init ==
    /\ rows = [m \in Module |-> NoDir]
    /\ dirs = [d \in Dir |-> "absent"]
    /\ content = [d \in Dir |-> NoPackage]
    /\ cache = [m \in Module |-> NoPackage]
    /\ images = {}
    /\ pc = "idle"
    /\ call = NoCall
    /\ halfDeleted = {}
    /\ strayDirs = {}
    /\ strayImages = {}

ModuleImages(mod) == IF mod = NoPackage THEN {} ELSE ImagesOf[mod]

\* A UUID that no directory ever had.
Unused(d) == content[d] = NoPackage

Referenced == {rows[m] : m \in Module} \ {NoDir}

\* What reading the modfile of an installed module may give: the cached one,
\* or the one in its directory.  A directory that was removed half-way may or
\* may not have kept the modfile.
Readable(m) ==
    IF cache[m] # NoPackage THEN {cache[m]}
    ELSE IF dirs[rows[m]] = "absent" THEN {} ELSE {content[rows[m]]}

-----------------------------------------------------------------------------
(* AddModule and UpdateModule: check, copy to a new directory, check the   *)
(* id in the modfile, pull, write the row, set the cache; a failure rolls  *)
(* the finished steps back in reverse order.                               *)

Goto(next) ==
    /\ pc' = next
    /\ call' = IF next = "idle" THEN NoCall ELSE call

Enter(c, next) ==
    /\ pc = "idle"
    /\ call' = c
    /\ pc' = next
    /\ UNCHANGED <<rows, dirs, content, cache, images, halfDeleted, strayDirs,
                   strayImages>>

AddModule(m, p, d) ==
    /\ rows[m] = NoDir
    /\ Unused(d)
    /\ Enter([module |-> m, package |-> p, dir |-> d, oldDir |-> NoDir,
              oldMod |-> NoPackage, newImages |-> {}], "copy")

UpdateModule(m, p, d) ==
    /\ rows[m] # NoDir
    /\ Unused(d)
    /\ \E oldMod \in Readable(m) :
          Enter([module |-> m, package |-> p, dir |-> d, oldDir |-> rows[m],
                 oldMod |-> oldMod, newImages |-> {}], "copy")

CopyAll ==
    /\ pc = "copy"
    /\ dirs' = [dirs EXCEPT ![call.dir] = "whole"]
    /\ content' = [content EXCEPT ![call.dir] = call.package]
    /\ Goto("check")
    /\ UNCHANGED <<rows, cache, images, halfDeleted, strayDirs, strayImages>>

\* Faulty variant: the error of the copy is dropped.
CopyAllFailsUnnoticed ==
    /\ pc = "copy"
    /\ dirs' = [dirs EXCEPT ![call.dir] = "part"]
    /\ content' = [content EXCEPT ![call.dir] = call.package]
    /\ Goto("check")
    /\ UNCHANGED <<rows, cache, images, halfDeleted, strayDirs, strayImages>>

\* The removal of the new directory is deferred only after the copy has
\* succeeded: what a failed copy wrote stays.
CopyAllFails ==
    /\ pc = "copy"
    /\ dirs' = [dirs EXCEPT ![call.dir] = "part"]
    /\ content' = [content EXCEPT ![call.dir] = call.package]
    /\ strayDirs' = strayDirs \cup {call.dir}
    /\ Goto("idle")
    /\ UNCHANGED <<rows, cache, images, halfDeleted, strayImages>>

CheckModfile ==
    /\ pc = "check"
    /\ Goto(IF ModuleOf[call.package] = call.module THEN "pull" ELSE "rollbackDir")
    /\ UNCHANGED <<rows, dirs, content, cache, images, halfDeleted,
                   strayDirs, strayImages>>

MissingImages == ImagesOf[call.package] \ images

PullImages ==
    /\ pc = "pull"
    /\ images' = images \cup ImagesOf[call.package]
    /\ call' = [call EXCEPT !.newImages = MissingImages]
    /\ pc' = "write"
    /\ UNCHANGED <<rows, dirs, content, cache, halfDeleted, strayDirs, strayImages>>

\* The removal of the new images is deferred only after all were pulled: what
\* a failed call has pulled stays.
PullImagesFails ==
    /\ pc = "pull"
    /\ \E pulled \in SUBSET MissingImages :
          /\ images' = images \cup pulled
          /\ strayImages' = strayImages \cup pulled
    /\ Goto("rollbackDir")
    /\ UNCHANGED <<rows, dirs, content, cache, halfDeleted, strayDirs>>

\* The row is written; nothing can fail between this and the cache entry.
WriteRow ==
    /\ pc = "write"
    /\ rows' = [rows EXCEPT ![call.module] = call.dir]
    /\ cache' = [cache EXCEPT ![call.module] = call.package]
    /\ halfDeleted' = halfDeleted \ {call.module}
    /\ Goto(IF call.oldDir = NoDir THEN "idle" ELSE "removeOldDir")
    /\ UNCHANGED <<dirs, content, images, strayDirs, strayImages>>

WriteRowFails ==
    /\ pc = "write"
    /\ Goto("rollbackImages")
    /\ UNCHANGED <<rows, dirs, content, cache, images, halfDeleted,
                   strayDirs, strayImages>>

\* Faulty variant: the new directory is not removed.
RollbackImagesOnly ==
    /\ pc = "rollbackImages"
    /\ \E kept \in SUBSET call.newImages :
          /\ images' = images \ (call.newImages \ kept)
          /\ strayImages' = strayImages \cup kept
    /\ Goto("idle")
    /\ UNCHANGED <<rows, dirs, content, cache, halfDeleted, strayDirs>>

\* Errors of the rollback are logged; `kept' are the images that the engine
\* did not remove, all of them if the context of the job is cancelled.
RollbackImages ==
    /\ pc = "rollbackImages"
    /\ \E kept \in SUBSET call.newImages :
          /\ images' = images \ (call.newImages \ kept)
          /\ strayImages' = strayImages \cup kept
    /\ Goto("rollbackDir")
    /\ UNCHANGED <<rows, dirs, content, cache, halfDeleted, strayDirs>>

RemoveAll(d, next) ==
    /\ dirs' = [dirs EXCEPT ![d] = "absent"]
    /\ Goto(next)
    /\ UNCHANGED <<rows, content, cache, images, halfDeleted, strayDirs,
                   strayImages>>

RemoveAllFails(d, next) ==
    /\ dirs[d] # "absent"
    /\ dirs' \in {dirs, [dirs EXCEPT ![d] = "part"]}
    /\ Goto(next)
    /\ UNCHANGED <<rows, content, cache, images, halfDeleted, strayImages>>

RollbackDir ==
    /\ pc = "rollbackDir"
    /\ \/ RemoveAll(call.dir, "idle")
       \/ /\ RemoveAllFails(call.dir, "idle")
          /\ strayDirs' = strayDirs \cup {call.dir}

RemoveOldDir ==
    /\ pc = "removeOldDir"
    /\ \/ RemoveAll(call.oldDir, "removeOldImages")
       \/ /\ RemoveAllFails(call.oldDir, "removeOldImages")
          /\ strayDirs' = strayDirs \cup {call.oldDir}

\* Faulty variant: images that the new module also uses are removed.
RemoveAllOldImages ==
    /\ pc = "removeOldImages"
    /\ LET oldImages == ModuleImages(call.oldMod) IN
       \E kept \in SUBSET oldImages :
          /\ images' = images \ (oldImages \ kept)
          /\ strayImages' = strayImages \cup kept
    /\ Goto("idle")
    /\ UNCHANGED <<rows, dirs, content, cache, halfDeleted, strayDirs>>

\* Images of the old module that the new one does not use; another module may.
RemoveOldImages ==
    /\ pc = "removeOldImages"
    /\ LET oldImages == ModuleImages(call.oldMod) \ ImagesOf[call.package] IN
       \E kept \in SUBSET oldImages :
          /\ images' = images \ (oldImages \ kept)
          /\ strayImages' = strayImages \cup kept
    /\ Goto("idle")
    /\ UNCHANGED <<rows, dirs, content, cache, halfDeleted, strayDirs>>

-----------------------------------------------------------------------------
(* DeleteModule: images, directory, row, cache; every failure ends it.     *)

DeleteModule(m) ==
    /\ rows[m] # NoDir
    /\ \E oldMod \in IF Readable(m) = {} THEN {NoPackage} ELSE Readable(m) :
          Enter([module |-> m, package |-> NoPackage, dir |-> NoDir,
                 oldDir |-> rows[m], oldMod |-> oldMod, newImages |-> {}],
                "removeImages")

\* Faulty variant: the row is deleted before the directory is removed.
RemoveImagesOnly ==
    /\ pc = "removeImages"
    /\ \E kept \in SUBSET ModuleImages(call.oldMod) :
          /\ images' = images \ (ModuleImages(call.oldMod) \ kept)
          /\ Goto(IF kept = {} THEN "deleteRow" ELSE "idle")
    /\ halfDeleted' = halfDeleted \cup {call.module}
    /\ UNCHANGED <<rows, dirs, content, cache, strayDirs, strayImages>>

RemoveImages ==
    /\ pc = "removeImages"
    /\ \E kept \in SUBSET ModuleImages(call.oldMod) :
          /\ images' = images \ (ModuleImages(call.oldMod) \ kept)
          /\ Goto(IF kept = {} THEN "removeDir" ELSE "idle")
    /\ halfDeleted' = halfDeleted \cup {call.module}
    /\ UNCHANGED <<rows, dirs, content, cache, strayDirs, strayImages>>

RemoveDir ==
    /\ pc = "removeDir"
    /\ \/ RemoveAll(call.oldDir, "deleteRow")
       \/ RemoveAllFails(call.oldDir, "idle") /\ UNCHANGED strayDirs

\* Faulty variant: the deleted module stays in the cache.
DeleteRowKeepingCache ==
    /\ pc = "deleteRow"
    /\ rows' = [rows EXCEPT ![call.module] = NoDir]
    /\ halfDeleted' = halfDeleted \ {call.module}
    /\ Goto("idle")
    /\ UNCHANGED <<dirs, content, cache, images, strayDirs, strayImages>>

DeleteRow ==
    /\ pc = "deleteRow"
    /\ rows' = [rows EXCEPT ![call.module] = NoDir]
    /\ cache' = [cache EXCEPT ![call.module] = NoPackage]
    /\ halfDeleted' = halfDeleted \ {call.module}
    /\ Goto("idle")
    /\ UNCHANGED <<dirs, content, images, strayDirs, strayImages>>

DeleteRowFails ==
    /\ pc = "deleteRow"
    /\ Goto("idle")
    /\ UNCHANGED <<rows, dirs, content, cache, images, halfDeleted,
                   strayDirs, strayImages>>

-----------------------------------------------------------------------------

\* GetModules and GetModule read a module that the cache does not have.  They
\* hold Handler.mu for reading, so no call is under way.
GetModule(m) ==
    /\ pc = "idle"
    /\ rows[m] # NoDir
    /\ cache[m] = NoPackage
    /\ \E mod \in Readable(m) : cache' = [cache EXCEPT ![m] = mod]
    /\ UNCHANGED <<rows, dirs, content, images, pc, call, halfDeleted, strayDirs,
                   strayImages>>

\* Images of the modules whose modfile can be read: a deletion finds them.
NeededImages ==
    UNION {ImagesOf[p] : p \in UNION {Readable(m) : m \in {n \in Module : rows[n] # NoDir}}}

\* The process dies and starts again with an empty cache.  Nothing looks for
\* what the call under way had created.
Crash ==
    /\ cache' = [m \in Module |-> NoPackage]
    /\ Goto("idle")
    /\ strayDirs' = strayDirs \cup ({d \in Dir : dirs[d] # "absent"} \ Referenced)
    /\ UNCHANGED <<rows, dirs, content, images, halfDeleted>>
    /\ strayImages' = strayImages \cup (images \ NeededImages')

Continue ==
    \/ CopyAll \/ CopyAllFails \/ CheckModfile
    \/ PullImages \/ PullImagesFails
    \/ WriteRow \/ WriteRowFails \/ RollbackImages \/ RollbackDir
    \/ RemoveOldDir \/ RemoveOldImages
    \/ RemoveImages \/ RemoveDir \/ DeleteRow \/ DeleteRowFails

Next ==
    \/ \E m \in Module, p \in Package, d \in Dir :
          AddModule(m, p, d) \/ UpdateModule(m, p, d)
    \/ \E m \in Module : DeleteModule(m) \/ GetModule(m)
    \/ Continue
    \/ Crash

Spec == Init /\ [][Next]_vars

-----------------------------------------------------------------------------
(* Properties *)

\* A module that is listed has all its files, and they are its own, whatever
\* failed and whenever the process died: only a deletion that was begun and
\* not finished leaves a row without them (AddModule, UpdateModule,
\* DeleteModule).
RowsAreIntact ==
    \A m \in Module :
        rows[m] # NoDir /\ m \notin halfDeleted =>
            /\ dirs[rows[m]] = "whole"
            /\ ModuleOf[content[rows[m]]] = m

\* The cache never shows a module that another call has replaced or deleted:
\* an entry is the package of the current row (cacheSet, cacheGet, cacheDel).
CacheIsCurrent ==
    \A m \in Module :
        cache[m] # NoPackage =>
            rows[m] # NoDir /\ cache[m] = content[rows[m]]

\* When no call runs, every directory belongs to a row, unless a failed copy
\* or a failed removal left it or the process died: the rollback of each
\* other failure is complete (the deferred functions).
DirsAreAccounted ==
    pc = "idle" =>
        \A d \in Dir : dirs[d] # "absent" => d \in Referenced \cup strayDirs

\* The same for images: one that no installed module uses was left by a
\* failed pull, a failed removal or a crash (pullImages, removeImages,
\* removeOldImages).
ImagesAreAccounted ==
    pc = "idle" => images \subseteq NeededImages \cup strayImages

\* An installed module has its images, as long as no other module uses the
\* same image: UpdateModule and DeleteModule remove images without asking
\* who else uses them (removeOldImages, removeImages).
UnsharedImagesPresent ==
    \A m \in Module :
        rows[m] # NoDir /\ m \notin halfDeleted =>
            \A i \in ImagesOf[content[rows[m]]] :
                \/ i \in images
                \/ \E p \in Package : ModuleOf[p] # m /\ i \in ImagesOf[p]

\* The engine's images fit what is installed, whatever failed: none too many
\* and, where modules do not share them, none too few.
ImagesMatchModules ==
    /\ ImagesAreAccounted
    /\ UnsharedImagesPresent

\* The four places together behave as one store: what is installed changes in
\* one step or, when a call fails or the process dies, not at all.
Installed ==
    [m \in Module |->
        IF rows[m] = NoDir THEN NoPackage
        ELSE IF dirs[rows[m]] = "whole" THEN content[rows[m]] ELSE Broken]

Store == INSTANCE ModuleStore WITH installed <- Installed

StoreRefinement == Store!StoreSpec

=============================================================================
