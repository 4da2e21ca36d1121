----------------------------- MODULE Repositories -----------------------------
(***************************************************************************)
(* The repositories handler (pkg/components/handler/repositories) with the *)
(* handler of GitHub repositories: which sources are known, the archives   *)
(* that were downloaded from them, and the look-up table of modules that   *)
(* the service selects from.                                               *)
(*                                                                         *)
(* A source has a file that a restart reads, and a working directory with  *)
(* one directory per downloaded commit and a repo file that names the      *)
(* current one.  No two of these writes are atomic together, and neither   *)
(* is the extraction of an archive or the removal of a directory.          *)
(*                                                                         *)
(* Creating, deleting and refreshing exclude each other: Handler.mu, and   *)
(* the slot and the mutex of the service (see ServiceJobs).  Different     *)
(* sources are taken to have different directories.                        *)
(***************************************************************************)
EXTENDS Naturals, FiniteSets

CONSTANTS
    Source,    \* GitHub repositories
    Priority,  \* priorities a source may be created with
    Commit,    \* commits a repository may be at
    Module,    \* ids of modules
    ModulesIn, \* modules in the archive of a commit
    Missing,   \* no file, no repository, no commit
    Damaged    \* a file that was truncated and not completely written

ASSUME RepositoriesAssumption ==
    /\ ModulesIn \in [Commit -> SUBSET Module]
    /\ Missing \notin Commit \cup Priority
    /\ Damaged \notin Commit \cup Priority
    /\ Missing # Damaged

VARIABLES
    sourceFile, \* sources/<name>: the source and its priority
    known,      \* github Handler.repositories: sources and their priority
    repoFile,   \* repositories/<name>/repo: the current commit
    extracted,  \* repositories/<name>/<commit>: modules of each commit
    lookUp,     \* Handler.lookUpMap: modules of a source with their version
    pc,         \* next step of the operation that runs
    op,         \* its arguments and local variables
    refreshed,  \* the commit each source got by the last refresh, if it did
    untabled,   \* history: deletions begun since the table was built
    cut         \* history: modules removed by a deletion that has not ended

disk == <<sourceFile, repoFile, extracted>>
vars == <<disk, known, lookUp, pc, op, refreshed, untabled, cut>>

Step == {"idle", "create", "delete", "next", "fetch", "extract", "write",
         "undo", "clean"}

\* source, priority: of a creation or deletion, or the repository being
\* refreshed; todo, listed, taken: repositories to visit, visited, and the
\* priorities of those; filter: sources to refresh; commit, old: fetched
\* and previous commit.
Op == [source: Source \cup {Missing}, priority: Priority \cup {Missing},
       filter: SUBSET Source, todo: SUBSET Source, listed: SUBSET Source,
       taken: SUBSET Priority, commit: Commit \cup {Missing},
       old: Commit \cup {Missing}]

NoOp == [source |-> Missing, priority |-> Missing, filter |-> {},
         todo |-> {}, listed |-> {}, taken |-> {}, commit |-> Missing,
         old |-> Missing]

(* Types of all variables. *)
TypeOK ==
    /\ sourceFile \in [Source -> Priority \cup {Missing, Damaged}]
    /\ known \in [Source -> Priority \cup {Missing}]
    /\ repoFile \in [Source -> Commit \cup {Missing, Damaged}]
    /\ extracted \in [Source -> [Commit -> SUBSET Module]]
    /\ lookUp \in [Source -> SUBSET (Module \X Commit)]
    /\ pc \in Step
    /\ op \in Op
    /\ refreshed \in [Source -> Commit \cup {Missing}]
    /\ untabled \subseteq Source
    /\ cut \subseteq Source

Known == {s \in Source : known[s] # Missing}
NoCommit == [s \in Source |-> Missing]

Init ==
    /\ sourceFile = [s \in Source |-> Missing]
    /\ known = [s \in Source |-> Missing]
    /\ repoFile = [s \in Source |-> Missing]
    /\ extracted = [s \in Source |-> [c \in Commit |-> {}]]
    /\ lookUp = [s \in Source |-> {}]
    /\ pc = "idle"
    /\ op = NoOp
    /\ refreshed = NoCommit
    /\ untabled = {}
    /\ cut = {}

(***************************************************************************)
(* The look-up table                                                       *)
(***************************************************************************)

\* The modules below the directory that the repo file names; none without a
\* repo file or directory.
FileSystemsMap(s) ==
    IF repoFile[s] \in Commit
    THEN extracted[s][repoFile[s]] \X {repoFile[s]}
    ELSE {}

\* A repository whose files cannot be read gets no modules.
LookUpMap(repos, unread) ==
    [s \in Source |-> IF s \in repos \ unread THEN FileSystemsMap(s) ELSE {}]

\* The commit a module is served from: the table is asked for the module,
\* the repository for its files as they are now.
GetModuleFS(s, m) ==
    IF /\ \E c \in Commit : <<m, c>> \in lookUp[s]
       /\ known[s] # Missing
       /\ repoFile[s] \in Commit
       /\ m \in extracted[s][repoFile[s]]
    THEN repoFile[s]
    ELSE Missing

(***************************************************************************)
(* Creating and deleting a repository                                      *)
(***************************************************************************)

\* os.Create truncates the file of the source.
CreateRepository(s, p) ==
    /\ pc = "idle"
    /\ known[s] = Missing
    /\ pc' = "create"
    /\ op' = [NoOp EXCEPT !.source = s, !.priority = p]
    /\ refreshed' = NoCommit
    /\ sourceFile' = [sourceFile EXCEPT ![s] = Damaged]
    /\ UNCHANGED <<known, repoFile, extracted, lookUp, untabled, cut>>

WriteSource ==
    /\ pc = "create"
    /\ sourceFile' = [sourceFile EXCEPT ![op.source] = op.priority]
    /\ known' = [known EXCEPT ![op.source] = op.priority]
    /\ pc' = "idle"
    /\ op' = NoOp
    /\ UNCHANGED <<repoFile, extracted, lookUp, refreshed, untabled, cut>>

WriteSourceFails ==
    /\ pc = "create"
    /\ pc' = "idle"
    /\ op' = NoOp
    /\ UNCHANGED <<disk, known, lookUp, refreshed, untabled, cut>>

\* Handler.DeleteRepository asks the handlers in any order and stops at the
\* first error.  The one of the host directory always returns one: either
\* nothing happens (no step), or this, and an error as well.
DeleteRepository(s) ==
    /\ pc = "idle"
    /\ known[s] # Missing
    /\ pc' = "delete"
    /\ op' = [NoOp EXCEPT !.source = s]
    /\ refreshed' = NoCommit
    /\ untabled' = untabled \cup {s}
    /\ UNCHANGED <<disk, known, lookUp, cut>>

\* os.RemoveAll of the working directory, one entry at a time in any order.
RemoveRepoFile ==
    /\ pc = "delete"
    /\ repoFile[op.source] # Missing
    /\ repoFile' = [repoFile EXCEPT ![op.source] = Missing]
    /\ cut' = cut \ {op.source}
    /\ UNCHANGED <<sourceFile, extracted, known, lookUp, pc, op, refreshed,
                   untabled>>

RemoveModule(c, m) ==
    /\ pc = "delete"
    /\ m \in extracted[op.source][c]
    /\ extracted' = [extracted EXCEPT ![op.source][c] = @ \ {m}]
    /\ cut' = IF repoFile[op.source] = c THEN cut \cup {op.source} ELSE cut
    /\ UNCHANGED <<sourceFile, repoFile, known, lookUp, pc, op, refreshed,
                   untabled>>

RemoveSource ==
    /\ pc = "delete"
    /\ repoFile[op.source] = Missing
    /\ \A c \in Commit : extracted[op.source][c] = {}
    /\ sourceFile' = [sourceFile EXCEPT ![op.source] = Missing]
    /\ known' = [known EXCEPT ![op.source] = Missing]
    /\ pc' = "idle"
    /\ op' = NoOp
    /\ UNCHANGED <<repoFile, extracted, lookUp, refreshed, untabled, cut>>

DeleteFails ==
    /\ pc = "delete"
    /\ pc' = "idle"
    /\ op' = NoOp
    /\ UNCHANGED <<disk, known, lookUp, refreshed, untabled, cut>>

(***************************************************************************)
(* Refreshing repositories                                                 *)
(***************************************************************************)

RefreshRepositories(filter) ==
    /\ pc = "idle"
    /\ pc' = "next"
    /\ op' = [NoOp EXCEPT !.filter = filter, !.todo = Known]
    /\ refreshed' = NoCommit
    /\ UNCHANGED <<disk, known, lookUp, untabled, cut>>

\* The repositories come in any order.  A priority that another one has
\* taken is an error, and the repository is left out of the table.
SkipRepository(s) ==
    /\ pc = "next"
    /\ s \in op.todo
    /\ known[s] \in op.taken
    /\ op' = [op EXCEPT !.todo = @ \ {s}]
    /\ UNCHANGED <<disk, known, lookUp, pc, refreshed, untabled, cut>>

VisitRepository(s) ==
    /\ pc = "next"
    /\ s \in op.todo
    /\ known[s] \notin op.taken
    /\ op' = [op EXCEPT !.source = s, !.todo = @ \ {s},
                        !.listed = @ \cup {s}, !.taken = @ \cup {known[s]}]
    \* Repository.Refresh starts with the repo file and ends if it is damaged
    /\ pc' = IF s \in op.filter /\ repoFile[s] # Damaged
             THEN "fetch" ELSE "next"
    /\ UNCHANGED <<disk, known, lookUp, refreshed, untabled, cut>>

\* The last commit; if it is the one of the repo file, nothing is to do.
GetLastCommit(c) ==
    /\ pc = "fetch"
    /\ IF repoFile[op.source] = c
       THEN /\ refreshed' = [refreshed EXCEPT ![op.source] = c]
            /\ pc' = "next"
            /\ UNCHANGED op
       ELSE /\ op' = [op EXCEPT !.commit = c, !.old = repoFile[op.source]]
            /\ pc' = "extract"
            /\ UNCHANGED refreshed
    /\ UNCHANGED <<disk, known, lookUp, untabled, cut>>

ExtractModule(m) ==
    /\ pc = "extract"
    /\ m \in ModulesIn[op.commit] \ extracted[op.source][op.commit]
    /\ extracted' = [extracted EXCEPT ![op.source][op.commit] = @ \cup {m}]
    /\ UNCHANGED <<sourceFile, repoFile, known, lookUp, pc, op, refreshed,
                   untabled, cut>>

\* GitHub cannot be reached, the archive is broken, the job is cancelled:
\* what was extracted stays.
RefreshFails ==
    /\ pc \in {"fetch", "extract"}
    /\ pc' = "next"
    /\ UNCHANGED <<disk, known, lookUp, op, refreshed, untabled, cut>>

\* Faulty: the error of the extraction is ignored.
TruncateRepoFileUnchecked ==
    /\ pc = "extract"
    /\ repoFile' = [repoFile EXCEPT ![op.source] = Damaged]
    /\ pc' = "write"
    /\ UNCHANGED <<sourceFile, extracted, known, lookUp, op, refreshed,
                   untabled, cut>>

\* writeRepoFile copies the old file and truncates it.
TruncateRepoFile ==
    /\ pc = "extract"
    /\ ModulesIn[op.commit] \subseteq extracted[op.source][op.commit]
    /\ repoFile' = [repoFile EXCEPT ![op.source] = Damaged]
    /\ pc' = "write"
    /\ UNCHANGED <<sourceFile, extracted, known, lookUp, op, refreshed,
                   untabled, cut>>

WriteRepoFile ==
    /\ pc = "write"
    /\ repoFile' = [repoFile EXCEPT ![op.source] = op.commit]
    /\ refreshed' = [refreshed EXCEPT ![op.source] = op.commit]
    /\ cut' = cut \ {op.source}
    /\ pc' = "clean"
    /\ UNCHANGED <<sourceFile, extracted, known, lookUp, op, untabled>>

\* The copy, or the file before it was truncated, cannot be written.
CopyRepoFileFails ==
    /\ pc = "extract"
    /\ ModulesIn[op.commit] \subseteq extracted[op.source][op.commit]
    /\ pc' = "undo"
    /\ UNCHANGED <<disk, known, lookUp, op, refreshed, untabled, cut>>

\* The old file is restored from its copy, which may fail as well; without
\* an old file the truncated one stays.
WriteRepoFileFails ==
    /\ pc = "write"
    /\ \/ UNCHANGED repoFile
       \/ /\ op.old # Missing
          /\ repoFile' = [repoFile EXCEPT ![op.source] = op.old]
    /\ pc' = "undo"
    /\ UNCHANGED <<sourceFile, extracted, known, lookUp, op, refreshed,
                   untabled, cut>>

\* os.RemoveAll of one commit's directory: the new one after a failure, the
\* old one after a success.  It may fail anywhere.
RemoveCommit(c, m) ==
    /\ \/ pc = "undo" /\ c = op.commit
       \/ pc = "clean" /\ c = op.old
    /\ m \in extracted[op.source][c]
    /\ extracted' = [extracted EXCEPT ![op.source][c] = @ \ {m}]
    /\ UNCHANGED <<sourceFile, repoFile, known, lookUp, pc, op, refreshed,
                   untabled, cut>>

EndRepository ==
    /\ pc \in {"undo", "clean"}
    /\ pc' = "next"
    /\ UNCHANGED <<disk, known, lookUp, op, refreshed, untabled, cut>>

\* Faulty: what cannot be read keeps its old entries.
EndRefreshKeeping(unread) ==
    /\ pc = "next"
    /\ op.todo = {}
    /\ lookUp' = [s \in Source |->
                     IF s \in op.listed \ unread /\ repoFile[s] # Damaged
                     THEN FileSystemsMap(s) ELSE lookUp[s]]
    /\ refreshed' = [s \in Source |->
                        IF s \in unread THEN Missing ELSE refreshed[s]]
    /\ untabled' = {}
    /\ pc' = "idle"
    /\ op' = NoOp
    /\ UNCHANGED <<disk, known, cut>>

\* updateLookupMap.  What cannot be read makes the result an error.
EndRefresh(unread) ==
    /\ pc = "next"
    /\ op.todo = {}
    /\ lookUp' = LookUpMap(op.listed, unread)
    /\ refreshed' = [s \in Source |->
                        IF s \in unread THEN Missing ELSE refreshed[s]]
    /\ untabled' = {}
    /\ pc' = "idle"
    /\ op' = NoOp
    /\ UNCHANGED <<disk, known, cut>>

(***************************************************************************)
(* A crash in any step, and the start after it: the sources are read from  *)
(* their files, the table is built.  Init does not notice priorities that  *)
(* collide: it never records any.                                          *)
(***************************************************************************)
Restart(unread) ==
    /\ known' = [s \in Source |-> IF sourceFile[s] = Damaged THEN Missing
                                  ELSE sourceFile[s]]
    /\ lookUp' = LookUpMap({s \in Source : known'[s] # Missing}, unread)
    /\ pc' = "idle"
    /\ op' = NoOp
    /\ refreshed' = NoCommit
    /\ untabled' = {}
    /\ UNCHANGED <<disk, cut>>

CreateNext ==
    \/ \E s \in Source, p \in Priority : CreateRepository(s, p)
    \/ WriteSource
    \/ WriteSourceFails

DeleteNext ==
    \/ \E s \in Source : DeleteRepository(s)
    \/ RemoveRepoFile
    \/ \E c \in Commit, m \in Module : RemoveModule(c, m)
    \/ RemoveSource
    \/ DeleteFails

RefreshNext ==
    \/ \E filter \in SUBSET Source : RefreshRepositories(filter)
    \/ \E s \in Source : SkipRepository(s) \/ VisitRepository(s)
    \/ \E c \in Commit : GetLastCommit(c)
    \/ \E m \in Module : ExtractModule(m)
    \/ RefreshFails
    \/ TruncateRepoFile
    \/ WriteRepoFile
    \/ CopyRepoFileFails
    \/ WriteRepoFileFails
    \/ \E c \in Commit, m \in Module : RemoveCommit(c, m)
    \/ EndRepository
    \/ \E unread \in SUBSET Source : EndRefresh(unread)

Next ==
    \/ CreateNext
    \/ DeleteNext
    \/ RefreshNext
    \/ \E unread \in SUBSET Source : Restart(unread)

Spec == Init /\ [][Next]_vars

(***************************************************************************)
(* Properties                                                              *)
(***************************************************************************)

\* A source the handler knows is on the disk with the same priority, so that
\* a restart in any step finds every repository again.
KnownIsStored ==
    \A s \in Source : known[s] # Missing => sourceFile[s] = known[s]

\* The directory that a readable repo file names is complete, in every step
\* of a refresh and after any failure or crash.  Only a deletion that was
\* interrupted leaves a repo file that names less; the next refresh takes
\* that for current as long as the repository has no new commit.
CurrentIsWhole ==
    \A s \in Source \ cut : repoFile[s] \in Commit =>
        extracted[s][repoFile[s]] = ModulesIn[repoFile[s]]

\* A repository without an error in the results of a refresh is at the
\* commit that was fetched, and all its modules are in the table (with the
\* exception of CurrentIsWhole).
SuccessIsCurrent ==
    pc = "idle" =>
        \A s \in Source : refreshed[s] # Missing =>
            /\ repoFile[s] = refreshed[s]
            /\ s \notin cut =>
                  lookUp[s] = ModulesIn[refreshed[s]] \X {refreshed[s]}

\* What the table lists can be fetched, in the version that it lists, until
\* a deletion of its repository has begun.
ListedIsServed ==
    pc \in {"idle", "create"} =>
        \A s \in Source \ untabled : \A entry \in lookUp[s] :
            GetModuleFS(s, entry[1]) = entry[2]

=============================================================================
