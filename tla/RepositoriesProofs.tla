-------------------------- MODULE RepositoriesProofs --------------------------
(***************************************************************************)
(* Proofs about Repositories: whatever fails and wherever it crashes, the  *)
(* sources are stored, a readable repo file names a complete directory,    *)
(* and the look-up table lists what is there.                              *)
(***************************************************************************)
EXTENDS Repositories, TLAPS

\* Repository.Refresh of op.source has read the repo file.
Fetching == {"extract", "write", "undo", "clean"}

\* Only modules of a commit are below its directory.
ExtractedInv ==
    \A s \in Source, c \in Commit : extracted[s][c] \subseteq ModulesIn[c]

\* What the local variables mean at each step.
OpInv ==
    /\ pc \notin {"idle", "next"} => op.source \in Source
    /\ pc = "create" => op.priority \in Priority /\ known[op.source] = Missing
    /\ pc \in Fetching => op.commit \in Commit /\ op.commit # op.old
    /\ pc = "fetch" => repoFile[op.source] # Damaged
    /\ pc = "extract" => repoFile[op.source] = op.old
    /\ pc = "write" => repoFile[op.source] = Damaged
    /\ pc = "undo" => repoFile[op.source] # op.commit
    /\ pc = "clean" => repoFile[op.source] = op.commit
    /\ pc \notin {"idle", "create", "delete"} => op.listed \cup op.todo \subseteq Known

\* CurrentIsWhole, with the directory that a restored repo file would name.
WholeInv ==
    /\ CurrentIsWhole
    /\ pc = "write" =>
          /\ extracted[op.source][op.commit] = ModulesIn[op.commit]
          /\ op.old \in Commit /\ op.source \notin cut =>
                extracted[op.source][op.old] = ModulesIn[op.old]

\* SuccessIsCurrent, extended to the steps before the table is built.
RefreshedInv ==
    /\ pc \in {"create", "delete"} => refreshed = NoCommit
    /\ pc \notin {"idle", "create", "delete"} =>
          \A s \in Source : refreshed[s] # Missing =>
              /\ repoFile[s] = refreshed[s]
              /\ s \in op.listed \ op.todo
    /\ pc \in {"fetch", "extract", "write", "undo"} =>
          refreshed[op.source] = Missing
    /\ pc \in {"fetch"} \cup Fetching => op.source \in op.listed \ op.todo
    /\ SuccessIsCurrent

\* ListedIsServed, extended to a deletion.
LookUpInv ==
    /\ pc = "delete" => op.source \in untabled
    /\ pc \in {"idle", "create", "delete"} =>
          \A s \in Source \ untabled :
              /\ lookUp[s] \subseteq FileSystemsMap(s)
              /\ lookUp[s] # {} => known[s] # Missing

Inv == TypeOK /\ ExtractedInv /\ OpInv /\ KnownIsStored /\ WholeInv
       /\ RefreshedInv /\ LookUpInv

-----------------------------------------------------------------------------

LEMMA InitInv == Init => Inv
  BY RepositoriesAssumption
  DEF Init, Inv, TypeOK, ExtractedInv, OpInv, KnownIsStored, WholeInv,
      CurrentIsWhole, RefreshedInv, SuccessIsCurrent, LookUpInv, Fetching,
      Step, Op, NoOp, NoCommit, FileSystemsMap

\* The table lists modules and commits.
LEMMA LookUpType ==
    ASSUME TypeOK, NEW repos, NEW unread
    PROVE  LookUpMap(repos, unread) \in [Source -> SUBSET (Module \X Commit)]
  BY DEF TypeOK, LookUpMap, FileSystemsMap

\* The effect of writing one entry of a directory.
LEMMA ExtractedUpdate ==
    ASSUME TypeOK, NEW s \in Source, NEW c \in Commit, NEW M \in SUBSET Module,
           extracted' = [extracted EXCEPT ![s][c] = M]
    PROVE  /\ extracted' \in [Source -> [Commit -> SUBSET Module]]
           /\ extracted'[s][c] = M
           /\ \A t \in Source, d \in Commit :
                 t # s \/ d # c => extracted'[t][d] = extracted[t][d]
  BY DEF TypeOK

\* The fields of an operation.
LEMMA OpFields ==
    ASSUME op \in Op
    PROVE  /\ op.source \in Source \cup {Missing}
           /\ op.priority \in Priority \cup {Missing}
           /\ op.filter \subseteq Source
           /\ op.todo \subseteq Source
           /\ op.listed \subseteq Source
           /\ op.taken \subseteq Priority
           /\ op.commit \in Commit \cup {Missing}
           /\ op.old \in Commit \cup {Missing}
  BY DEF Op

\* Visiting a repository, and what its refresh reads, keep the type.
LEMMA OpUpdates ==
    ASSUME op \in Op
    PROVE  /\ \A todo \in SUBSET Source : [op EXCEPT !.todo = todo] \in Op
           /\ \A s \in Source, todo, listed \in SUBSET Source,
                taken \in SUBSET Priority :
                 [op EXCEPT !.source = s, !.todo = todo, !.listed = listed,
                            !.taken = taken] \in Op
           /\ \A c \in Commit, old \in Commit \cup {Missing} :
                 [op EXCEPT !.commit = c, !.old = old] \in Op
  BY DEF Op

LEMMA NextTypeOK ==
    ASSUME Inv, [Next]_vars
    PROVE  TypeOK'
<1> USE RepositoriesAssumption DEF Inv, TypeOK, Step, disk
<1>0. NoOp \in Op /\ NoCommit \in [Source -> Commit \cup {Missing}]
  BY DEF NoOp, Op, NoCommit
<1>1. ASSUME NEW s \in Source, NEW p \in Priority, CreateRepository(s, p)
      PROVE  TypeOK'
  <2>1. op' \in Op
    BY <1>1 DEF CreateRepository, NoOp, Op
  <2>2. QED
    BY <1>0, <1>1, <2>1 DEF CreateRepository
<1>2. CASE WriteSource
  BY <1>0, <1>2 DEF WriteSource, OpInv
<1>3. CASE WriteSourceFails \/ DeleteFails
  BY <1>0, <1>3 DEF WriteSourceFails, DeleteFails
<1>4. ASSUME NEW s \in Source, DeleteRepository(s)
      PROVE  TypeOK'
  <2>1. op' \in Op
    BY <1>4 DEF DeleteRepository, NoOp, Op
  <2>2. QED
    BY <1>0, <1>4, <2>1 DEF DeleteRepository
<1>5. CASE RemoveRepoFile
  BY <1>5 DEF RemoveRepoFile, OpInv
<1>6. ASSUME NEW c \in Commit, NEW m \in Module, RemoveModule(c, m)
      PROVE  TypeOK'
  <2>1. extracted' \in [Source -> [Commit -> SUBSET Module]]
    BY <1>6, ExtractedUpdate DEF RemoveModule, OpInv
  <2>2. cut' \subseteq Source
    BY <1>6 DEF RemoveModule, OpInv
  <2>3. QED
    BY <1>6, <2>1, <2>2 DEF RemoveModule
<1>7. CASE RemoveSource
  BY <1>0, <1>7 DEF RemoveSource, OpInv
<1>8. ASSUME NEW filter \in SUBSET Source, RefreshRepositories(filter)
      PROVE  TypeOK'
  <2>1. op' \in Op
    BY <1>8 DEF RefreshRepositories, NoOp, Op, Known
  <2>2. QED
    BY <1>0, <1>8, <2>1 DEF RefreshRepositories
<1>9. ASSUME NEW s \in Source, SkipRepository(s) \/ VisitRepository(s)
      PROVE  TypeOK'
  <2>0. known[s] \in Priority
    BY <1>9, OpFields DEF SkipRepository, VisitRepository, OpInv, Known
  <2>1. op' \in Op
    <3>1. CASE SkipRepository(s)
      BY <3>1, OpFields, OpUpdates DEF SkipRepository
    <3>2. CASE VisitRepository(s)
      <4>1. /\ op.todo \ {s} \in SUBSET Source
            /\ op.listed \cup {s} \in SUBSET Source
            /\ op.taken \cup {known[s]} \in SUBSET Priority
        BY <2>0, OpFields
      <4>2. QED
        BY <3>2, <4>1, OpUpdates DEF VisitRepository
    <3>3. QED
      BY <1>9, <3>1, <3>2
  <2>2. QED
    BY <1>9, <2>1 DEF SkipRepository, VisitRepository
<1>10. ASSUME NEW c \in Commit, GetLastCommit(c)
       PROVE  TypeOK'
  <2>1. op.source \in Source /\ repoFile[op.source] \in Commit \cup {Missing}
    BY <1>10 DEF GetLastCommit, OpInv
  <2>2. CASE repoFile[op.source] = c
    BY <1>10, <2>1, <2>2 DEF GetLastCommit
  <2>3. CASE repoFile[op.source] # c
    <3>1. op' = [op EXCEPT !.commit = c, !.old = repoFile[op.source]]
      BY <1>10, <2>3, Zenon DEF GetLastCommit
    <3>3. op' \in Op
      BY <2>1, <3>1, OpUpdates
    <3>2. QED
      BY <1>10, <2>3, <3>3 DEF GetLastCommit
  <2>4. QED
    BY <2>2, <2>3
<1>11. ASSUME NEW m \in Module, ExtractModule(m)
       PROVE  TypeOK'
  <2>1. extracted' \in [Source -> [Commit -> SUBSET Module]]
    <3>1. op.source \in Source /\ op.commit \in Commit
      BY <1>11 DEF ExtractModule, OpInv, Fetching
    <3>2. extracted[op.source][op.commit] \cup {m} \in SUBSET Module
      BY <3>1
    <3>3. extracted' = [extracted EXCEPT ![op.source][op.commit] =
                           extracted[op.source][op.commit] \cup {m}]
      BY <1>11 DEF ExtractModule
    <3>4. QED
      BY <3>1, <3>2, <3>3
  <2>2. QED
    BY <1>11, <2>1 DEF ExtractModule
<1>12. CASE RefreshFails \/ CopyRepoFileFails \/ EndRepository
  BY <1>12 DEF RefreshFails, CopyRepoFileFails, EndRepository
<1>13. CASE TruncateRepoFile \/ WriteRepoFile \/ WriteRepoFileFails
  <2>1. op.source \in Source /\ op.commit \in Commit
    BY <1>13 DEF TruncateRepoFile, WriteRepoFile, WriteRepoFileFails, OpInv, Fetching
  <2>2. op.old \in Commit \cup {Missing}
    BY OpFields
  <2>3. CASE TruncateRepoFile
    BY <2>1, <2>3 DEF TruncateRepoFile
  <2>4. CASE WriteRepoFile
    BY <2>1, <2>4 DEF WriteRepoFile
  <2>5. CASE WriteRepoFileFails
    <3>1. repoFile' \in [Source -> Commit \cup {Missing, Damaged}]
      BY <2>1, <2>2, <2>5 DEF WriteRepoFileFails
    <3>2. QED
      BY <2>5, <3>1 DEF WriteRepoFileFails
  <2>6. QED
    BY <1>13, <2>3, <2>4, <2>5
<1>14. ASSUME NEW c \in Commit, NEW m \in Module, RemoveCommit(c, m)
       PROVE  TypeOK'
  <2>1. extracted' \in [Source -> [Commit -> SUBSET Module]]
    BY <1>14, ExtractedUpdate DEF RemoveCommit, OpInv, Fetching
  <2>2. QED
    BY <1>14, <2>1 DEF RemoveCommit
<1>15. ASSUME NEW unread \in SUBSET Source, EndRefresh(unread)
       PROVE  TypeOK'
  BY <1>0, <1>15, LookUpType DEF EndRefresh
<1>16. ASSUME NEW unread \in SUBSET Source, Restart(unread)
       PROVE  TypeOK'
  <2>1. known' \in [Source -> Priority \cup {Missing}]
    BY <1>16 DEF Restart
  <2>2. QED
    BY <1>0, <1>16, <2>1, LookUpType DEF Restart
<1>17. CASE UNCHANGED vars
  BY <1>17 DEF vars
<1>18. QED
  BY <1>1, <1>2, <1>3, <1>4, <1>5, <1>6, <1>7, <1>8, <1>9, <1>10, <1>11, <1>12,
     <1>13, <1>14, <1>15, <1>16, <1>17
  DEF Next, CreateNext, DeleteNext, RefreshNext

\* What the steps that change op make of its fields.
LEMMA OpValues ==
    ASSUME TypeOK
    PROVE  /\ \A s \in Source, p \in Priority : CreateRepository(s, p) =>
                 op'.source = s /\ op'.priority = p
           /\ \A s \in Source : DeleteRepository(s) => op'.source = s
           /\ \A filter \in SUBSET Source : RefreshRepositories(filter) =>
                 op'.listed = {} /\ op'.todo = Known /\ op'.taken = {}
           /\ \A s \in Source : SkipRepository(s) =>
                 /\ op'.todo = op.todo \ {s}
                 /\ op'.listed = op.listed
           /\ \A s \in Source : VisitRepository(s) =>
                 /\ op'.source = s
                 /\ op'.todo = op.todo \ {s}
                 /\ op'.listed = op.listed \cup {s}
           /\ \A c \in Commit : GetLastCommit(c) /\ repoFile[op.source] # c =>
                 /\ op'.source = op.source
                 /\ op'.commit = c
                 /\ op'.old = repoFile[op.source]
                 /\ op'.listed = op.listed
                 /\ op'.todo = op.todo
  BY DEF TypeOK, Op, NoOp, CreateRepository, DeleteRepository,
     RefreshRepositories, SkipRepository, VisitRepository, GetLastCommit

LEMMA NextOpInv ==
    ASSUME Inv, [Next]_vars
    PROVE  OpInv'
<1> USE RepositoriesAssumption DEF Inv, TypeOK, Step, disk, OpInv, Fetching, Known
<1>1. ASSUME NEW s \in Source, NEW p \in Priority, CreateRepository(s, p)
      PROVE  OpInv'
  <2>1. op'.source = s /\ op'.priority = p
    BY <1>1, OpValues
  <2>2. pc' = "create" /\ known' = known /\ known[s] = Missing
    BY <1>1 DEF CreateRepository
  <2>3. QED
    BY <2>1, <2>2
<1>2. ASSUME pc' = "idle"
      PROVE  OpInv'
  BY <1>2
<1>3. ASSUME NEW s \in Source, DeleteRepository(s)
      PROVE  OpInv'
  BY <1>3, OpValues DEF DeleteRepository
<1>4. CASE RemoveRepoFile
  BY <1>4 DEF RemoveRepoFile
<1>5. ASSUME NEW c \in Commit, NEW m \in Module, RemoveModule(c, m)
      PROVE  OpInv'
  BY <1>5 DEF RemoveModule
<1>6. ASSUME NEW filter \in SUBSET Source, RefreshRepositories(filter)
      PROVE  OpInv'
  BY <1>6, OpValues DEF RefreshRepositories
<1>7. ASSUME NEW s \in Source, SkipRepository(s)
      PROVE  OpInv'
  BY <1>7, OpValues DEF SkipRepository
<1>8. ASSUME NEW s \in Source, VisitRepository(s)
      PROVE  OpInv'
  <2>1. /\ op'.source = s
        /\ op'.todo = op.todo \ {s}
        /\ op'.listed = op.listed \cup {s}
    BY <1>8, OpValues
  <2>2. /\ pc = "next" /\ s \in op.todo
        /\ UNCHANGED <<repoFile, known>>
        /\ pc' = "fetch" => repoFile[s] # Damaged
        /\ pc' \in {"next", "fetch"}
    BY <1>8 DEF VisitRepository
  <2>3. op'.listed \cup op'.todo \subseteq Known'
    <3>1. op.listed \cup op.todo \subseteq Known
      BY <2>2
    <3>2. Known' = Known
      BY <2>2
    <3>3. op'.listed \cup op'.todo \subseteq op.listed \cup op.todo
      BY <2>1, <2>2
    <3>4. QED
      BY <3>1, <3>2, <3>3
  <2>4. QED
    BY <2>1, <2>2, <2>3
<1>9. ASSUME NEW c \in Commit, GetLastCommit(c)
      PROVE  OpInv'
  <2>1. CASE repoFile[op.source] = c
    BY <1>9, <2>1 DEF GetLastCommit
  <2>2. CASE repoFile[op.source] # c
    <3>1. pc' = "extract" /\ UNCHANGED <<repoFile, known>> /\ pc = "fetch"
      BY <1>9, <2>2 DEF GetLastCommit
    <3>2. QED
      BY <1>9, <2>2, <3>1, OpValues
  <2>3. QED
    BY <2>1, <2>2
<1>10. ASSUME NEW m \in Module, ExtractModule(m)
       PROVE  OpInv'
  BY <1>10 DEF ExtractModule
<1>11. CASE RefreshFails \/ EndRepository
  BY <1>11 DEF RefreshFails, EndRepository
<1>12. CASE CopyRepoFileFails
  BY <1>12 DEF CopyRepoFileFails
<1>13. CASE TruncateRepoFile
  BY <1>13 DEF TruncateRepoFile
<1>14. CASE WriteRepoFile
  BY <1>14 DEF WriteRepoFile
<1>15. CASE WriteRepoFileFails
  BY <1>15 DEF WriteRepoFileFails
<1>16. ASSUME NEW c \in Commit, NEW m \in Module, RemoveCommit(c, m)
       PROVE  OpInv'
  BY <1>16 DEF RemoveCommit
<1>17. CASE UNCHANGED vars
  BY <1>17 DEF vars
<1>18. QED
  BY <1>1, <1>2, <1>3, <1>4, <1>5, <1>6, <1>7, <1>8, <1>9, <1>10, <1>11, <1>12,
     <1>13, <1>14, <1>15, <1>16, <1>17
  DEF Next, CreateNext, DeleteNext, RefreshNext, WriteSource, WriteSourceFails,
      RemoveSource, DeleteFails, EndRefresh, Restart

LEMMA NextStored ==
    ASSUME Inv, [Next]_vars
    PROVE  KnownIsStored' /\ ExtractedInv'
<1> USE RepositoriesAssumption DEF Inv, TypeOK, disk, KnownIsStored, ExtractedInv
<1>1. ASSUME NEW s \in Source, NEW p \in Priority, CreateRepository(s, p)
      PROVE  KnownIsStored' /\ ExtractedInv'
  BY <1>1 DEF CreateRepository
<1>2. CASE WriteSource
  BY <1>2 DEF WriteSource, OpInv
<1>3. CASE RemoveSource
  BY <1>3 DEF RemoveSource, OpInv
<1>4. ASSUME NEW c \in Commit, NEW m \in Module,
             RemoveModule(c, m) \/ RemoveCommit(c, m)
      PROVE  KnownIsStored' /\ ExtractedInv'
  <2>1. op.source \in Source
    BY <1>4 DEF RemoveModule, RemoveCommit, OpInv
  <2>2. \A s \in Source, d \in Commit : extracted'[s][d] \subseteq extracted[s][d]
    <3>1. extracted[op.source][c] \ {m} \in SUBSET Module
      BY <2>1
    <3>2. extracted' = [extracted EXCEPT ![op.source][c] =
                           extracted[op.source][c] \ {m}]
      BY <1>4 DEF RemoveModule, RemoveCommit
    <3>3. /\ extracted'[op.source][c] = extracted[op.source][c] \ {m}
          /\ \A s \in Source, d \in Commit :
               s # op.source \/ d # c => extracted'[s][d] = extracted[s][d]
      BY <2>1, <3>1, <3>2, ExtractedUpdate
    <3>4. QED
      BY <3>3
  <2>3. QED
    BY <1>4, <2>2 DEF RemoveModule, RemoveCommit
<1>5. ASSUME NEW m \in Module, ExtractModule(m)
      PROVE  KnownIsStored' /\ ExtractedInv'
  <2>1. op.source \in Source /\ op.commit \in Commit
    BY <1>5 DEF ExtractModule, OpInv, Fetching
  <2>2. \A s \in Source, d \in Commit :
           extracted'[s][d] \subseteq extracted[s][d]
               \cup IF s = op.source /\ d = op.commit THEN {m} ELSE {}
    BY <1>5, <2>1 DEF ExtractModule
  <2>3. QED
    BY <1>5, <2>1, <2>2 DEF ExtractModule
<1>6. ASSUME NEW unread \in SUBSET Source, Restart(unread)
      PROVE  KnownIsStored' /\ ExtractedInv'
  BY <1>6 DEF Restart
<1>7. ASSUME UNCHANGED <<sourceFile, known, extracted>>
      PROVE  KnownIsStored' /\ ExtractedInv'
  BY <1>7
<1>8. QED
  BY <1>1, <1>2, <1>3, <1>4, <1>5, <1>6, <1>7
  DEF Next, CreateNext, DeleteNext, RefreshNext, WriteSourceFails, DeleteFails,
      DeleteRepository, RemoveRepoFile, RefreshRepositories, SkipRepository,
      VisitRepository, GetLastCommit, RefreshFails, TruncateRepoFile,
      WriteRepoFile, CopyRepoFileFails, WriteRepoFileFails, EndRepository,
      EndRefresh, vars

\* A change of one directory; which ones stay as they are.
LEMMA ModuleChange ==
    ASSUME Inv, NEW c \in Commit, NEW m \in Module,
           op.source \in Source,
           \/ extracted' = [extracted EXCEPT ![op.source][c] = @ \ {m}]
           \/ extracted' = [extracted EXCEPT ![op.source][c] = @ \cup {m}]
    PROVE  \A s \in Source, d \in Commit :
              s # op.source \/ d # c => extracted'[s][d] = extracted[s][d]
<1>1. /\ extracted[op.source][c] \ {m} \in SUBSET Module
      /\ extracted[op.source][c] \cup {m} \in SUBSET Module
  BY DEF Inv, TypeOK
<1>2. TypeOK
  BY DEF Inv
<1>3. CASE extracted' = [extracted EXCEPT ![op.source][c] = @ \ {m}]
  BY <1>1, <1>2, <1>3, ExtractedUpdate
<1>4. CASE extracted' = [extracted EXCEPT ![op.source][c] = @ \cup {m}]
  BY <1>1, <1>2, <1>4, ExtractedUpdate
<1>5. QED
  BY <1>3, <1>4

LEMMA NextWhole ==
    ASSUME Inv, [Next]_vars
    PROVE  WholeInv'
<1> USE RepositoriesAssumption DEF Inv, disk, WholeInv, CurrentIsWhole
<1>0. /\ op \in Op /\ pc \in Step
      /\ repoFile \in [Source -> Commit \cup {Missing, Damaged}]
  BY DEF TypeOK
<1>1. ASSUME NEW c \in Commit, NEW m \in Module, RemoveModule(c, m)
      PROVE  WholeInv'
  <2>1. op.source \in Source
    BY <1>1 DEF RemoveModule, OpInv
  <2>2. \A s \in Source, d \in Commit :
          s # op.source \/ d # c => extracted'[s][d] = extracted[s][d]
    BY <1>1, <2>1, ModuleChange DEF RemoveModule
  <2>3. pc' = "delete" /\ UNCHANGED repoFile
    BY <1>1 DEF RemoveModule
  <2>4. cut \subseteq cut' /\ (repoFile[op.source] = c => op.source \in cut')
    BY <1>1 DEF RemoveModule
  <2>5. QED
    BY <2>1, <2>2, <2>3, <2>4
<1>2. CASE RemoveRepoFile
  <2>1. /\ op.source \in Source /\ pc' = "delete"
        /\ UNCHANGED extracted
        /\ repoFile' = [repoFile EXCEPT ![op.source] = Missing]
        /\ cut' = cut \ {op.source}
    BY <1>2 DEF RemoveRepoFile, OpInv
  <2>2. \A s \in Source : repoFile'[s] \in Commit =>
           s # op.source /\ repoFile'[s] = repoFile[s]
    BY <1>0, <2>1
  <2>3. QED
    BY <2>1, <2>2
<1>3. ASSUME NEW m \in Module, ExtractModule(m)
      PROVE  WholeInv'
  <2>1. op.source \in Source /\ op.commit \in Commit
    BY <1>3 DEF ExtractModule, OpInv, Fetching
  <2>2. \A s \in Source, d \in Commit :
          s # op.source \/ d # op.commit => extracted'[s][d] = extracted[s][d]
    BY <1>3, <2>1, ModuleChange DEF ExtractModule
  <2>3. repoFile[op.source] # op.commit
    BY <1>3 DEF ExtractModule, OpInv, Fetching
  <2>4. pc' = "extract" /\ UNCHANGED <<repoFile, cut>>
    BY <1>3 DEF ExtractModule
  <2>5. QED
    BY <2>1, <2>2, <2>3, <2>4
<1>4. ASSUME NEW c \in Commit, NEW m \in Module, RemoveCommit(c, m)
      PROVE  WholeInv'
  <2>1. op.source \in Source /\ pc' = pc /\ UNCHANGED <<repoFile, cut>>
    BY <1>4 DEF RemoveCommit, OpInv
  <2>2. \A s \in Source, d \in Commit :
          s # op.source \/ d # c => extracted'[s][d] = extracted[s][d]
    BY <1>4, <2>1, ModuleChange DEF RemoveCommit
  <2>3. pc' # "write" /\ repoFile[op.source] # c
    BY <1>4 DEF RemoveCommit, OpInv, Fetching
  <2>4. QED
    BY <2>1, <2>2, <2>3
<1>5. CASE TruncateRepoFile
  <2>1. /\ op.source \in Source /\ op.commit \in Commit
        /\ repoFile[op.source] = op.old
    BY <1>5 DEF TruncateRepoFile, OpInv, Fetching
  <2>2. extracted[op.source][op.commit] = ModulesIn[op.commit]
    BY <1>5, <2>1 DEF TruncateRepoFile, ExtractedInv
  <2>3. /\ repoFile' = [repoFile EXCEPT ![op.source] = Damaged]
        /\ UNCHANGED <<extracted, op, cut>>
    BY <1>5 DEF TruncateRepoFile
  <2>4. op.old \in Commit /\ op.source \notin cut =>
           extracted[op.source][op.old] = ModulesIn[op.old]
    BY <2>1
  <2>5. CurrentIsWhole'
    BY <1>0, <2>1, <2>3
  <2>6. QED
    BY <2>2, <2>3, <2>4, <2>5
<1>6. CASE WriteRepoFile
  <2>1. op.source \in Source /\ op.commit \in Commit
    BY <1>6 DEF WriteRepoFile, OpInv, Fetching
  <2>2. QED
    BY <1>0, <1>6, <2>1 DEF WriteRepoFile
<1>7. CASE WriteRepoFileFails
  <2>1. op.source \in Source
    BY <1>7 DEF WriteRepoFileFails, OpInv
  <2>2. QED
    BY <1>0, <1>7, <2>1 DEF WriteRepoFileFails
<1>8. ASSUME pc' # "write" \/ UNCHANGED <<pc, op>>,
             UNCHANGED <<repoFile, extracted, cut>>
      PROVE  WholeInv'
  BY <1>8
<1>9. QED
  BY <1>1, <1>2, <1>3, <1>4, <1>5, <1>6, <1>7, <1>8
  DEF Next, CreateNext, DeleteNext, RefreshNext, CreateRepository, WriteSource,
      WriteSourceFails, DeleteRepository, RemoveSource, DeleteFails,
      RefreshRepositories, SkipRepository, VisitRepository, GetLastCommit,
      RefreshFails, CopyRepoFileFails, EndRepository, EndRefresh, Restart, vars

LEMMA NextRefreshed ==
    ASSUME Inv, [Next]_vars
    PROVE  RefreshedInv'
<1> USE RepositoriesAssumption DEF Inv, disk, RefreshedInv, SuccessIsCurrent, Fetching
<1>0. /\ op \in Op /\ pc \in Step
      /\ repoFile \in [Source -> Commit \cup {Missing, Damaged}]
      /\ refreshed \in [Source -> Commit \cup {Missing}]
  BY DEF TypeOK
<1>1. ASSUME refreshed' = NoCommit, pc' \in {"create", "delete"}
      PROVE  RefreshedInv'
  BY <1>1
<1>2. CASE WriteSource \/ RemoveSource
  <2>1. refreshed' = NoCommit /\ pc' = "idle"
    BY <1>2 DEF WriteSource, RemoveSource
  <2>2. QED
    BY <2>1 DEF NoCommit
<1>3. CASE WriteSourceFails \/ DeleteFails
  <2>1. refreshed' = NoCommit /\ pc' = "idle"
    BY <1>3 DEF WriteSourceFails, DeleteFails
  <2>2. QED
    BY <2>1 DEF NoCommit
<1>4. CASE RemoveRepoFile
  BY <1>1, <1>4 DEF RemoveRepoFile
<1>5. ASSUME NEW c \in Commit, NEW m \in Module, RemoveModule(c, m)
      PROVE  RefreshedInv'
  BY <1>1, <1>5 DEF RemoveModule
<1>6. ASSUME NEW filter \in SUBSET Source, RefreshRepositories(filter)
      PROVE  RefreshedInv'
  <2>1. refreshed' = NoCommit /\ pc' = "next"
    BY <1>6 DEF RefreshRepositories
  <2>2. QED
    BY <2>1 DEF NoCommit
<1>7. ASSUME NEW s \in Source, SkipRepository(s)
      PROVE  RefreshedInv'
  <2>1. /\ op'.todo = op.todo \ {s} /\ op'.listed = op.listed
        /\ pc = "next" /\ pc' = "next" /\ UNCHANGED <<refreshed, repoFile>>
    BY <1>7, OpValues DEF TypeOK, SkipRepository
  <2>2. QED
    BY <2>1
<1>8. ASSUME NEW s \in Source, VisitRepository(s)
      PROVE  RefreshedInv'
  <2>1. /\ op'.source = s /\ op'.todo = op.todo \ {s}
        /\ op'.listed = op.listed \cup {s}
    BY <1>8, OpValues DEF TypeOK
  <2>2. /\ pc = "next" /\ s \in op.todo /\ UNCHANGED <<refreshed, repoFile>>
        /\ pc' \in {"next", "fetch"}
    BY <1>8 DEF VisitRepository
  <2>3. refreshed[s] = Missing
    BY <2>2
  <2>4. QED
    BY <2>1, <2>2, <2>3
<1>9. ASSUME NEW c \in Commit, GetLastCommit(c)
      PROVE  RefreshedInv'
  <2>1. /\ pc = "fetch" /\ op.source \in Source /\ UNCHANGED repoFile
    BY <1>9 DEF GetLastCommit, OpInv
  <2>2. CASE repoFile[op.source] = c
    <3>1. /\ refreshed' = [refreshed EXCEPT ![op.source] = c]
          /\ pc' = "next" /\ op' = op
      BY <1>9, <2>2 DEF GetLastCommit
    <3>2. QED
      BY <1>0, <2>1, <2>2, <3>1
  <2>3. CASE repoFile[op.source] # c
    <3>1. /\ op'.source = op.source /\ op'.listed = op.listed
          /\ op'.todo = op.todo
      BY <1>9, <2>3, OpValues DEF TypeOK
    <3>2. pc' = "extract" /\ UNCHANGED refreshed
      BY <1>9, <2>3 DEF GetLastCommit
    <3>3. QED
      BY <2>1, <3>1, <3>2
  <2>4. QED
    BY <2>2, <2>3
<1>10. CASE TruncateRepoFile
  <2>1. /\ pc = "extract" /\ pc' = "write" /\ op.source \in Source
        /\ UNCHANGED <<op, refreshed>>
        /\ repoFile' = [repoFile EXCEPT ![op.source] = Damaged]
    BY <1>10 DEF TruncateRepoFile, OpInv
  <2>2. QED
    BY <1>0, <2>1
<1>11. CASE WriteRepoFile
  <2>1. /\ pc = "write" /\ pc' = "clean" /\ op.source \in Source
        /\ op' = op
        /\ refreshed' = [refreshed EXCEPT ![op.source] = op.commit]
        /\ repoFile' = [repoFile EXCEPT ![op.source] = op.commit]
    BY <1>11 DEF WriteRepoFile, OpInv
  <2>2. QED
    BY <1>0, <2>1
<1>12. CASE WriteRepoFileFails
  <2>1. /\ pc = "write" /\ pc' = "undo" /\ op.source \in Source
        /\ UNCHANGED <<op, refreshed>>
        /\ \A s \in Source \ {op.source} : repoFile'[s] = repoFile[s]
    BY <1>0, <1>12 DEF WriteRepoFileFails, OpInv
  <2>2. QED
    BY <1>0, <2>1
<1>13. ASSUME pc \in {"fetch"} \cup Fetching, pc' \in {pc, "next", "undo"},
              pc' = "undo" => pc \in {"extract", "undo"},
              UNCHANGED <<op, refreshed, repoFile>>
       PROVE  RefreshedInv'
  BY <1>13
<1>14. ASSUME NEW unread \in SUBSET Source, EndRefresh(unread)
       PROVE  RefreshedInv'
  <2>1. /\ pc = "next" /\ pc' = "idle" /\ op.todo = {}
        /\ lookUp' = LookUpMap(op.listed, unread)
        /\ refreshed' = [s \in Source |->
                            IF s \in unread THEN Missing ELSE refreshed[s]]
        /\ UNCHANGED <<repoFile, extracted, cut>>
    BY <1>14 DEF EndRefresh
  <2>2. ASSUME NEW s \in Source, refreshed'[s] # Missing
        PROVE  /\ repoFile'[s] = refreshed'[s]
               /\ s \notin cut' =>
                    lookUp'[s] = ModulesIn[refreshed'[s]] \X {refreshed'[s]}
    <3>1. /\ s \notin unread /\ refreshed'[s] = refreshed[s]
          /\ repoFile[s] = refreshed[s] /\ s \in op.listed
      BY <2>1, <2>2
    <3>2. lookUp'[s] = FileSystemsMap(s)
      BY <2>1, <3>1 DEF LookUpMap
    <3>3. repoFile[s] \in Commit
      BY <1>0, <2>2, <3>1
    <3>4. QED
      BY <2>1, <3>1, <3>2, <3>3 DEF FileSystemsMap, WholeInv, CurrentIsWhole
  <2>3. QED
    BY <2>1, <2>2
<1>15. ASSUME NEW unread \in SUBSET Source, Restart(unread)
       PROVE  RefreshedInv'
  <2>1. refreshed' = NoCommit /\ pc' = "idle"
    BY <1>15 DEF Restart
  <2>2. QED
    BY <2>1 DEF NoCommit
<1>16. CASE UNCHANGED vars
  BY <1>16 DEF vars
<1>17. QED
  BY <1>1, <1>2, <1>3, <1>4, <1>5, <1>6, <1>7, <1>8, <1>9, <1>10, <1>11, <1>12,
     <1>13, <1>14, <1>15, <1>16
  DEF Next, CreateNext, DeleteNext, RefreshNext, CreateRepository,
      DeleteRepository, ExtractModule, RefreshFails, CopyRepoFileFails,
      RemoveCommit, EndRepository

LEMMA NextLookUp ==
    ASSUME Inv, [Next]_vars
    PROVE  LookUpInv'
<1> USE RepositoriesAssumption DEF Inv, disk, LookUpInv
<1>0. /\ op \in Op /\ pc \in Step
      /\ repoFile \in [Source -> Commit \cup {Missing, Damaged}]
      /\ known \in [Source -> Priority \cup {Missing}]
  BY DEF TypeOK
<1>1. ASSUME NEW s \in Source, NEW p \in Priority, CreateRepository(s, p)
      PROVE  LookUpInv'
  BY <1>1 DEF CreateRepository, FileSystemsMap
<1>2. CASE WriteSource
  <2>1. /\ op.source \in Source /\ op.priority \in Priority
        /\ pc = "create" /\ pc' = "idle"
        /\ known' = [known EXCEPT ![op.source] = op.priority]
        /\ UNCHANGED <<repoFile, extracted, lookUp, untabled>>
    BY <1>2 DEF WriteSource, OpInv
  <2>2. \A s \in Source : known[s] # Missing => known'[s] # Missing
    BY <1>0, <2>1
  <2>3. QED
    BY <2>1, <2>2 DEF FileSystemsMap
<1>3. CASE WriteSourceFails \/ DeleteFails
  BY <1>3 DEF WriteSourceFails, DeleteFails, FileSystemsMap
<1>4. ASSUME NEW s \in Source, DeleteRepository(s)
      PROVE  LookUpInv'
  BY <1>4, OpValues DEF TypeOK, DeleteRepository, FileSystemsMap
<1>5. CASE RemoveRepoFile \/ RemoveSource
  <2>1. op.source \in untabled /\ op.source \in Source
    BY <1>5 DEF RemoveRepoFile, RemoveSource, OpInv
  <2>2. /\ pc = "delete" /\ pc' \in {"delete", "idle"}
        /\ pc' = "delete" => op' = op
        /\ UNCHANGED <<extracted, lookUp, untabled>>
    BY <1>5 DEF RemoveRepoFile, RemoveSource
  <2>3. \A s \in Source \ untabled :
           repoFile'[s] = repoFile[s] /\ known'[s] = known[s]
    BY <1>0, <1>5, <2>1 DEF RemoveRepoFile, RemoveSource
  <2>4. QED
    BY <2>1, <2>2, <2>3 DEF FileSystemsMap
<1>6. ASSUME NEW c \in Commit, NEW m \in Module, RemoveModule(c, m)
      PROVE  LookUpInv'
  <2>1. /\ op.source \in Source /\ op.source \in untabled
        /\ pc' = "delete" /\ pc = "delete"
        /\ UNCHANGED <<repoFile, known, lookUp, untabled, op>>
    BY <1>6 DEF RemoveModule, OpInv
  <2>2. \A s \in Source, d \in Commit :
          s # op.source \/ d # c => extracted'[s][d] = extracted[s][d]
    BY <1>6, <2>1, ModuleChange DEF RemoveModule
  <2>3. QED
    BY <2>1, <2>2 DEF FileSystemsMap
<1>7. ASSUME pc' \notin {"idle", "create", "delete"}
      PROVE  LookUpInv'
  BY <1>7
<1>8. ASSUME NEW unread \in SUBSET Source, EndRefresh(unread)
      PROVE  LookUpInv'
  <2>1. op.listed \subseteq Known
    BY <1>8 DEF EndRefresh, OpInv
  <2>2. QED
    BY <1>8, <2>1 DEF EndRefresh, LookUpMap, FileSystemsMap, Known
<1>9. ASSUME NEW unread \in SUBSET Source, Restart(unread)
      PROVE  LookUpInv'
  BY <1>9 DEF Restart, LookUpMap, FileSystemsMap
<1>10. CASE UNCHANGED vars
  BY <1>10 DEF vars, FileSystemsMap
<1>11. QED
  BY <1>0, <1>1, <1>2, <1>3, <1>4, <1>5, <1>6, <1>7, <1>8, <1>9, <1>10
  DEF Next, CreateNext, DeleteNext, RefreshNext, RefreshRepositories,
      SkipRepository, VisitRepository, GetLastCommit, ExtractModule,
      RefreshFails, TruncateRepoFile, WriteRepoFile, CopyRepoFileFails,
      WriteRepoFileFails, RemoveCommit, EndRepository

-----------------------------------------------------------------------------

LEMMA Invariant == Spec => []Inv
<1>1. Inv /\ [Next]_vars => Inv'
  BY NextTypeOK, NextOpInv, NextStored, NextWhole, NextRefreshed, NextLookUp
  DEF Inv
<1>2. QED
  BY <1>1, InitInv, PTL DEF Spec

\* Every variable has its type in every reachable state.
THEOREM TypeCorrect == Spec => []TypeOK
<1>1. Inv => TypeOK
  BY DEF Inv
<1>2. QED
  BY <1>1, Invariant, PTL

\* A restart finds every repository that the handler knew.
THEOREM KnownStored == Spec => []KnownIsStored
<1>1. Inv => KnownIsStored
  BY DEF Inv
<1>2. QED
  BY <1>1, Invariant, PTL

\* The directory of the current commit is complete, but for an interrupted
\* deletion.
THEOREM CurrentWhole == Spec => []CurrentIsWhole
<1>1. Inv => CurrentIsWhole
  BY DEF Inv, WholeInv
<1>2. QED
  BY <1>1, Invariant, PTL

\* A refresh that reports no error for a repository has its last commit.
THEOREM SuccessCurrent == Spec => []SuccessIsCurrent
<1>1. Inv => SuccessIsCurrent
  BY DEF Inv, RefreshedInv
<1>2. QED
  BY <1>1, Invariant, PTL

\* What is listed can be fetched, until a deletion begins.
THEOREM ListedServed == Spec => []ListedIsServed
<1>1. ASSUME Inv, pc \in {"idle", "create"},
             NEW s \in Source \ untabled, NEW entry \in lookUp[s]
      PROVE  GetModuleFS(s, entry[1]) = entry[2]
  <2>1. entry \in FileSystemsMap(s) /\ known[s] # Missing
    BY <1>1 DEF Inv, LookUpInv
  <2>2. /\ repoFile[s] \in Commit
        /\ entry \in extracted[s][repoFile[s]] \X {repoFile[s]}
    BY <2>1 DEF FileSystemsMap
  <2>3. /\ entry[1] \in extracted[s][repoFile[s]] /\ entry[2] = repoFile[s]
        /\ entry = <<entry[1], entry[2]>>
    BY <2>2
  <2>4. QED
    BY <1>1, <2>1, <2>2, <2>3 DEF GetModuleFS
<1>2. Inv => ListedIsServed
  BY <1>1 DEF ListedIsServed
<1>3. QED
  BY <1>2, Invariant, PTL

=============================================================================
