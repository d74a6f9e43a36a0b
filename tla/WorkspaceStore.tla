--------------------------- MODULE WorkspaceStore ---------------------------
(***************************************************************************)
(* The workspace registry the server keeps on disk, and the handlers that  *)
(* change it: server/context.c, server/endpoint/workspace_{init,delete,    *)
(* list}.c, task_new.c, which rewrites the config of its workspace, and    *)
(* the files they reach through utils/filesystem.c.                        *)
(*                                                                         *)
(*   <wdir>/next_workspace_id           the id counter (counterFile)       *)
(*   <wdir>/workspaces/<id>/            one directory per id (wsDirs)      *)
(*       workspace.wmwscfg -> <project>/.wetman/workspace.wmwscfg  (link)  *)
(*       tasks/                                         (tasksDirs)        *)
(*   <project>/.wetman/workspace.wmwscfg  the config (dotWetman[project])  *)
(*                                                                         *)
(* The server is one thread and runs a handler to completion, but a        *)
(* handler is many system calls: one action per call that changes a file.  *)
(* The process may die between any two of them (files survive, memory does *)
(* not), a call may fail, and the user may remove a project's .wetman.     *)
(***************************************************************************)
EXTENDS Integers

CONSTANTS
    Projects,     \* project directories a client may run in
    NoProject,    \* no project: a missing symlink, no request in progress
    MaxId,        \* bound: workspace ids are 0 .. MaxId - 1
    MaxFaults,    \* bound: system calls that fail
    MaxCrashes,   \* bound: process deaths
    MaxRemovals   \* bound: removals of a .wetman directory by the user

ASSUME ConstantsAssumption ==
    /\ NoProject \notin Projects
    /\ MaxId \in Nat /\ MaxFaults \in Nat
    /\ MaxCrashes \in Nat /\ MaxRemovals \in Nat

VARIABLES
    counterFile,  \* next_workspace_id: Missing, Empty or the number stored
    dotWetman,    \* per project: Absent, DirOnly, Blank or the id in its config
    wsDirs,       \* the ids whose directory workspaces/<id> exists
    link,         \* per id: the project its symlink leads to, or NoProject
    tasksDirs,    \* the ids whose directory workspaces/<id>/tasks exists
    nextId,       \* globalServerContext.nextWorkspaceId
    pc,           \* the next system call of the server
    curProject,   \* project of the request in progress
    curId         \* workspace id of the request in progress

\* What the environment did, for the bounds and the properties.
VARIABLES
    faults, crashes, removals,  \* budgets used
    issued,   \* ids NextWorkspaceId ever returned
    unsaved,  \* the last id was returned without reaching the counter file
    lapsed,   \* a restart lost an unsaved id, or could not read the counter
    torn,     \* ids whose handler was cut short, or whose config was taken away
    live,     \* <<project, id>> acknowledged by init and not given up since
    deleted,  \* ids whose deletion was acknowledged
    configHit \* ids in the configs that a crash cut in the middle of a rewrite

wsVars      == <<wsDirs, link, tasksDirs>>
diskVars    == <<counterFile, dotWetman, wsVars>>
requestVars == <<pc, curProject, curId>>
historyVars == <<issued, unsaved, lapsed, torn, live, deleted, configHit>>
vars == <<diskVars, nextId, requestVars, faults, crashes, removals, historyVars>>

Ids == 0 .. (MaxId - 1)
NoId == -1

\* counterFile
Missing == -2
Empty   == -1

\* dotWetman[p]: no directory, a directory without config, an empty config
Absent  == -3
DirOnly == -2
Blank   == -1

BootSteps   == {"down", "boot_write", "boot_read"}
InitSteps   == {"ws_dir", "unlink", "symlink", "tasks_dir", "write_config"}
DeleteSteps == {"rm_config", "rm_dotwetman", "rm_ws"}
TaskSteps   == {"task_files", "rewrite_config"}
Steps == BootSteps \cup {"idle", "create_config", "issue"}
         \cup InitSteps \cup DeleteSteps \cup TaskSteps

DiskOK ==
    /\ counterFile \in {Missing, Empty} \cup (0 .. MaxId)
    /\ dotWetman \in [Projects -> {Absent, DirOnly, Blank} \cup Ids]
    /\ wsDirs \in SUBSET Ids /\ tasksDirs \in SUBSET Ids
    /\ link \in [Ids -> Projects \cup {NoProject}]

HistoryOK ==
    /\ faults \in 0 .. MaxFaults /\ crashes \in 0 .. MaxCrashes /\ removals \in 0 .. MaxRemovals
    /\ issued \in SUBSET Ids /\ torn \in SUBSET Ids /\ deleted \in SUBSET Ids
    /\ configHit \in SUBSET Ids
    /\ live \in SUBSET (Projects \X Ids)
    /\ unsaved \in BOOLEAN /\ lapsed \in BOOLEAN

TypeOK ==
    /\ DiskOK
    /\ nextId \in 0 .. MaxId
    /\ pc \in Steps
    /\ curProject \in Projects \cup {NoProject}
    /\ curId \in Ids \cup {NoId}
    /\ HistoryOK

\* A handler past its checks has a project, past NextWorkspaceId (and in a
\* delete and a TaskNew) an id; before it there is an id left.
RequestOK ==
    /\ pc \in {"create_config", "issue"} => curProject \in Projects /\ nextId < MaxId
    /\ pc \in InitSteps \cup DeleteSteps \cup TaskSteps => curProject \in Projects /\ curId \in Ids

Init ==
    /\ counterFile = Missing
    /\ dotWetman = [p \in Projects |-> Absent]
    /\ wsDirs = {} /\ tasksDirs = {}
    /\ link = [id \in Ids |-> NoProject]
    /\ nextId = 0
    /\ pc = "down" /\ curProject = NoProject /\ curId = NoId
    /\ faults = 0 /\ crashes = 0 /\ removals = 0
    /\ issued = {} /\ torn = {} /\ deleted = {} /\ live = {} /\ configHit = {}
    /\ unsaved = FALSE /\ lapsed = FALSE

-----------------------------------------------------------------------------
\* A system call succeeds, or fails while the fault budget lasts.
Attempt(ok) ==
    /\ ok \/ faults < MaxFaults
    /\ faults' = IF ok THEN faults ELSE faults + 1

Goto(step) == pc' = step /\ UNCHANGED <<curProject, curId>>

\* The handler returns and its response is queued.
Respond == pc' = "idle" /\ curProject' = NoProject /\ curId' = NoId

\* The id whose workspace a handler leaves in the middle of making, or removing.
Torn == IF pc \in InitSteps \cup DeleteSteps THEN {curId} ELSE {}

\* The handler gives up half way with RETURN_CODE_INTERNAL_ENDPOINT_ERROR.
Fail ==
    /\ Respond
    /\ torn' = torn \cup Torn

\* WorkspaceConfig_Read through the symlink of a workspace succeeds.
Readable(id) ==
    /\ id \in wsDirs
    /\ link[id] # NoProject
    /\ dotWetman[link[id]] \in Ids

LinkedTo(p) == {id \in Ids : link[id] = p}

-----------------------------------------------------------------------------
\* Start of the server: ServerContext_Init and InitNextWorkspaceId.

\* Mutant: the counter file is created anew at every start.
NeverExists == FALSE

CounterExists == counterFile # Missing

BootCreate ==
    /\ pc = "down"
    /\ nextId' = 0
    /\ \/ /\ CounterExists
          /\ Goto("boot_read") /\ UNCHANGED <<counterFile, faults>>
       \/ /\ ~CounterExists
          /\ \E ok \in BOOLEAN :
               /\ Attempt(ok)
               /\ counterFile' = IF ok THEN Empty ELSE counterFile
               /\ Goto(IF ok THEN "boot_write" ELSE "boot_read")
    /\ UNCHANGED <<dotWetman, wsVars, crashes, removals, historyVars>>

BootWrite ==
    /\ pc = "boot_write"
    /\ \E ok \in BOOLEAN :
         /\ Attempt(ok)
         /\ counterFile' = IF ok THEN 0 ELSE counterFile
    /\ Goto("boot_read")
    /\ UNCHANGED <<dotWetman, wsVars, nextId, crashes, removals, historyVars>>

\* Mutant: the length of what was read is not checked.
CounterReadUnchecked(ok) == IF ok THEN counterFile ELSE nextId

\* A counter that cannot be opened, or is shorter than 8 bytes, leaves 0.
CounterRead(ok) == IF ok /\ counterFile >= 0 THEN counterFile ELSE nextId

BootRead ==
    /\ pc = "boot_read"
    /\ \E ok \in BOOLEAN :
         /\ Attempt(ok)
         /\ nextId' = CounterRead(ok)
         /\ lapsed' = (lapsed \/ ~ok)
    /\ Goto("idle")
    /\ UNCHANGED <<diskVars, crashes, removals, issued, unsaved, torn, live, deleted, configHit>>

-----------------------------------------------------------------------------
\* Endpoint_WorkspaceInit for project p. A project that already has a .wetman,
\* and a mkdir that fails, are refused with nothing changed.

InitRequest(p) ==
    /\ pc = "idle"
    /\ nextId < MaxId
    /\ dotWetman[p] = Absent
    /\ dotWetman' = [dotWetman EXCEPT ![p] = DirOnly]
    /\ pc' = "create_config" /\ curProject' = p /\ curId' = NoId
    /\ UNCHANGED <<counterFile, wsVars, nextId, faults, crashes, removals, historyVars>>

InitRefused(p) ==
    /\ pc = "idle"
    /\ dotWetman[p] # Absent
    /\ UNCHANGED vars

InitCreateConfig ==
    /\ pc = "create_config"
    /\ \E ok \in BOOLEAN :
         /\ Attempt(ok)
         /\ IF ok /\ dotWetman[curProject] = DirOnly
            THEN /\ dotWetman' = [dotWetman EXCEPT ![curProject] = Blank]
                 /\ Goto("issue") /\ UNCHANGED torn
            ELSE Fail /\ UNCHANGED dotWetman
    /\ UNCHANGED <<counterFile, wsVars, nextId, crashes, removals>>
    /\ UNCHANGED <<issued, unsaved, lapsed, live, deleted, configHit>>

\* Mutants: the lowest id without a directory is reused; the id itself is stored.
LowestFreeId == CHOOSE id \in Ids : id \notin wsDirs /\ 0 .. (id - 1) \subseteq wsDirs
StaleNextValue == nextId

\* What NextWorkspaceId returns, and what it writes to the counter file.
FreshId == nextId
NextValue == FreshId + 1

\* NextWorkspaceId: memory moves on even when the file cannot be opened
\* (it is never created here) or written.
NextWorkspaceId ==
    /\ pc = "issue"
    /\ curId' = FreshId
    /\ nextId' = nextId + 1
    /\ issued' = issued \cup {FreshId}
    /\ \E ok \in BOOLEAN :
         /\ Attempt(ok)
         /\ LET saved == ok /\ counterFile # Missing IN
              /\ counterFile' = IF saved THEN NextValue ELSE counterFile
              /\ unsaved' = ~saved
    /\ pc' = "ws_dir" /\ UNCHANGED curProject
    /\ UNCHANGED <<dotWetman, wsVars, crashes, removals, lapsed, torn, live, deleted, configHit>>

\* The result of this mkdir -p is ignored: an existing directory is adopted.
InitWsDir ==
    /\ pc = "ws_dir"
    /\ \E ok \in BOOLEAN :
         /\ Attempt(ok)
         /\ wsDirs' = IF ok THEN wsDirs \cup {curId} ELSE wsDirs
    /\ Goto("unlink")
    /\ UNCHANGED <<counterFile, dotWetman, link, tasksDirs, nextId, crashes, removals, historyVars>>

\* FS_CreateSymlink first unlinks whatever link was there; both results are ignored.
InitUnlink ==
    /\ pc = "unlink"
    /\ \E ok \in BOOLEAN :
         /\ Attempt(ok)
         /\ link' = IF ok THEN [link EXCEPT ![curId] = NoProject] ELSE link
    /\ Goto("symlink")
    /\ UNCHANGED <<counterFile, dotWetman, wsDirs, tasksDirs, nextId, crashes, removals, historyVars>>

\* symlink() makes no link in a directory that is missing, or over another link.
LinkMade == curId \in wsDirs /\ link[curId] = NoProject

InitSymlink ==
    /\ pc = "symlink"
    /\ \E ok \in BOOLEAN :
         /\ Attempt(ok)
         /\ link' = IF ok /\ LinkMade THEN [link EXCEPT ![curId] = curProject] ELSE link
    /\ Goto("tasks_dir")
    /\ UNCHANGED <<counterFile, dotWetman, wsDirs, tasksDirs, nextId, crashes, removals, historyVars>>

\* mkdir -p creates the workspace directory too; an existing tasks dir is an error.
InitTasksDir ==
    /\ pc = "tasks_dir"
    /\ \E ok \in BOOLEAN :
         /\ Attempt(ok)
         /\ IF ok /\ curId \notin tasksDirs
            THEN /\ wsDirs' = wsDirs \cup {curId}
                 /\ tasksDirs' = tasksDirs \cup {curId}
                 /\ Goto("write_config") /\ UNCHANGED torn
            ELSE Fail /\ UNCHANGED <<wsDirs, tasksDirs>>
    /\ UNCHANGED <<counterFile, dotWetman, link, nextId, crashes, removals>>
    /\ UNCHANGED <<issued, unsaved, lapsed, live, deleted, configHit>>

\* There is a config to open, and to truncate.
HasConfig == dotWetman[curProject] \notin {Absent, DirOnly}

\* WorkspaceConfig_Write ignores the result of the write, so a failed one is
\* acknowledged like a good one; only a config that cannot be opened is an error.
\* It truncates a config that is Blank already.
InitWriteConfig ==
    /\ pc = "write_config"
    /\ \/ /\ HasConfig
          /\ \E ok \in BOOLEAN :
               /\ Attempt(ok)
               /\ dotWetman' = [dotWetman EXCEPT ![curProject] = IF ok THEN curId ELSE Blank]
          /\ live' = live \cup {<<curProject, curId>>}
          /\ Respond /\ UNCHANGED torn
       \/ /\ Attempt(~HasConfig)
          /\ Fail /\ UNCHANGED <<dotWetman, live>>
    /\ UNCHANGED <<counterFile, wsVars, nextId, crashes, removals>>
    /\ UNCHANGED <<issued, unsaved, lapsed, deleted, configHit>>

-----------------------------------------------------------------------------
\* Endpoint_WorkspaceDelete for a workspace id: the .wetman of the project the
\* config names goes first, then workspaces/<id>.

DeleteRequest(id) ==
    /\ pc = "idle"
    /\ Readable(id)
    /\ LET victim == link[id] IN
         /\ pc' = "rm_config" /\ curProject' = victim /\ curId' = id
         /\ live' = {w \in live : w[1] # victim /\ w[2] # id}
         /\ torn' = torn \cup (LinkedTo(victim) \ {id})
    /\ UNCHANGED <<diskVars, nextId, faults, crashes, removals>>
    /\ UNCHANGED <<issued, unsaved, lapsed, deleted, configHit>>

DeleteRefused(id) ==
    /\ pc = "idle"
    /\ ~Readable(id)
    /\ UNCHANGED vars

\* FS_RemoveDirectoryRecursive(<project>/.wetman): a directory that is not there
\* counts as removed; the file goes before its directory.
DeleteConfig ==
    /\ pc = "rm_config"
    /\ \E ok \in BOOLEAN :
         /\ Attempt(ok)
         /\ \/ /\ ok /\ dotWetman[curProject] = Absent
               /\ Goto("rm_ws") /\ UNCHANGED <<dotWetman, torn>>
            \/ /\ ok /\ dotWetman[curProject] # Absent
               /\ dotWetman' = [dotWetman EXCEPT ![curProject] = DirOnly]
               /\ Goto("rm_dotwetman") /\ UNCHANGED torn
            \/ ~ok /\ Fail /\ UNCHANGED dotWetman
    /\ UNCHANGED <<counterFile, wsVars, nextId, crashes, removals>>
    /\ UNCHANGED <<issued, unsaved, lapsed, live, deleted, configHit>>

\* Mutant: the deletion is acknowledged with workspaces/<id> still there.
DeleteDotWetmanOnly ==
    /\ pc = "rm_dotwetman"
    /\ dotWetman' = [dotWetman EXCEPT ![curProject] = Absent]
    /\ Respond
    /\ UNCHANGED <<counterFile, wsVars, nextId, faults, crashes, removals, historyVars>>

\* Mutant: the result of removing .wetman is ignored.
DeleteDotWetmanUnchecked ==
    /\ pc = "rm_dotwetman"
    /\ \E ok \in BOOLEAN :
         /\ Attempt(ok)
         /\ dotWetman' = IF ok THEN [dotWetman EXCEPT ![curProject] = Absent] ELSE dotWetman
    /\ Goto("rm_ws")
    /\ UNCHANGED <<counterFile, wsVars, nextId, crashes, removals, historyVars>>

DeleteDotWetman ==
    /\ pc = "rm_dotwetman"
    /\ \E ok \in BOOLEAN :
         /\ Attempt(ok)
         /\ IF ok /\ dotWetman[curProject] = DirOnly
            THEN /\ dotWetman' = [dotWetman EXCEPT ![curProject] = Absent]
                 /\ Goto("rm_ws") /\ UNCHANGED torn
            ELSE Fail /\ UNCHANGED dotWetman
    /\ UNCHANGED <<counterFile, wsVars, nextId, crashes, removals>>
    /\ UNCHANGED <<issued, unsaved, lapsed, live, deleted, configHit>>

\* Entries of workspaces/<id> go in the order readdir returns them.
DeleteWsEntry ==
    /\ pc = "rm_ws"
    /\ \/ /\ link[curId] # NoProject
          /\ link' = [link EXCEPT ![curId] = NoProject]
          /\ UNCHANGED tasksDirs
       \/ /\ curId \in tasksDirs
          /\ tasksDirs' = tasksDirs \ {curId}
          /\ UNCHANGED link
    /\ Goto("rm_ws")
    /\ UNCHANGED <<counterFile, dotWetman, wsDirs, nextId, faults, crashes, removals, historyVars>>

DeleteWsDir ==
    /\ pc = "rm_ws"
    /\ link[curId] = NoProject /\ curId \notin tasksDirs
    /\ wsDirs' = wsDirs \ {curId}
    /\ deleted' = deleted \cup {curId}
    /\ Respond
    /\ UNCHANGED <<counterFile, dotWetman, link, tasksDirs, nextId, faults, crashes, removals>>
    /\ UNCHANGED <<issued, unsaved, lapsed, torn, live, configHit>>

\* An unlink or rmdir below workspaces/<id> fails.
DeleteWsFails ==
    /\ pc = "rm_ws"
    /\ Attempt(FALSE)
    /\ Fail
    /\ UNCHANGED <<diskVars, nextId, crashes, removals, issued, unsaved, lapsed, live, deleted, configHit>>

\* Endpoint_WorkspaceList: the ids it scans, and the id each readable config names.
Scanned == {id \in 0 .. (nextId - 1) : Readable(id)}
Listed(id) == dotWetman[link[id]]

-----------------------------------------------------------------------------
\* Endpoint_TaskNew, as far as it concerns the registry: it reads the config
\* behind the link of a workspace, makes what is missing of
\* workspaces/<id>/tasks/<task>, and writes the config back with the next task
\* id. Until then it holds the id that it read (curId), not the one requested.

TaskNewRequest(id) ==
    /\ pc = "idle"
    /\ Readable(id)
    /\ \/ /\ tasksDirs' = tasksDirs \cup {id}
          /\ pc' = "task_files" /\ curProject' = link[id] /\ curId' = Listed(id)
          /\ UNCHANGED faults
       \/ Attempt(FALSE) /\ UNCHANGED <<tasksDirs, requestVars>>
    /\ UNCHANGED <<counterFile, dotWetman, wsDirs, link, nextId, crashes, removals, historyVars>>

TaskNewRefused(id) ==
    /\ pc = "idle"
    /\ ~Readable(id)
    /\ UNCHANGED vars

\* The directory of the task is in the way, its script or its record cannot be
\* written, or the config cannot be opened again.
TaskNewFails ==
    /\ pc = "task_files"
    /\ Respond
    /\ UNCHANGED <<diskVars, nextId, faults, crashes, removals, historyVars>>

\* WorkspaceConfig_Write truncates the config, then writes it; a part of one
\* cannot be read either, so Blank stands for it.
TaskNewOpenConfig ==
    /\ pc = "task_files"
    /\ HasConfig
    /\ dotWetman' = [dotWetman EXCEPT ![curProject] = Blank]
    /\ Goto("rewrite_config")
    /\ UNCHANGED <<counterFile, wsVars, nextId, faults, crashes, removals, historyVars>>

\* A write to a config that was removed meanwhile goes nowhere.
TaskNewWriteConfig ==
    /\ pc = "rewrite_config"
    /\ \E ok \in BOOLEAN :
         /\ Attempt(ok)
         /\ dotWetman' = IF ok /\ HasConfig THEN [dotWetman EXCEPT ![curProject] = curId] ELSE dotWetman
    /\ Respond
    /\ UNCHANGED <<counterFile, wsVars, nextId, crashes, removals, historyVars>>

-----------------------------------------------------------------------------
\* The process dies or exits; a handler in progress is cut short.
Crash ==
    /\ pc # "down"
    /\ crashes < MaxCrashes
    /\ crashes' = crashes + 1
    /\ pc' = "down" /\ curProject' = NoProject /\ curId' = NoId
    /\ nextId' = 0
    /\ lapsed' = (lapsed \/ unsaved)
    /\ unsaved' = FALSE
    /\ torn' = torn \cup Torn
    /\ configHit' = configHit \cup (IF pc = "rewrite_config" THEN {curId} ELSE {})
    /\ UNCHANGED <<diskVars, faults, removals, issued, live, deleted>>

\* The user removes the .wetman of a project behind the server's back.
UserRemovesDotWetman(p) ==
    /\ removals < MaxRemovals
    /\ removals' = removals + 1
    /\ dotWetman[p] # Absent
    /\ dotWetman' = [dotWetman EXCEPT ![p] = Absent]
    /\ torn' = torn \cup LinkedTo(p)
    /\ live' = {w \in live : w[1] # p}
    /\ UNCHANGED <<counterFile, wsVars, nextId, requestVars, faults, crashes>>
    /\ UNCHANGED <<issued, unsaved, lapsed, deleted, configHit>>

Boot == BootCreate \/ BootWrite \/ BootRead

WorkspaceInit ==
    \/ \E p \in Projects : InitRequest(p) \/ InitRefused(p)
    \/ InitCreateConfig \/ NextWorkspaceId
    \/ InitWsDir \/ InitUnlink \/ InitSymlink \/ InitTasksDir \/ InitWriteConfig

WorkspaceDelete ==
    \/ \E id \in Ids : DeleteRequest(id) \/ DeleteRefused(id)
    \/ DeleteConfig \/ DeleteDotWetman
    \/ DeleteWsEntry \/ DeleteWsDir \/ DeleteWsFails

TaskNew ==
    \/ \E id \in Ids : TaskNewRequest(id) \/ TaskNewRefused(id)
    \/ TaskNewFails \/ TaskNewOpenConfig \/ TaskNewWriteConfig

Environment == Crash \/ \E p \in Projects : UserRemovesDotWetman(p)

Next == Boot \/ WorkspaceInit \/ WorkspaceDelete \/ TaskNew \/ Environment

Spec == Init /\ [][Next]_vars

-----------------------------------------------------------------------------
\* The inductive invariant behind the three properties that follow. Unless a
\* restart lost a counter value, the counter is above every id ever issued: the
\* one in memory while the server serves, the one on disk whenever the last
\* write reached it, which it did if the server is down or starting. Only
\* issued ids have directories, and deleted ones have none and are not at work.
CounterAhead ==
    /\ pc \notin BootSteps => \A id \in issued : id < nextId
    /\ ~unsaved => \A id \in issued : id < counterFile
    /\ pc \in BootSteps => ~unsaved
DirsIssued ==
    /\ wsDirs \subseteq issued
    /\ deleted \subseteq issued \ wsDirs
    /\ pc \in InitSteps \cup DeleteSteps => curId \in issued
    /\ pc \in InitSteps => curId \notin deleted
CounterInv ==
    /\ pc = "boot_write" => counterFile = Empty
    /\ ~lapsed => CounterAhead /\ DirsIssued

\* A workspace id is never handed out twice, across any number of crashes
\* and failed calls, unless a restart lost a counter write that had failed or
\* the counter could not be read (context.c keeps the file best effort).
IdsNeverReused ==
    [][pc = "issue" /\ pc' = "ws_dir" => lapsed \/ curId' \notin issued]_vars

\* WorkspaceList scans 0 .. nextWorkspaceId - 1: whenever the server serves, no
\* directory below workspaces/ lies outside that range, also after restarts.
AllDirsVisible ==
    pc \notin BootSteps /\ ~lapsed => \A id \in wsDirs : id < nextId

\* Once WorkspaceDelete has answered OK for an id, its directory never comes
\* back, whatever is initialised, interrupted and restarted afterwards.
DeletedStaysDeleted ==
    ~lapsed => deleted \cap wsDirs = {}

\* Requests for an id reach the config of another workspace only when a handler
\* working on that id was interrupted or its config was taken from under it: not
\* even an id that a restart forgot and handed out again leads to an alias.
AliasNeedsInterruption ==
    \A id \in Ids : Readable(id) /\ Listed(id) # id => id \in torn

\* TaskNew has truncated the config of the workspace with this id, and not yet
\* written it again.
Rewriting(id) == pc = "rewrite_config" /\ curId = id

\* As long as no system call failed, a workspace acknowledged by WorkspaceInit
\* keeps its directories, the link to its own project and its own id in the
\* config, through crashes and all requests, its own TaskNews included: the
\* config is unreadable only while a TaskNew rewrites it, and after a crash that
\* cut such a rewrite.
AckedSurvives ==
    faults = 0 => \A w \in live :
        /\ dotWetman[w[1]] = w[2] \/ (dotWetman[w[1]] = Blank /\ (Rewriting(w[2]) \/ w[2] \in configHit))
        /\ link[w[2]] = w[1]
        /\ w[2] \in wsDirs \cap tasksDirs

\* Violated. ut_workspace_init.c reads the config back after RETURN_CODE_OK and
\* expects it to be valid; WorkspaceConfig_Write ignores a failed write.
AckedConfigIsReadable ==
    \A w \in live : dotWetman[w[1]] \in Ids

\* Violated. ut_workspace_list.c expects one entry per workspace; a symlink left
\* by an interrupted delete makes a re-initialised project appear twice.
ListedOnce ==
    pc = "idle" /\ ~lapsed => \A i, j \in Scanned : Listed(i) = Listed(j) => i = j
=============================================================================
