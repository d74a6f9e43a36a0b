------------------------------ MODULE TaskStore ------------------------------
(***************************************************************************)
(* The tasks of one workspace on disk and the endpoints that change them   *)
(* (server/endpoint/task_*.c, persistence of WorkspaceConfig, TaskState):  *)
(*                                                                         *)
(*   workspaces/<w>/workspace.wmwscfg     nextTaskId            (config)   *)
(*   workspaces/<w>/tasks/<id>/           a directory per task  (dirs)     *)
(*       task.sh, task.wmtsk                             (script, state)   *)
(*                                                                         *)
(* A request is a series of system calls, any of which may fail and between *)
(* any two of which the server may die. Client commands read the config    *)
(* too, on their own, while the server rewrites it: the file is truncated  *)
(* when it is opened, and only then locked.                                *)
(***************************************************************************)
EXTENDS Integers

CONSTANTS
    MaxTasks,    \* bound: task ids are 0 .. MaxTasks - 1
    MaxFaults,   \* bound: system calls that fail
    MaxCrashes,  \* bound: deaths of the server
    MaxReads     \* bound: client commands that read the config

ASSUME BoundsAssumption == 
    MaxTasks \in Nat /\ MaxFaults \in Nat /\ MaxCrashes \in Nat /\ MaxReads \in Nat

VARIABLES
    config,      \* nextTaskId in the config file, or Blank, or Half written
    dirs,        \* the ids whose directory exists
    script,      \* per id: its task.sh
    state,       \* per id: its task.wmtsk
    pc,          \* the next system call of the server
    task,        \* the id the request is about, or NoTask
    serverLock,  \* the server holds the exclusive flock on the config
    reader,      \* where a client command is in WorkspaceConfig_Read
    readerSaw    \* what it read last

VARIABLES
    faults, crashes, reads,   \* budgets used
    acked,       \* history: ids TaskNew has answered OK for
    deleted,     \* history: ids TaskDelete has answered OK for since
    cutShort,    \* history: ids whose TaskNew or TaskDelete did not get to its end
    configHit    \* history: a rewrite of the config was cut short or failed

fileVars == <<config, dirs, script, state>>
readerVars == <<reader, readerSaw, reads>>
historyVars == <<acked, deleted, cutShort, configHit>>
vars == <<fileVars, pc, task, serverLock, readerVars, faults, crashes, historyVars>>

Ids    == 0 .. (MaxTasks - 1)
NoTask == -1
Blank  == -1
Half   == -2
Mixed  == -3   \* what a read returns that saw two versions of the config
File   == {"absent", "empty", "full"}

ConfigSteps == {"lock_config", "write_config", "write_rest"}
NewSteps    == {"mkdir", "open_sh", "write_sh", "create_state", "write_state", "trunc_config"}
               \cup ConfigSteps

TypeOK ==
    /\ config \in {Half, Blank} \cup (0 .. MaxTasks)
    /\ dirs \in SUBSET Ids
    /\ script \in [Ids -> File] /\ state \in [Ids -> File]
    /\ \A id \in Ids \ dirs : script[id] = "absent" /\ state[id] = "absent"
    /\ pc \in {"idle", "rm"} \cup NewSteps
    /\ task \in Ids \cup {NoTask} /\ (task = NoTask <=> pc = "idle")
    /\ serverLock \in BOOLEAN /\ configHit \in BOOLEAN
    /\ reader \in {"idle", "lock", "read", "read_rest", "close"}
    /\ readerSaw \in {Mixed, Half, Blank} \cup (0 .. MaxTasks)
    /\ faults \in 0 .. MaxFaults /\ crashes \in 0 .. MaxCrashes /\ reads \in 0 .. MaxReads
    /\ acked \in SUBSET Ids /\ deleted \in SUBSET Ids /\ cutShort \in SUBSET Ids

\* A workspace as WorkspaceInit leaves it.
Init ==
    /\ config = 0
    /\ dirs = {}
    /\ script = [id \in Ids |-> "absent"] /\ state = [id \in Ids |-> "absent"]
    /\ pc = "idle" /\ task = NoTask /\ serverLock = FALSE
    /\ reader = "idle" /\ readerSaw = 0
    /\ faults = 0 /\ crashes = 0 /\ reads = 0
    /\ acked = {} /\ deleted = {} /\ cutShort = {} /\ configHit = FALSE

-----------------------------------------------------------------------------
Attempt(ok) ==
    /\ ok \/ faults < MaxFaults
    /\ faults' = IF ok THEN faults ELSE faults + 1

Goto(step) == pc' = step /\ UNCHANGED task
Respond == pc' = "idle" /\ task' = NoTask
Fail == Respond /\ cutShort' = cutShort \cup {task}

\* TaskState_Read of a task succeeds and its script exists (TaskGet, TaskList).
Whole(id) == state[id] = "full" /\ script[id] # "absent"

\* The answer of TaskList: every id below nextTaskId that TaskGet finds too.
Listed == {id \in Ids : id < config /\ Whole(id)}

-----------------------------------------------------------------------------
\* Endpoint_TaskNew.

\* Mutant: the id is the lowest that is free.
LowestFree == CHOOSE id \in 0 .. MaxTasks : id \notin dirs /\ 0 .. (id - 1) \subseteq dirs

NextTaskId == config

\* A config that cannot be read refuses the request with nothing changed.
NewRequest ==
    /\ pc = "idle"
    /\ config >= 0 /\ NextTaskId < MaxTasks
    /\ pc' = "mkdir" /\ task' = NextTaskId
    /\ UNCHANGED <<fileVars, serverLock, readerVars, faults, crashes, historyVars>>

NewRefused ==
    /\ pc = "idle"
    /\ config < 0
    /\ UNCHANGED vars

\* mkdir -p of tasks/<id>: a directory that exists is an error.
NewMkdir ==
    /\ pc = "mkdir"
    /\ \E ok \in BOOLEAN :
         /\ Attempt(ok)
         /\ IF ok /\ task \notin dirs
            THEN dirs' = dirs \cup {task} /\ Goto("open_sh") /\ UNCHANGED cutShort
            ELSE Fail /\ UNCHANGED dirs
    /\ UNCHANGED <<config, script, state, serverLock, readerVars, crashes>>
    /\ UNCHANGED <<acked, deleted, configHit>>

NewOpenScript ==
    /\ pc = "open_sh"
    /\ \E ok \in BOOLEAN :
         /\ Attempt(ok)
         /\ IF ok
            THEN /\ script' = [script EXCEPT ![task] = "empty"]
                 /\ Goto("write_sh") /\ UNCHANGED cutShort
            ELSE Fail /\ UNCHANGED script
    /\ UNCHANGED <<config, dirs, state, serverLock, readerVars, crashes>>
    /\ UNCHANGED <<acked, deleted, configHit>>

\* The result of this write is ignored.
NewWriteScript ==
    /\ pc = "write_sh"
    /\ \E ok \in BOOLEAN :
         /\ Attempt(ok)
         /\ script' = [script EXCEPT ![task] = IF ok THEN "full" ELSE @]
    /\ Goto("create_state")
    /\ UNCHANGED <<config, dirs, state, serverLock, readerVars, crashes, historyVars>>

NewCreateState ==
    /\ pc = "create_state"
    /\ \E ok \in BOOLEAN :
         /\ Attempt(ok)
         /\ IF ok
            THEN /\ state' = [state EXCEPT ![task] = "empty"]
                 /\ Goto("write_state") /\ UNCHANGED cutShort
            ELSE Fail /\ UNCHANGED state
    /\ UNCHANGED <<config, dirs, script, serverLock, readerVars, crashes>>
    /\ UNCHANGED <<acked, deleted, configHit>>

\* TaskState_Write: a failed open is an error, a failed write is not.
NewWriteState ==
    /\ pc = "write_state"
    /\ \/ \E ok \in BOOLEAN :
            /\ Attempt(ok)
            /\ state' = [state EXCEPT ![task] = IF ok THEN "full" ELSE @]
            /\ Goto("trunc_config") /\ UNCHANGED cutShort
       \/ Attempt(FALSE) /\ Fail /\ UNCHANGED state
    /\ UNCHANGED <<config, dirs, script, serverLock, readerVars, crashes>>
    /\ UNCHANGED <<acked, deleted, configHit>>

\* WorkspaceConfig_Write: open with O_TRUNC, then flock, then write.
NewTruncateConfig ==
    /\ pc = "trunc_config"
    /\ \E ok \in BOOLEAN :
         /\ Attempt(ok)
         /\ IF ok THEN config' = Blank /\ Goto("lock_config") /\ UNCHANGED cutShort
            ELSE Fail /\ UNCHANGED config
    /\ UNCHANGED <<dirs, script, state, serverLock, readerVars, crashes>>
    /\ UNCHANGED <<acked, deleted, configHit>>

\* Mutant: the writer does not wait for readers.
NoWait == TRUE

\* A client command holds the shared lock from its flock to its close.
NotShared == reader \notin {"read", "read_rest", "close"}

\* flock(LOCK_EX) waits for readers; interrupted by a signal it fails, unnoticed.
NewLockConfig ==
    /\ pc = "lock_config"
    /\ \/ NotShared /\ serverLock' = TRUE /\ UNCHANGED faults
       \/ Attempt(FALSE) /\ UNCHANGED serverLock
    /\ Goto("write_config")
    /\ UNCHANGED <<fileVars, readerVars, crashes, historyVars>>

\* The write, in two parts for the sake of readers.
NewWriteConfig ==
    /\ pc = "write_config"
    /\ config' = Half
    /\ Goto("write_rest")
    /\ UNCHANGED <<dirs, script, state, serverLock, readerVars, faults, crashes, historyVars>>

\* Mutant: the id in use is stored as the next one.
StoredTaskId == task

StoredNextId == task + 1

\* Its result is ignored; close() releases the lock and TaskNew answers OK.
NewWriteRest ==
    /\ pc = "write_rest"
    /\ \E ok \in BOOLEAN :
         /\ Attempt(ok)
         /\ config' = IF ok THEN StoredNextId ELSE config
         /\ configHit' = (configHit \/ ~ok)
    /\ serverLock' = FALSE
    /\ acked' = acked \cup {task} /\ deleted' = deleted \ {task}
    /\ Respond
    /\ UNCHANGED <<dirs, script, state, readerVars, crashes, cutShort>>

-----------------------------------------------------------------------------
\* Endpoint_TaskDelete: the directory is all it looks at.

DeleteRequest(id) ==
    /\ pc = "idle"
    /\ id \in dirs
    /\ pc' = "rm" /\ task' = id
    /\ UNCHANGED <<fileVars, serverLock, readerVars, faults, crashes, historyVars>>

DeleteRefused(id) ==
    /\ pc = "idle"
    /\ id \notin dirs
    /\ UNCHANGED vars

\* FS_RemoveDirectoryRecursive: files in any order, then the directory.
DeleteFile ==
    /\ pc = "rm"
    /\ \/ /\ script[task] # "absent"
          /\ script' = [script EXCEPT ![task] = "absent"] /\ UNCHANGED state
       \/ /\ state[task] # "absent"
          /\ state' = [state EXCEPT ![task] = "absent"] /\ UNCHANGED script
    /\ UNCHANGED <<config, dirs, pc, task, serverLock, readerVars, faults, crashes, historyVars>>

\* Mutant: the directory goes with whatever is still in it.
DeleteDirAnyway ==
    /\ pc = "rm"
    /\ dirs' = dirs \ {task}
    /\ deleted' = deleted \cup {task}
    /\ Respond
    /\ UNCHANGED <<config, script, state, serverLock, readerVars, faults, crashes>>
    /\ UNCHANGED <<acked, cutShort, configHit>>

DeleteDir ==
    /\ pc = "rm"
    /\ script[task] = "absent" /\ state[task] = "absent"
    /\ dirs' = dirs \ {task}
    /\ deleted' = deleted \cup {task}
    /\ Respond
    /\ UNCHANGED <<config, script, state, serverLock, readerVars, faults, crashes>>
    /\ UNCHANGED <<acked, cutShort, configHit>>

DeleteFails ==
    /\ pc = "rm"
    /\ Attempt(FALSE)
    /\ Fail
    /\ UNCHANGED <<fileVars, serverLock, readerVars, crashes, acked, deleted, configHit>>

-----------------------------------------------------------------------------
\* A client command reads the config (WorkspaceConfig_Read).

ReaderOpen ==
    /\ reader = "idle"
    /\ reads < MaxReads /\ reads' = reads + 1
    /\ reader' = "lock"
    /\ UNCHANGED <<fileVars, pc, task, serverLock, readerSaw, faults, crashes, historyVars>>

ReaderLock ==
    /\ reader = "lock"
    /\ ~serverLock
    /\ reader' = "read"
    /\ UNCHANGED <<fileVars, pc, task, serverLock, readerSaw, reads, faults, crashes, historyVars>>

ReaderRead ==
    /\ reader = "read"
    /\ readerSaw' = config
    /\ reader' = "read_rest"
    /\ UNCHANGED <<fileVars, pc, task, serverLock, reads, faults, crashes, historyVars>>

\* DataStream_Read goes on to the end of the file: two whole versions make one
\* that parses, anything else is PERSISTENCE_STATUS_WRONG_FORMAT.
ReaderReadRest ==
    /\ reader = "read_rest"
    /\ readerSaw' = IF config = readerSaw THEN config
                    ELSE IF config >= 0 /\ readerSaw >= 0 THEN Mixed ELSE Half
    /\ reader' = "close"
    /\ UNCHANGED <<fileVars, pc, task, serverLock, reads, faults, crashes, historyVars>>

\* Mutant: an early return leaves the descriptor, and its lock, open.
ReaderKeepsOpen ==
    /\ reader = "close" /\ readerSaw >= 0
    /\ reader' = "idle"
    /\ UNCHANGED <<fileVars, pc, task, serverLock, readerSaw, reads, faults, crashes, historyVars>>

ReaderClose ==
    /\ reader = "close"
    /\ reader' = "idle"
    /\ UNCHANGED <<fileVars, pc, task, serverLock, readerSaw, reads, faults, crashes, historyVars>>

-----------------------------------------------------------------------------
\* The server dies and is started again; its locks are gone, the files stay.
Crash ==
    /\ crashes < MaxCrashes
    /\ crashes' = crashes + 1
    /\ pc' = "idle" /\ task' = NoTask /\ serverLock' = FALSE
    /\ cutShort' = cutShort \cup ({task} \cap Ids)
    /\ configHit' = (configHit \/ pc \in ConfigSteps)
    /\ UNCHANGED <<fileVars, readerVars, faults, acked, deleted>>

TaskNewStep ==
    \/ NewMkdir \/ NewOpenScript \/ NewWriteScript \/ NewCreateState \/ NewWriteState
    \/ NewTruncateConfig \/ NewLockConfig \/ NewWriteConfig \/ NewWriteRest

TaskDeleteStep == DeleteFile \/ DeleteDir \/ DeleteFails

Reader == ReaderLock \/ ReaderRead \/ ReaderReadRest \/ ReaderClose

Request ==
    \/ NewRequest \/ NewRefused
    \/ \E id \in Ids : DeleteRequest(id) \/ DeleteRefused(id)

Next == Request \/ TaskNewStep \/ TaskDeleteStep \/ ReaderOpen \/ Reader \/ Crash

Spec == Init /\ [][Next]_vars

\* The server is scheduled, and a client command that holds the lock goes on.
\* Clients come and go: only so many of them get ahead of a waiting server.
FairSpec ==
    /\ Spec
    /\ WF_vars(TaskNewStep \/ TaskDeleteStep)
    /\ WF_vars(ReaderRead \/ ReaderReadRest \/ ReaderClose)

-----------------------------------------------------------------------------
\* The config never goes back: TaskNew answers OK for no id twice, whatever tasks
\* are deleted, wherever the server dies and whichever call fails in between.
TaskIdsNeverReused ==
    [][pc = "write_rest" /\ pc' = "idle" /\ crashes' = crashes => task \notin acked]_vars

\* Every acknowledged task is listed until its deletion begins, with its files
\* whole, as long as no call failed and no rewrite of the config was cut short.
AckedIsListed ==
    faults = 0 /\ ~configHit /\ pc \notin ConfigSteps =>
        \A id \in acked \ (deleted \cup cutShort \cup {task}) : id \in Listed /\ script[id] = "full"

\* What TaskList shows was acknowledged and not deleted since: the remains of a
\* TaskNew that was cut short stay hidden behind nextTaskId, and no later TaskNew
\* works in a directory that is counted already.
ListedIsAcked ==
    pc \notin ConfigSteps => Listed \subseteq acked \ deleted

\* TaskNew is blocked by a directory in its way only if an earlier request on
\* that very id was cut short (it is unblocked by deleting that id).
BlockedByRemainsOnly ==
    pc = "idle" /\ config \in dirs => config \in cutShort

\* A client command that reads the config while the server rewrites it gets one
\* version or an error, never the beginning of one with the end of another,
\* although the file is truncated before it is locked.
NeverMixed ==
    faults = 0 => readerSaw # Mixed

\* A TaskNew or TaskDelete that has begun ends, although its flock waits for
\* client commands that read the config.
RequestsEnd == pc # "idle" ~> pc = "idle"
=============================================================================
