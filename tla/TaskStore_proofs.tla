--------------------------- MODULE TaskStore_proofs ---------------------------
(***************************************************************************)
(* Proofs about TaskStore, for every number of tasks, faults, crashes and  *)
(* readers: type correctness, and all that its run checks but liveness.    *)
(***************************************************************************)
EXTENDS TaskStore, TLAPS

USE DEF NoTask, Blank, Half, Mixed

\* Behind TypeOK: once its directory is made, TaskNew works in a directory
\* that exists, so that no file is ever without one.
TypeInv ==
    /\ TypeOK
    /\ pc \in NewSteps \ {"mkdir"} => task \in dirs

FilesOK ==
    /\ config \in {Half, Blank} \cup (0 .. MaxTasks)
    /\ dirs \in SUBSET Ids
    /\ script \in [Ids -> File] /\ state \in [Ids -> File]
    /\ \A id \in Ids \ dirs : script[id] = "absent" /\ state[id] = "absent"
RequestOK ==
    /\ pc \in {"idle", "rm"} \cup NewSteps
    /\ task \in Ids \cup {NoTask} /\ (task = NoTask <=> pc = "idle")
    /\ pc \in NewSteps \ {"mkdir"} => task \in dirs
    /\ reader \in {"idle", "lock", "read", "read_rest", "close"}
    /\ readerSaw \in {Mixed, Half, Blank} \cup (0 .. MaxTasks)
FlagsOK == serverLock \in BOOLEAN /\ configHit \in BOOLEAN
BudgetOK ==
    faults \in 0 .. MaxFaults /\ crashes \in 0 .. MaxCrashes /\ reads \in 0 .. MaxReads
HistoryOK ==
    acked \in SUBSET Ids /\ deleted \in SUBSET Ids /\ cutShort \in SUBSET Ids

LEMMA InitTypeInv == Init => TypeInv
<1> SUFFICES ASSUME Init
             PROVE  TypeInv
  OBVIOUS
<1> USE BoundsAssumption DEF Init, Ids, File, NewSteps, ConfigSteps
<1>1. FilesOK
  BY DEF FilesOK
<1>2. RequestOK
  BY DEF RequestOK
<1>3. FlagsOK
  BY DEF FlagsOK
<1>4. BudgetOK
  BY DEF BudgetOK
<1>5. HistoryOK
  BY DEF HistoryOK
<1>. QED
  BY <1>1, <1>2, <1>3, <1>4, <1>5 DEF TypeInv, TypeOK, FilesOK, RequestOK, FlagsOK, BudgetOK, HistoryOK

LEMMA TypeInvStep == TypeInv /\ [Next]_vars => TypeInv'
<1> SUFFICES ASSUME TypeInv, [Next]_vars
             PROVE  TypeInv'
  OBVIOUS
<1> USE BoundsAssumption DEF TypeInv, TypeOK, Ids, File, NewSteps, ConfigSteps
<1>1. CASE NewRequest
  BY <1>1 DEF NewRequest, NextTaskId, Goto, Respond, Fail, Attempt, fileVars, readerVars, historyVars
<1>2. CASE NewMkdir
  <2>1. FilesOK'
    <3>1. UNCHANGED <<config, script, state>> /\ task \in Ids /\ dirs' \in {dirs, dirs \cup {task}}
      BY <1>2 DEF NewMkdir
    <3>. QED
      BY <3>1 DEF FilesOK
  <2>2. RequestOK'
    BY <1>2 DEF NewMkdir, RequestOK, Goto, Respond, Fail, Attempt, fileVars, readerVars, historyVars
  <2>3. FlagsOK'
    BY <1>2 DEF NewMkdir, FlagsOK, Goto, Respond, Fail, Attempt, fileVars, readerVars, historyVars
  <2>4. BudgetOK'
    BY <1>2 DEF NewMkdir, BudgetOK, Goto, Respond, Fail, Attempt, fileVars, readerVars, historyVars
  <2>5. HistoryOK'
    BY <1>2 DEF NewMkdir, HistoryOK, Goto, Respond, Fail, Attempt, fileVars, readerVars, historyVars
  <2>. QED
    BY <2>1, <2>2, <2>3, <2>4, <2>5 DEF FilesOK, RequestOK, FlagsOK, BudgetOK, HistoryOK
<1>3. CASE NewOpenScript
  <2>1. FilesOK'
    BY <1>3 DEF NewOpenScript, FilesOK, Goto, Respond, Fail, Attempt, fileVars, readerVars, historyVars
  <2>2. RequestOK'
    BY <1>3 DEF NewOpenScript, RequestOK, Goto, Respond, Fail, Attempt, fileVars, readerVars, historyVars
  <2>3. FlagsOK'
    BY <1>3 DEF NewOpenScript, FlagsOK, Goto, Respond, Fail, Attempt, fileVars, readerVars, historyVars
  <2>4. BudgetOK'
    BY <1>3 DEF NewOpenScript, BudgetOK, Goto, Respond, Fail, Attempt, fileVars, readerVars, historyVars
  <2>5. HistoryOK'
    BY <1>3 DEF NewOpenScript, HistoryOK, Goto, Respond, Fail, Attempt, fileVars, readerVars, historyVars
  <2>. QED
    BY <2>1, <2>2, <2>3, <2>4, <2>5 DEF FilesOK, RequestOK, FlagsOK, BudgetOK, HistoryOK
<1>4. CASE NewWriteScript
  BY <1>4 DEF NewWriteScript, Goto, Respond, Fail, Attempt, fileVars, readerVars, historyVars
<1>5. CASE NewCreateState
  <2>1. FilesOK'
    BY <1>5 DEF NewCreateState, FilesOK, Goto, Respond, Fail, Attempt, fileVars, readerVars, historyVars
  <2>2. RequestOK'
    BY <1>5 DEF NewCreateState, RequestOK, Goto, Respond, Fail, Attempt, fileVars, readerVars, historyVars
  <2>3. FlagsOK'
    BY <1>5 DEF NewCreateState, FlagsOK, Goto, Respond, Fail, Attempt, fileVars, readerVars, historyVars
  <2>4. BudgetOK'
    BY <1>5 DEF NewCreateState, BudgetOK, Goto, Respond, Fail, Attempt, fileVars, readerVars, historyVars
  <2>5. HistoryOK'
    BY <1>5 DEF NewCreateState, HistoryOK, Goto, Respond, Fail, Attempt, fileVars, readerVars, historyVars
  <2>. QED
    BY <2>1, <2>2, <2>3, <2>4, <2>5 DEF FilesOK, RequestOK, FlagsOK, BudgetOK, HistoryOK
<1>6. CASE NewWriteState
  <2>1. FilesOK'
    BY <1>6 DEF NewWriteState, FilesOK, Goto, Respond, Fail, Attempt, fileVars, readerVars, historyVars
  <2>2. RequestOK'
    BY <1>6 DEF NewWriteState, RequestOK, Goto, Respond, Fail, Attempt, fileVars, readerVars, historyVars
  <2>3. FlagsOK'
    BY <1>6 DEF NewWriteState, FlagsOK, Goto, Respond, Fail, Attempt, fileVars, readerVars, historyVars
  <2>4. BudgetOK'
    BY <1>6 DEF NewWriteState, BudgetOK, Goto, Respond, Fail, Attempt, fileVars, readerVars, historyVars
  <2>5. HistoryOK'
    BY <1>6 DEF NewWriteState, HistoryOK, Goto, Respond, Fail, Attempt, fileVars, readerVars, historyVars
  <2>. QED
    BY <2>1, <2>2, <2>3, <2>4, <2>5 DEF FilesOK, RequestOK, FlagsOK, BudgetOK, HistoryOK
<1>7. CASE NewTruncateConfig
  <2>1. FilesOK'
    BY <1>7 DEF NewTruncateConfig, FilesOK, Goto, Respond, Fail, Attempt, fileVars, readerVars, historyVars
  <2>2. RequestOK'
    BY <1>7 DEF NewTruncateConfig, RequestOK, Goto, Respond, Fail, Attempt, fileVars, readerVars, historyVars
  <2>3. FlagsOK'
    BY <1>7 DEF NewTruncateConfig, FlagsOK, Goto, Respond, Fail, Attempt, fileVars, readerVars, historyVars
  <2>4. BudgetOK'
    BY <1>7 DEF NewTruncateConfig, BudgetOK, Goto, Respond, Fail, Attempt, fileVars, readerVars, historyVars
  <2>5. HistoryOK'
    BY <1>7 DEF NewTruncateConfig, HistoryOK, Goto, Respond, Fail, Attempt, fileVars, readerVars, historyVars
  <2>. QED
    BY <2>1, <2>2, <2>3, <2>4, <2>5 DEF FilesOK, RequestOK, FlagsOK, BudgetOK, HistoryOK
<1>8. CASE NewLockConfig
  <2>1. FilesOK'
    BY <1>8 DEF NewLockConfig, NotShared, FilesOK, Goto, Respond, Fail, Attempt, fileVars, readerVars, historyVars
  <2>2. RequestOK'
    BY <1>8 DEF NewLockConfig, NotShared, RequestOK, Goto, Respond, Fail, Attempt, fileVars, readerVars, historyVars
  <2>3. FlagsOK'
    BY <1>8 DEF NewLockConfig, NotShared, FlagsOK, Goto, Respond, Fail, Attempt, fileVars, readerVars, historyVars
  <2>4. BudgetOK'
    BY <1>8 DEF NewLockConfig, NotShared, BudgetOK, Goto, Respond, Fail, Attempt, fileVars, readerVars, historyVars
  <2>5. HistoryOK'
    BY <1>8 DEF NewLockConfig, NotShared, HistoryOK, Goto, Respond, Fail, Attempt, fileVars, readerVars, historyVars
  <2>. QED
    BY <2>1, <2>2, <2>3, <2>4, <2>5 DEF FilesOK, RequestOK, FlagsOK, BudgetOK, HistoryOK
<1>9. CASE NewWriteConfig
  BY <1>9 DEF NewWriteConfig, Goto, Respond, Fail, Attempt, fileVars, readerVars, historyVars
<1>10. CASE NewWriteRest
  <2>1. FilesOK'
    BY <1>10 DEF NewWriteRest, StoredNextId, FilesOK, Goto, Respond, Fail, Attempt, fileVars, readerVars, historyVars
  <2>2. RequestOK'
    BY <1>10 DEF NewWriteRest, StoredNextId, RequestOK, Goto, Respond, Fail, Attempt, fileVars, readerVars, historyVars
  <2>3. FlagsOK'
    BY <1>10 DEF NewWriteRest, StoredNextId, FlagsOK, Goto, Respond, Fail, Attempt, fileVars, readerVars, historyVars
  <2>4. BudgetOK'
    BY <1>10 DEF NewWriteRest, StoredNextId, BudgetOK, Goto, Respond, Fail, Attempt, fileVars, readerVars, historyVars
  <2>5. HistoryOK'
    BY <1>10 DEF NewWriteRest, StoredNextId, HistoryOK, Goto, Respond, Fail, Attempt, fileVars, readerVars, historyVars
  <2>. QED
    BY <2>1, <2>2, <2>3, <2>4, <2>5 DEF FilesOK, RequestOK, FlagsOK, BudgetOK, HistoryOK
<1>11. ASSUME NEW id \in Ids, DeleteRequest(id)
      PROVE  TypeInv'
  BY <1>11 DEF DeleteRequest, Goto, Respond, Fail, Attempt, fileVars, readerVars, historyVars
<1>12. CASE DeleteFile
  BY <1>12 DEF DeleteFile, Goto, Respond, Fail, Attempt, fileVars, readerVars, historyVars
<1>13. CASE DeleteDir
  BY <1>13 DEF DeleteDir, Goto, Respond, Fail, Attempt, fileVars, readerVars, historyVars
<1>14. CASE DeleteFails
  BY <1>14 DEF DeleteFails, Goto, Respond, Fail, Attempt, fileVars, readerVars, historyVars
<1>15. CASE ReaderOpen
  BY <1>15 DEF ReaderOpen, Goto, Respond, Fail, Attempt, fileVars, readerVars, historyVars
<1>16. CASE ReaderLock
  BY <1>16 DEF ReaderLock, Goto, Respond, Fail, Attempt, fileVars, readerVars, historyVars
<1>17. CASE ReaderRead
  BY <1>17 DEF ReaderRead, Goto, Respond, Fail, Attempt, fileVars, readerVars, historyVars
<1>18. CASE ReaderReadRest
  BY <1>18 DEF ReaderReadRest, Goto, Respond, Fail, Attempt, fileVars, readerVars, historyVars
<1>19. CASE ReaderClose
  BY <1>19 DEF ReaderClose, Goto, Respond, Fail, Attempt, fileVars, readerVars, historyVars
<1>20. CASE Crash
  <2>1. FilesOK'
    BY <1>20 DEF Crash, FilesOK, Goto, Respond, Fail, Attempt, fileVars, readerVars, historyVars
  <2>2. RequestOK'
    BY <1>20 DEF Crash, RequestOK, Goto, Respond, Fail, Attempt, fileVars, readerVars, historyVars
  <2>3. FlagsOK'
    BY <1>20 DEF Crash, FlagsOK, Goto, Respond, Fail, Attempt, fileVars, readerVars, historyVars
  <2>4. BudgetOK'
    BY <1>20 DEF Crash, BudgetOK, Goto, Respond, Fail, Attempt, fileVars, readerVars, historyVars
  <2>5. HistoryOK'
    BY <1>20 DEF Crash, HistoryOK, Goto, Respond, Fail, Attempt, fileVars, readerVars, historyVars
  <2>. QED
    BY <2>1, <2>2, <2>3, <2>4, <2>5 DEF FilesOK, RequestOK, FlagsOK, BudgetOK, HistoryOK
<1>21. CASE UNCHANGED vars
  BY <1>21 DEF vars, Goto, Respond, Fail, Attempt, fileVars, readerVars, historyVars
<1>. QED
  BY <1>1, <1>2, <1>3, <1>4, <1>5, <1>6, <1>7, <1>8, <1>9, <1>10, <1>11, <1>12, <1>13, <1>14, <1>15, <1>16, <1>17, <1>18, <1>19, <1>20, <1>21
     DEF Next, Request, TaskNewStep, TaskDeleteStep, Reader, NewRefused, DeleteRefused, vars

\* Every variable keeps to the values its code can give it.
THEOREM TypeCorrect == Spec => []TypeOK
<1>1. TypeInv => TypeOK
  BY DEF TypeInv
<1>. QED
  BY <1>1, InitTypeInv, TypeInvStep, PTL DEF Spec

-----------------------------------------------------------------------------
\* The ids below nextTaskId are those that were acknowledged, whether the config
\* is on disk or in the handler that rewrites it.
CountedAcked ==
    /\ config >= 0 => acked = 0 .. (config - 1)
    /\ pc \in ConfigSteps => acked = 0 .. (task - 1)
    /\ pc \in NewSteps \ ConfigSteps => config = task
    /\ pc \in ConfigSteps => config < 0

\* No directory lies beyond nextTaskId, and one at nextTaskId has a reason.
DirsCounted ==
    \A id \in dirs :
       /\ config >= 0 => id <= config
       /\ config = id => id \in cutShort \/ task = id
       /\ pc \in ConfigSteps => id <= task

\* A directory that was deleted comes back only at nextTaskId.
DeletedApart ==
    \A id \in deleted \cap dirs :
       /\ config >= 0 => id >= config
       /\ pc \in ConfigSteps => id >= task

CountInv == CountedAcked /\ DirsCounted /\ DeletedApart

LEMMA CountInvStep == TypeInv /\ CountInv /\ [Next]_vars => CountInv'
<1> SUFFICES ASSUME TypeInv, CountInv, [Next]_vars
             PROVE  CountInv'
  OBVIOUS
<1> USE DEF CountInv, CountedAcked, DirsCounted, DeletedApart, NewSteps, ConfigSteps
<1>0. /\ config \in Int /\ task \in Int /\ dirs \subseteq Ids /\ deleted \subseteq Ids
      /\ pc # "idle" => task \in Ids
      /\ pc = "idle" => task = -1
      /\ Ids \subseteq Nat
  BY DEF TypeInv, TypeOK, Ids
<1> HIDE DEF TypeInv
<1>1. CASE NewRequest
  BY <1>0, <1>1 DEF NewRequest, NextTaskId, Goto, Respond, Fail, Attempt, fileVars, readerVars, historyVars
<1>2. CASE NewMkdir
  <2>1. /\ pc = "mkdir" /\ UNCHANGED <<config, acked, deleted>>
        /\ \/ /\ dirs' = dirs \cup {task} /\ pc' = "open_sh"
              /\ task' = task /\ cutShort' = cutShort
           \/ /\ dirs' = dirs /\ pc' = "idle"
              /\ task' = NoTask /\ cutShort' = cutShort \cup {task}
    BY <1>2 DEF NewMkdir, Goto, Respond, Fail
  <2>2. CountedAcked'
    BY <1>0, <2>1
  <2>3. DirsCounted'
    <3>1. config = task /\ pc' \notin ConfigSteps
      BY <2>1
    <3>2. CASE dirs' = dirs \cup {task} /\ task' = task /\ cutShort' = cutShort
      BY <1>0, <2>1, <3>1, <3>2
    <3>3. CASE dirs' = dirs /\ cutShort' = cutShort \cup {task}
      BY <1>0, <2>1, <3>1, <3>3
    <3>. QED
      BY <2>1, <3>2, <3>3
  <2>4. DeletedApart'
    BY <1>0, <2>1
  <2>. QED
    BY <2>2, <2>3, <2>4
<1>3. CASE NewOpenScript
  BY <1>0, <1>3 DEF NewOpenScript, Goto, Respond, Fail, Attempt, fileVars, readerVars, historyVars
<1>4. CASE NewWriteScript
  BY <1>0, <1>4 DEF NewWriteScript, Goto, Respond, Fail, Attempt, fileVars, readerVars, historyVars
<1>5. CASE NewCreateState
  BY <1>0, <1>5 DEF NewCreateState, Goto, Respond, Fail, Attempt, fileVars, readerVars, historyVars
<1>6. CASE NewWriteState
  BY <1>0, <1>6 DEF NewWriteState, Goto, Respond, Fail, Attempt, fileVars, readerVars, historyVars
<1>7. CASE NewTruncateConfig
  BY <1>0, <1>7 DEF NewTruncateConfig, Goto, Respond, Fail, Attempt, fileVars, readerVars, historyVars
<1>8. CASE NewLockConfig
  BY <1>0, <1>8 DEF NewLockConfig, NotShared, Goto, Respond, Fail, Attempt, fileVars, readerVars, historyVars
<1>9. CASE NewWriteConfig
  BY <1>0, <1>9 DEF NewWriteConfig, Goto, Respond, Fail, Attempt, fileVars, readerVars, historyVars
<1>10. CASE NewWriteRest
  BY <1>0, <1>10 DEF NewWriteRest, StoredNextId, Goto, Respond, Fail, Attempt, fileVars, readerVars, historyVars
<1>11. ASSUME NEW id \in Ids, DeleteRequest(id)
      PROVE  CountInv'
  BY <1>0, <1>11 DEF DeleteRequest, Goto, Respond, Fail, Attempt, fileVars, readerVars, historyVars
<1>12. CASE DeleteFile
  BY <1>0, <1>12 DEF DeleteFile, Goto, Respond, Fail, Attempt, fileVars, readerVars, historyVars
<1>13. CASE DeleteDir
  BY <1>0, <1>13 DEF DeleteDir, Goto, Respond, Fail, Attempt, fileVars, readerVars, historyVars
<1>14. CASE DeleteFails
  BY <1>0, <1>14 DEF DeleteFails, Goto, Respond, Fail, Attempt, fileVars, readerVars, historyVars
<1>15. CASE ReaderOpen
  BY <1>0, <1>15 DEF ReaderOpen, Goto, Respond, Fail, Attempt, fileVars, readerVars, historyVars
<1>16. CASE ReaderLock
  BY <1>0, <1>16 DEF ReaderLock, Goto, Respond, Fail, Attempt, fileVars, readerVars, historyVars
<1>17. CASE ReaderRead
  BY <1>0, <1>17 DEF ReaderRead, Goto, Respond, Fail, Attempt, fileVars, readerVars, historyVars
<1>18. CASE ReaderReadRest
  BY <1>0, <1>18 DEF ReaderReadRest, Goto, Respond, Fail, Attempt, fileVars, readerVars, historyVars
<1>19. CASE ReaderClose
  BY <1>0, <1>19 DEF ReaderClose, Goto, Respond, Fail, Attempt, fileVars, readerVars, historyVars
<1>20. CASE Crash
  BY <1>0, <1>20 DEF Crash, Goto, Respond, Fail, Attempt, fileVars, readerVars, historyVars
<1>21. CASE UNCHANGED vars
  BY <1>0, <1>21 DEF vars, Goto, Respond, Fail, Attempt, fileVars, readerVars, historyVars
<1>. QED
  BY <1>1, <1>2, <1>3, <1>4, <1>5, <1>6, <1>7, <1>8, <1>9, <1>10, <1>11, <1>12, <1>13, <1>14, <1>15, <1>16, <1>17, <1>18, <1>19, <1>20, <1>21
     DEF Next, Request, TaskNewStep, TaskDeleteStep, Reader, NewRefused, DeleteRefused, vars

LEMMA CountInductive == Spec => [](TypeInv /\ CountInv)
<1>1. Init => CountInv
  BY DEF Init, CountInv, CountedAcked, DirsCounted, DeletedApart, NewSteps, ConfigSteps
<1>. QED
  BY <1>1, InitTypeInv, TypeInvStep, CountInvStep, PTL DEF Spec

\* TaskNew answers OK for no id twice: the step that does so works on an id
\* that lies beyond all that were acknowledged.
THEOREM FreshTaskIds == Spec => TaskIdsNeverReused
<1>1. TypeInv /\ CountInv /\ [Next]_vars
        => [pc = "write_rest" /\ pc' = "idle" /\ crashes' = crashes => task \notin acked]_vars
  BY DEF TypeInv, TypeOK, Ids, CountInv, CountedAcked, NewSteps, ConfigSteps
<1>. QED
  BY <1>1, CountInductive, PTL DEF Spec, TaskIdsNeverReused

\* TaskList shows nothing that was not acknowledged, and nothing that was deleted.
THEOREM OnlyAckedListed == Spec => []ListedIsAcked
<1>1. TypeInv /\ CountInv => ListedIsAcked
  BY DEF TypeInv, TypeOK, Ids, CountInv, CountedAcked, DeletedApart, ListedIsAcked, Listed, Whole
<1>. QED
  BY <1>1, CountInductive, PTL

\* A directory in the way of TaskNew is what a request on its id left behind.
THEOREM BlockedByRemains == Spec => []BlockedByRemainsOnly
<1>1. TypeInv /\ CountInv => BlockedByRemainsOnly
  BY DEF TypeInv, TypeOK, Ids, CountInv, DirsCounted, BlockedByRemainsOnly
<1>. QED
  BY <1>1, CountInductive, PTL

-----------------------------------------------------------------------------
\* Behind AckedIsListed: until a call fails or a rewrite is cut short, the config
\* is blank in the handler that rewrites it only, what was acknowledged is whole,
\* and TaskNew has written what the steps behind it should have written.
ConfigThere == pc \notin ConfigSteps => config >= 0
AckedWhole ==
    \A id \in acked \ (deleted \cup cutShort \cup {task}) : script[id] = "full" /\ state[id] = "full"
TaskWritten ==
    /\ pc \in {"create_state", "write_state", "trunc_config"} \cup ConfigSteps => script[task] = "full"
    /\ pc \in {"trunc_config"} \cup ConfigSteps => state[task] = "full"
ListedInv == faults = 0 /\ ~configHit => ConfigThere /\ AckedWhole /\ TaskWritten

LEMMA ListedInvStep == TypeInv /\ CountInv /\ ListedInv /\ [Next]_vars => ListedInv'
<1> SUFFICES ASSUME TypeInv, CountInv, ListedInv, [Next]_vars, faults' = 0, ~configHit'
             PROVE  ConfigThere' /\ AckedWhole' /\ TaskWritten'
  BY DEF ListedInv
<1> USE DEF ListedInv, ConfigThere, AckedWhole, TaskWritten, ConfigSteps
<1>0. /\ config \in Int /\ faults \in Nat /\ Ids \subseteq Nat
      /\ script \in [Ids -> File] /\ state \in [Ids -> File]
      /\ acked \subseteq Ids
      /\ pc # "idle" => task \in Ids
      /\ pc = "idle" => task = -1
  BY DEF TypeInv, TypeOK, Ids
<1> HIDE DEF TypeInv, CountInv
<1>1. CASE NewRequest
  BY <1>0, <1>1 DEF NewRequest, NextTaskId, Goto, Respond, Fail, Attempt, fileVars, readerVars, historyVars
<1>2. CASE NewMkdir
  BY <1>0, <1>2 DEF NewMkdir, Goto, Respond, Fail, Attempt, fileVars, readerVars, historyVars
<1>3. CASE NewOpenScript
  BY <1>0, <1>3 DEF NewOpenScript, Goto, Respond, Fail, Attempt, fileVars, readerVars, historyVars
<1>4. CASE NewWriteScript
  BY <1>0, <1>4 DEF NewWriteScript, Goto, Respond, Fail, Attempt, fileVars, readerVars, historyVars
<1>5. CASE NewCreateState
  BY <1>0, <1>5 DEF NewCreateState, Goto, Respond, Fail, Attempt, fileVars, readerVars, historyVars
<1>6. CASE NewWriteState
  BY <1>0, <1>6 DEF NewWriteState, Goto, Respond, Fail, Attempt, fileVars, readerVars, historyVars
<1>7. CASE NewTruncateConfig
  BY <1>0, <1>7 DEF NewTruncateConfig, Goto, Respond, Fail, Attempt, fileVars, readerVars, historyVars
<1>8. CASE NewLockConfig
  BY <1>0, <1>8 DEF NewLockConfig, NotShared, Goto, Respond, Fail, Attempt, fileVars, readerVars, historyVars
<1>9. CASE NewWriteConfig
  BY <1>0, <1>9 DEF NewWriteConfig, Goto, Respond, Fail, Attempt, fileVars, readerVars, historyVars
<1>10. CASE NewWriteRest
  <2>1. PICK ok \in BOOLEAN :
          /\ Attempt(ok)
          /\ config' = IF ok THEN StoredNextId ELSE config
          /\ configHit' = (configHit \/ ~ok)
    BY <1>10, Zenon DEF NewWriteRest
  <2>2. ok /\ ~configHit
    BY <2>1, Zenon
  <2>3. faults = 0
    BY <1>0, <2>1, <2>2 DEF Attempt
  <2>4. ConfigThere /\ AckedWhole /\ TaskWritten
    BY <2>2, <2>3, Zenon
  <2>5. config' = task + 1
    BY <2>1, <2>2 DEF StoredNextId
  <2>6. /\ pc = "write_rest" /\ task \in Ids /\ pc' = "idle" /\ script' = script /\ state' = state
        /\ acked' = acked \cup {task} /\ deleted' = deleted \ {task} /\ cutShort' = cutShort
    BY <1>0, <1>10 DEF NewWriteRest, Respond
  <2>7. ConfigThere'
    BY <1>0, <2>5, <2>6
  <2>8. AckedWhole'
    BY <2>4, <2>6
  <2>9. TaskWritten'
    BY <2>6
  <2>. QED
    BY <2>7, <2>8, <2>9
<1>11. ASSUME NEW id \in Ids, DeleteRequest(id)
      PROVE  ConfigThere' /\ AckedWhole' /\ TaskWritten'
  BY <1>0, <1>11 DEF DeleteRequest, Goto, Respond, Fail, Attempt, fileVars, readerVars, historyVars
<1>12. CASE DeleteFile
  BY <1>0, <1>12 DEF DeleteFile, Goto, Respond, Fail, Attempt, fileVars, readerVars, historyVars
<1>13. CASE DeleteDir
  BY <1>0, <1>13 DEF DeleteDir, Goto, Respond, Fail, Attempt, fileVars, readerVars, historyVars
<1>14. CASE DeleteFails
  BY <1>0, <1>14 DEF DeleteFails, Goto, Respond, Fail, Attempt, fileVars, readerVars, historyVars
<1>15. CASE ReaderOpen
  BY <1>0, <1>15 DEF ReaderOpen, Goto, Respond, Fail, Attempt, fileVars, readerVars, historyVars
<1>16. CASE ReaderLock
  BY <1>0, <1>16 DEF ReaderLock, Goto, Respond, Fail, Attempt, fileVars, readerVars, historyVars
<1>17. CASE ReaderRead
  BY <1>0, <1>17 DEF ReaderRead, Goto, Respond, Fail, Attempt, fileVars, readerVars, historyVars
<1>18. CASE ReaderReadRest
  BY <1>0, <1>18 DEF ReaderReadRest, Goto, Respond, Fail, Attempt, fileVars, readerVars, historyVars
<1>19. CASE ReaderClose
  BY <1>0, <1>19 DEF ReaderClose, Goto, Respond, Fail, Attempt, fileVars, readerVars, historyVars
<1>20. CASE Crash
  BY <1>0, <1>20 DEF Crash, Goto, Respond, Fail, Attempt, fileVars, readerVars, historyVars
<1>21. CASE UNCHANGED vars
  BY <1>0, <1>21 DEF vars, Goto, Respond, Fail, Attempt, fileVars, readerVars, historyVars
<1>. QED
  BY <1>1, <1>2, <1>3, <1>4, <1>5, <1>6, <1>7, <1>8, <1>9, <1>10, <1>11, <1>12, <1>13, <1>14, <1>15, <1>16, <1>17, <1>18, <1>19, <1>20, <1>21
     DEF Next, Request, TaskNewStep, TaskDeleteStep, Reader, NewRefused, DeleteRefused, vars

\* Every acknowledged task is listed and whole until its deletion begins.
THEOREM AckedListed == Spec => []AckedIsListed
<1>1. Init => ListedInv
  BY DEF Init, ListedInv, ConfigThere, AckedWhole, TaskWritten, ConfigSteps
<1>2. Spec => [](TypeInv /\ CountInv /\ ListedInv)
  BY <1>1, CountInductive, ListedInvStep, PTL DEF Spec
<1>3. TypeInv /\ CountInv /\ ListedInv => AckedIsListed
  BY DEF TypeInv, TypeOK, Ids, CountInv, CountedAcked, ListedInv, ConfigThere, AckedWhole,
         AckedIsListed, Listed, Whole
<1>. QED
  BY <1>2, <1>3, PTL

-----------------------------------------------------------------------------
\* Behind NeverMixed: the locks exclude each other, and a reader that is half
\* through has seen the version that is there, unless that one is being written.
Excluded ==
    pc \in {"write_config", "write_rest"} =>
        serverLock /\ reader \notin {"read", "read_rest", "close"}
SawVersion == reader = "read_rest" /\ config >= 0 /\ readerSaw >= 0 => readerSaw = config
ReadInv == faults = 0 => Excluded /\ SawVersion /\ readerSaw # Mixed

LEMMA ReadInvStep == TypeInv /\ ReadInv /\ [Next]_vars => ReadInv'
<1> SUFFICES ASSUME TypeInv, ReadInv, [Next]_vars, faults' = 0
             PROVE  Excluded' /\ SawVersion' /\ readerSaw' # Mixed
  BY DEF ReadInv
<1> USE DEF ReadInv, Excluded, SawVersion
<1>0. /\ config \in Int /\ config >= -2 /\ readerSaw \in Int /\ faults \in Nat /\ Ids \subseteq Nat
      /\ task \in Int /\ serverLock \in BOOLEAN
  BY BoundsAssumption DEF TypeInv, TypeOK, Ids
<1> HIDE DEF TypeInv
<1>1. CASE NewRequest
  BY <1>0, <1>1 DEF NewRequest, NextTaskId, Goto, Respond, Fail, Attempt, fileVars, readerVars, historyVars
<1>2. CASE NewMkdir
  BY <1>0, <1>2 DEF NewMkdir, Goto, Respond, Fail, Attempt, fileVars, readerVars, historyVars
<1>3. CASE NewOpenScript
  BY <1>0, <1>3 DEF NewOpenScript, Goto, Respond, Fail, Attempt, fileVars, readerVars, historyVars
<1>4. CASE NewWriteScript
  BY <1>0, <1>4 DEF NewWriteScript, Goto, Respond, Fail, Attempt, fileVars, readerVars, historyVars
<1>5. CASE NewCreateState
  BY <1>0, <1>5 DEF NewCreateState, Goto, Respond, Fail, Attempt, fileVars, readerVars, historyVars
<1>6. CASE NewWriteState
  BY <1>0, <1>6 DEF NewWriteState, Goto, Respond, Fail, Attempt, fileVars, readerVars, historyVars
<1>7. CASE NewTruncateConfig
  BY <1>0, <1>7 DEF NewTruncateConfig, Goto, Respond, Fail, Attempt, fileVars, readerVars, historyVars
<1>8. CASE NewLockConfig
  BY <1>0, <1>8 DEF NewLockConfig, NotShared, Goto, Respond, Fail, Attempt, fileVars, readerVars, historyVars
<1>9. CASE NewWriteConfig
  BY <1>0, <1>9 DEF NewWriteConfig, Goto, Respond, Fail, Attempt, fileVars, readerVars, historyVars
<1>10. CASE NewWriteRest
  BY <1>0, <1>10 DEF NewWriteRest, StoredNextId, Goto, Respond, Fail, Attempt, fileVars, readerVars, historyVars
<1>11. ASSUME NEW id \in Ids, DeleteRequest(id)
      PROVE  Excluded' /\ SawVersion' /\ readerSaw' # Mixed
  BY <1>0, <1>11 DEF DeleteRequest, Goto, Respond, Fail, Attempt, fileVars, readerVars, historyVars
<1>12. CASE DeleteFile
  BY <1>0, <1>12 DEF DeleteFile, Goto, Respond, Fail, Attempt, fileVars, readerVars, historyVars
<1>13. CASE DeleteDir
  BY <1>0, <1>13 DEF DeleteDir, Goto, Respond, Fail, Attempt, fileVars, readerVars, historyVars
<1>14. CASE DeleteFails
  BY <1>0, <1>14 DEF DeleteFails, Goto, Respond, Fail, Attempt, fileVars, readerVars, historyVars
<1>15. CASE ReaderOpen
  BY <1>0, <1>15 DEF ReaderOpen, Goto, Respond, Fail, Attempt, fileVars, readerVars, historyVars
<1>16. CASE ReaderLock
  BY <1>0, <1>16 DEF ReaderLock, Goto, Respond, Fail, Attempt, fileVars, readerVars, historyVars
<1>17. CASE ReaderRead
  BY <1>0, <1>17 DEF ReaderRead, Goto, Respond, Fail, Attempt, fileVars, readerVars, historyVars
<1>18. CASE ReaderReadRest
  BY <1>0, <1>18 DEF ReaderReadRest, Goto, Respond, Fail, Attempt, fileVars, readerVars, historyVars
<1>19. CASE ReaderClose
  BY <1>0, <1>19 DEF ReaderClose, Goto, Respond, Fail, Attempt, fileVars, readerVars, historyVars
<1>20. CASE Crash
  BY <1>0, <1>20 DEF Crash, Goto, Respond, Fail, Attempt, fileVars, readerVars, historyVars
<1>21. CASE UNCHANGED vars
  BY <1>0, <1>21 DEF vars, Goto, Respond, Fail, Attempt, fileVars, readerVars, historyVars
<1>. QED
  BY <1>1, <1>2, <1>3, <1>4, <1>5, <1>6, <1>7, <1>8, <1>9, <1>10, <1>11, <1>12, <1>13, <1>14, <1>15, <1>16, <1>17, <1>18, <1>19, <1>20, <1>21
     DEF Next, Request, TaskNewStep, TaskDeleteStep, Reader, NewRefused, DeleteRefused, vars

\* A client command reads one version of the config or an error.
THEOREM ReadsOneVersion == Spec => []NeverMixed
<1>1. Init => ReadInv
  BY DEF Init, ReadInv, Excluded, SawVersion
<1>2. ReadInv => NeverMixed
  BY DEF ReadInv, NeverMixed
<1>. QED
  BY <1>1, <1>2, InitTypeInv, TypeInvStep, ReadInvStep, PTL DEF Spec
=============================================================================
