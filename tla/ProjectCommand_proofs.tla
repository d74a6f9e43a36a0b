------------------------ MODULE ProjectCommand_proofs ------------------------
(***************************************************************************)
(* Proofs about WorkspaceStore and about ProjectCommand, which extends it, *)
(* for every number of projects, ids, faults and crashes, and all command  *)
(* lines. The registry: type correctness, ids are never reused, every      *)
(* directory is visible to the list scan, and deleted ids stay gone. The   *)
(* commands: one without -w acts on the project it is run in, and what     *)
(* blocks an init are remains. The parsers: a line of any length is parsed *)
(* as the grammar says.                                                    *)
(***************************************************************************)
EXTENDS ProjectCommand, FiniteSetTheorems, SetRecursion, TLAPS

USE DEF Missing, Empty, Absent, DirOnly, Blank, NoId

\* Every variable keeps to the values its code can give it, and a handler in
\* progress holds its request: the part of the inductive invariant the other
\* parts rest on.
TypeInv == TypeOK /\ RequestOK

LEMMA TypeInvStep == TypeInv /\ [Next]_vars => TypeInv'
<1> SUFFICES ASSUME TypeInv, [Next]_vars
             PROVE  TypeInv'
  OBVIOUS
<1> USE ConstantsAssumption
    DEF TypeInv, TypeOK, DiskOK, RequestOK, Ids, Steps, BootSteps, InitSteps, DeleteSteps, TaskSteps,
        Attempt, Goto, Respond, Fail, Torn, historyVars, diskVars, wsVars, requestVars
<1>1. CASE BootCreate
  <2>1. HistoryOK'
    BY <1>1 DEF HistoryOK, BootCreate, CounterExists
  <2>2. DiskOK' /\ RequestOK'
    BY <1>1 DEF BootCreate, CounterExists
  <2>. QED
    BY <1>1, <2>1, <2>2 DEF BootCreate, CounterExists
<1>2. CASE BootWrite
  <2>1. HistoryOK'
    BY <1>2 DEF HistoryOK, BootWrite
  <2>2. DiskOK' /\ RequestOK'
    BY <1>2 DEF BootWrite
  <2>. QED
    BY <1>2, <2>1, <2>2 DEF BootWrite
<1>3. CASE BootRead
  <2>1. HistoryOK'
    BY <1>3 DEF HistoryOK, BootRead, CounterRead
  <2>2. DiskOK' /\ RequestOK'
    BY <1>3 DEF BootRead, CounterRead
  <2>. QED
    BY <1>3, <2>1, <2>2 DEF BootRead, CounterRead
<1>4. ASSUME NEW p \in Projects, InitRequest(p)
      PROVE  TypeInv'
  <2>1. HistoryOK'
    BY <1>4 DEF HistoryOK, InitRequest
  <2>2. DiskOK' /\ RequestOK'
    BY <1>4 DEF InitRequest
  <2>. QED
    BY <1>4, <2>1, <2>2 DEF InitRequest
<1>5. CASE InitCreateConfig
  <2>1. HistoryOK'
    <3>1. torn' \in SUBSET Ids
      BY <1>5 DEF HistoryOK, InitCreateConfig
    <3>2. faults' \in 0 .. MaxFaults
      BY <1>5 DEF HistoryOK, InitCreateConfig
    <3>. QED
      BY <1>5, <3>1, <3>2 DEF HistoryOK, InitCreateConfig
  <2>2. DiskOK' /\ RequestOK'
    BY <1>5 DEF InitCreateConfig
  <2>. QED
    BY <1>5, <2>1, <2>2 DEF InitCreateConfig
<1>6. CASE NextWorkspaceId
  <2>1. HistoryOK'
    <3>1. issued' \in SUBSET Ids
      <4>1. issued \in SUBSET Ids /\ nextId \in Ids /\ issued' = issued \cup {nextId}
        BY <1>6 DEF HistoryOK, NextWorkspaceId, FreshId
      <4>. QED
        BY <4>1
    <3>2. unsaved' \in BOOLEAN
      BY <1>6 DEF HistoryOK, NextWorkspaceId, FreshId, NextValue
    <3>3. faults' \in 0 .. MaxFaults
      BY <1>6 DEF HistoryOK, NextWorkspaceId, FreshId, NextValue
    <3>. QED
      BY <1>6, <3>1, <3>2, <3>3 DEF HistoryOK, NextWorkspaceId, FreshId, NextValue
  <2>2. DiskOK' /\ RequestOK'
    BY <1>6 DEF NextWorkspaceId, FreshId, NextValue
  <2>. QED
    BY <1>6, <2>1, <2>2 DEF NextWorkspaceId, FreshId, NextValue
<1>7. CASE InitWsDir
  <2>1. HistoryOK'
    BY <1>7 DEF HistoryOK, InitWsDir
  <2>2. DiskOK' /\ RequestOK'
    BY <1>7 DEF InitWsDir
  <2>. QED
    BY <1>7, <2>1, <2>2 DEF InitWsDir
<1>8. CASE InitUnlink
  <2>1. HistoryOK'
    BY <1>8 DEF HistoryOK, InitUnlink
  <2>2. DiskOK' /\ RequestOK'
    BY <1>8 DEF InitUnlink
  <2>. QED
    BY <1>8, <2>1, <2>2 DEF InitUnlink
<1>9. CASE InitSymlink
  <2>1. HistoryOK'
    BY <1>9 DEF HistoryOK, InitSymlink
  <2>2. DiskOK' /\ RequestOK'
    BY <1>9 DEF InitSymlink, LinkMade, LinkMade
  <2>. QED
    BY <1>9, <2>1, <2>2 DEF InitSymlink, LinkMade, LinkMade
<1>10. CASE InitTasksDir
  <2>1. HistoryOK'
    <3>1. torn' \in SUBSET Ids
      BY <1>10 DEF HistoryOK, InitTasksDir
    <3>2. faults' \in 0 .. MaxFaults
      BY <1>10 DEF HistoryOK, InitTasksDir
    <3>. QED
      BY <1>10, <3>1, <3>2 DEF HistoryOK, InitTasksDir
  <2>2. DiskOK' /\ RequestOK'
    BY <1>10 DEF InitTasksDir
  <2>. QED
    BY <1>10, <2>1, <2>2 DEF InitTasksDir
<1>11. CASE InitWriteConfig
  <2>1. HistoryOK'
    <3>1. torn' \in SUBSET Ids
      BY <1>11 DEF HistoryOK, InitWriteConfig, HasConfig
    <3>2. live' \in SUBSET (Projects \X Ids)
      BY <1>11 DEF HistoryOK, InitWriteConfig, HasConfig
    <3>3. faults' \in 0 .. MaxFaults
      BY <1>11 DEF HistoryOK, InitWriteConfig, HasConfig
    <3>. QED
      BY <1>11, <3>1, <3>2, <3>3 DEF HistoryOK, InitWriteConfig, HasConfig
  <2>2. DiskOK' /\ RequestOK'
    BY <1>11 DEF InitWriteConfig, HasConfig
  <2>. QED
    BY <1>11, <2>1, <2>2 DEF InitWriteConfig, HasConfig
<1>12. ASSUME NEW id \in Ids, DeleteRequest(id)
      PROVE  TypeInv'
  <2>1. HistoryOK'
    BY <1>12 DEF HistoryOK, DeleteRequest, LinkedTo, Readable
  <2>2. DiskOK' /\ RequestOK'
    BY <1>12 DEF DeleteRequest, LinkedTo, Readable
  <2>. QED
    BY <1>12, <2>1, <2>2 DEF DeleteRequest, LinkedTo, Readable
<1>13. CASE DeleteConfig
  <2>1. HistoryOK'
    <3>1. torn' \in SUBSET Ids
      BY <1>13 DEF HistoryOK, DeleteConfig
    <3>2. faults' \in 0 .. MaxFaults
      BY <1>13 DEF HistoryOK, DeleteConfig
    <3>. QED
      BY <1>13, <3>1, <3>2 DEF HistoryOK, DeleteConfig
  <2>2. DiskOK' /\ RequestOK'
    BY <1>13 DEF DeleteConfig
  <2>. QED
    BY <1>13, <2>1, <2>2 DEF DeleteConfig
<1>14. CASE DeleteDotWetman
  <2>1. HistoryOK'
    <3>1. torn' \in SUBSET Ids
      BY <1>14 DEF HistoryOK, DeleteDotWetman
    <3>2. faults' \in 0 .. MaxFaults
      BY <1>14 DEF HistoryOK, DeleteDotWetman
    <3>. QED
      BY <1>14, <3>1, <3>2 DEF HistoryOK, DeleteDotWetman
  <2>2. DiskOK' /\ RequestOK'
    BY <1>14 DEF DeleteDotWetman
  <2>. QED
    BY <1>14, <2>1, <2>2 DEF DeleteDotWetman
<1>15. CASE DeleteWsEntry
  <2>1. HistoryOK'
    BY <1>15 DEF HistoryOK, DeleteWsEntry
  <2>2. DiskOK' /\ RequestOK'
    BY <1>15 DEF DeleteWsEntry
  <2>. QED
    BY <1>15, <2>1, <2>2 DEF DeleteWsEntry
<1>16. CASE DeleteWsDir
  <2>1. HistoryOK'
    BY <1>16 DEF HistoryOK, DeleteWsDir
  <2>2. DiskOK' /\ RequestOK'
    BY <1>16 DEF DeleteWsDir
  <2>. QED
    BY <1>16, <2>1, <2>2 DEF DeleteWsDir
<1>17. CASE DeleteWsFails
  <2>1. HistoryOK'
    BY <1>17 DEF HistoryOK, DeleteWsFails
  <2>2. DiskOK' /\ RequestOK'
    BY <1>17 DEF DeleteWsFails
  <2>. QED
    BY <1>17, <2>1, <2>2 DEF DeleteWsFails
<1>18. CASE Crash
  <2>1. HistoryOK'
    <3>1. torn' \in SUBSET Ids
      BY <1>18 DEF HistoryOK, Crash
    <3>2. crashes' \in 0 .. MaxCrashes
      BY <1>18 DEF HistoryOK, Crash
    <3>3. lapsed' \in BOOLEAN
      BY <1>18 DEF HistoryOK, Crash
    <3>4. configHit' \in SUBSET Ids
      BY <1>18 DEF HistoryOK, Crash
    <3>. QED
      BY <1>18, <3>1, <3>2, <3>3, <3>4 DEF HistoryOK, Crash
  <2>2. DiskOK' /\ RequestOK'
    BY <1>18 DEF Crash
  <2>. QED
    BY <1>18, <2>1, <2>2 DEF Crash
<1>19. ASSUME NEW p \in Projects, UserRemovesDotWetman(p)
      PROVE  TypeInv'
  <2>1. HistoryOK'
    <3>1. torn' \in SUBSET Ids /\ live' \in SUBSET (Projects \X Ids)
      BY <1>19 DEF HistoryOK, UserRemovesDotWetman, LinkedTo
    <3>3. removals' \in 0 .. MaxRemovals
      BY <1>19 DEF HistoryOK, UserRemovesDotWetman
    <3>2. UNCHANGED <<faults, crashes, issued, unsaved, lapsed, deleted, configHit>>
      BY <1>19 DEF UserRemovesDotWetman
    <3>. QED
      BY <3>1, <3>2, <3>3 DEF HistoryOK
  <2>2. DiskOK' /\ RequestOK'
    BY <1>19 DEF UserRemovesDotWetman, LinkedTo
  <2>. QED
    BY <1>19, <2>1, <2>2 DEF UserRemovesDotWetman, LinkedTo
<1>20. CASE UNCHANGED vars
  BY <1>20 DEF vars, HistoryOK
<1>21. ASSUME NEW i \in Ids, TaskNewRequest(i)
      PROVE  TypeInv'
  <2>1. HistoryOK'
    BY <1>21 DEF HistoryOK, TaskNewRequest, Readable, Listed
  <2>2. DiskOK' /\ RequestOK'
    BY <1>21 DEF TaskNewRequest, Readable, Listed
  <2>. QED
    BY <1>21, <2>1, <2>2 DEF TaskNewRequest, Readable, Listed
<1>22. CASE TaskNewFails
  <2>1. HistoryOK'
    BY <1>22 DEF HistoryOK, TaskNewFails
  <2>2. DiskOK' /\ RequestOK'
    BY <1>22 DEF TaskNewFails
  <2>. QED
    BY <1>22, <2>1, <2>2 DEF TaskNewFails
<1>23. CASE TaskNewOpenConfig
  <2>1. HistoryOK'
    BY <1>23 DEF HistoryOK, TaskNewOpenConfig, HasConfig
  <2>2. DiskOK' /\ RequestOK'
    BY <1>23 DEF TaskNewOpenConfig, HasConfig
  <2>. QED
    BY <1>23, <2>1, <2>2 DEF TaskNewOpenConfig, HasConfig
<1>24. CASE TaskNewWriteConfig
  <2>1. HistoryOK'
    BY <1>24 DEF HistoryOK, TaskNewWriteConfig, HasConfig
  <2>2. DiskOK' /\ RequestOK'
    BY <1>24 DEF TaskNewWriteConfig, HasConfig
  <2>. QED
    BY <1>24, <2>1, <2>2 DEF TaskNewWriteConfig, HasConfig
<1>. QED
  BY <1>1, <1>2, <1>3, <1>4, <1>5, <1>6, <1>7, <1>8, <1>9, <1>10, <1>11, <1>12, <1>13, <1>14, <1>15, <1>16, <1>17, <1>18, <1>19, <1>20,
     <1>21, <1>22, <1>23, <1>24
     DEF Next, Boot, WorkspaceInit, WorkspaceDelete, TaskNew, Environment, InitRefused, DeleteRefused, TaskNewRefused, vars

LEMMA InitTypeInv == Init => TypeInv
<1>1. Init => TypeInv
  <2>1. Init => DiskOK
    <3>. SUFFICES ASSUME Init PROVE DiskOK
      OBVIOUS
    <3>1. dotWetman \in [Projects -> {Absent, DirOnly, Blank} \cup Ids]
      BY DEF Init
    <3>2. link \in [Ids -> Projects \cup {NoProject}]
      BY DEF Init
    <3>3. wsDirs \in SUBSET Ids /\ tasksDirs \in SUBSET Ids
      BY DEF Init
    <3>4. counterFile \in {Missing, Empty} \cup (0 .. MaxId)
      BY DEF Init
    <3>. QED
      BY <3>1, <3>2, <3>3, <3>4, Zenon DEF DiskOK
  <2>2. Init => HistoryOK
    <3>1. Init => live \in SUBSET (Projects \X Ids)
      BY Zenon DEF Init
    <3>2. Init => unsaved \in BOOLEAN /\ lapsed \in BOOLEAN
      BY Zenon DEF Init
    <3>. QED
      BY <3>1, <3>2, ConstantsAssumption DEF Init, HistoryOK
  <2>. QED
    BY <2>1, <2>2, ConstantsAssumption
       DEF Init, TypeInv, TypeOK, RequestOK, Ids, Steps, BootSteps, InitSteps, DeleteSteps, TaskSteps
<1>. QED
  BY <1>1

\* TypeOK and RequestOK hold in every reachable state, for all constants.
THEOREM TypeCorrect == Spec => [](TypeOK /\ RequestOK)
  BY InitTypeInv, TypeInvStep, PTL DEF Spec, TypeInv

-----------------------------------------------------------------------------
\* The counter stays ahead of every id that was issued, in memory while the
\* server serves and on disk between runs.
LEMMA CounterInvStep == TypeInv /\ CounterInv /\ [Next]_vars => CounterInv'
<1> SUFFICES ASSUME TypeInv, CounterInv, [Next]_vars
             PROVE  CounterInv'
  OBVIOUS
<1> USE DEF CounterInv, CounterAhead, DirsIssued, BootSteps, InitSteps, DeleteSteps, TaskSteps
<1>0. /\ issued \in SUBSET Ids /\ wsDirs \in SUBSET Ids /\ deleted \in SUBSET Ids
      /\ nextId \in Nat /\ counterFile \in Int
      /\ Ids \subseteq Nat
      /\ pc \in InitSteps \cup DeleteSteps => curId \in Ids
  BY ConstantsAssumption DEF TypeInv, TypeOK, DiskOK, HistoryOK, RequestOK, Ids
<1> HIDE DEF TypeInv
<1>1. CASE BootCreate
  BY <1>0, <1>1 DEF BootCreate, CounterExists, Attempt, Goto, Respond, Fail, Torn, historyVars, diskVars, wsVars, requestVars
<1>2. CASE BootWrite
  BY <1>0, <1>2 DEF BootWrite, Attempt, Goto, Respond, Fail, Torn, historyVars, diskVars, wsVars, requestVars
<1>3. CASE BootRead
  <2>1. PICK ok \in BOOLEAN : nextId' = CounterRead(ok) /\ lapsed' = (lapsed \/ ~ok)
    BY <1>3, Zenon DEF BootRead
  <2>2. ~lapsed' => ~lapsed /\ ok
    BY <2>1, Zenon
  <2>3. /\ pc = "boot_read" /\ pc' = "idle"
        /\ UNCHANGED <<counterFile, wsDirs, issued, unsaved, deleted>>
    BY <1>3 DEF BootRead, Goto, diskVars, wsVars
  <2>4. ~lapsed' => CounterAhead'
    BY <1>0, <2>1, <2>2, <2>3 DEF CounterRead
  <2>5. ~lapsed' => DirsIssued'
    BY <2>2, <2>3
  <2>. QED
    BY <2>3, <2>4, <2>5
<1>4. ASSUME NEW p \in Projects, InitRequest(p)
      PROVE  CounterInv'
  BY <1>0, <1>4 DEF InitRequest, Goto, Respond, Fail, Torn, historyVars, diskVars, wsVars, requestVars
<1>5. CASE InitCreateConfig
  BY <1>0, <1>5 DEF InitCreateConfig, Goto, Respond, Fail, Torn, historyVars, diskVars, wsVars, requestVars
<1>6. CASE NextWorkspaceId
  <2>1. PICK ok \in BOOLEAN :
          /\ counterFile' = IF ok /\ counterFile # Missing THEN nextId + 1 ELSE counterFile
          /\ unsaved' = ~(ok /\ counterFile # Missing)
    BY <1>6, Zenon DEF NextWorkspaceId, FreshId, NextValue
  <2>2. ~unsaved' => counterFile' = nextId + 1
    BY <2>1, Zenon
  <2>3. /\ pc = "issue" /\ pc' = "ws_dir" /\ curId' = nextId /\ nextId' = nextId + 1
        /\ issued' = issued \cup {nextId}
        /\ UNCHANGED <<wsDirs, lapsed, deleted>>
    BY <1>6 DEF NextWorkspaceId, FreshId, wsVars
  <2>4. ~lapsed => \A id \in issued' : id < nextId + 1
    BY <1>0, <2>3
  <2>5. ~lapsed => CounterAhead'
    BY <2>2, <2>3, <2>4
  <2>6. ~lapsed => nextId \notin issued
    BY <1>0, <2>3
  <2>7. ~lapsed => DirsIssued'
    BY <2>3, <2>6
  <2>. QED
    BY <2>3, <2>5, <2>7
<1>7. CASE InitWsDir
  BY <1>0, <1>7 DEF InitWsDir, Goto, Respond, Fail, Torn, historyVars, diskVars, wsVars, requestVars
<1>8. CASE InitUnlink
  BY <1>0, <1>8 DEF InitUnlink, Goto, Respond, Fail, Torn, historyVars, diskVars, wsVars, requestVars
<1>9. CASE InitSymlink
  BY <1>0, <1>9 DEF InitSymlink, LinkMade, Goto, Respond, Fail, Torn, historyVars, diskVars, wsVars, requestVars
<1>10. CASE InitTasksDir
  <2>1. /\ pc = "tasks_dir" /\ UNCHANGED <<counterFile, nextId, issued, unsaved, lapsed, deleted>>
        /\ \/ pc' = "write_config" /\ curId' = curId /\ wsDirs' = wsDirs \cup {curId}
           \/ pc' = "idle" /\ wsDirs' = wsDirs
    BY <1>10 DEF InitTasksDir, Goto, Respond, Fail, Torn
  <2>. QED
    BY <1>0, <2>1
<1>11. CASE InitWriteConfig
  BY <1>0, <1>11 DEF InitWriteConfig, HasConfig, Goto, Respond, Fail, Torn, historyVars, diskVars, wsVars, requestVars
<1>12. ASSUME NEW id \in Ids, DeleteRequest(id)
      PROVE  CounterInv'
  BY <1>0, <1>12 DEF DeleteRequest, Readable, Goto, Respond, Fail, Torn, historyVars, diskVars, wsVars, requestVars
<1>13. CASE DeleteConfig
  BY <1>0, <1>13 DEF DeleteConfig, Goto, Respond, Fail, Torn, historyVars, diskVars, wsVars, requestVars
<1>14. CASE DeleteDotWetman
  BY <1>0, <1>14 DEF DeleteDotWetman, Goto, Respond, Fail, Torn, historyVars, diskVars, wsVars, requestVars
<1>15. CASE DeleteWsEntry
  BY <1>0, <1>15 DEF DeleteWsEntry, Goto, Respond, Fail, Torn, historyVars, diskVars, wsVars, requestVars
<1>16. CASE DeleteWsDir
  BY <1>0, <1>16 DEF DeleteWsDir, Goto, Respond, Fail, Torn, historyVars, diskVars, wsVars, requestVars
<1>17. CASE DeleteWsFails
  BY <1>0, <1>17 DEF DeleteWsFails, Goto, Respond, Fail, Torn, historyVars, diskVars, wsVars, requestVars
<1>18. CASE Crash
  BY <1>0, <1>18 DEF Crash, Goto, Respond, Fail, Torn, historyVars, diskVars, wsVars, requestVars
<1>19. ASSUME NEW p \in Projects, UserRemovesDotWetman(p)
      PROVE  CounterInv'
  BY <1>0, <1>19 DEF UserRemovesDotWetman, Goto, Respond, Fail, Torn, historyVars, diskVars, wsVars, requestVars
<1>20. CASE UNCHANGED vars
  BY <1>20 DEF vars, Goto, Respond, Fail, Torn, historyVars, diskVars, wsVars, requestVars
<1>21. ASSUME NEW i \in Ids, TaskNewRequest(i)
      PROVE  CounterInv'
  BY <1>0, <1>21 DEF TaskNewRequest, Readable, Listed, Goto, Respond, Fail, Torn, Attempt, historyVars, diskVars, wsVars, requestVars
<1>22. CASE TaskNewFails
  BY <1>0, <1>22 DEF TaskNewFails, Goto, Respond, Fail, Torn, Attempt, historyVars, diskVars, wsVars, requestVars
<1>23. CASE TaskNewOpenConfig
  BY <1>0, <1>23 DEF TaskNewOpenConfig, HasConfig, Goto, Respond, Fail, Torn, Attempt, historyVars, diskVars, wsVars, requestVars
<1>24. CASE TaskNewWriteConfig
  BY <1>0, <1>24 DEF TaskNewWriteConfig, HasConfig, Goto, Respond, Fail, Torn, Attempt, historyVars, diskVars, wsVars, requestVars
<1>. QED
  BY <1>1, <1>2, <1>3, <1>4, <1>5, <1>6, <1>7, <1>8, <1>9, <1>10, <1>11, <1>12, <1>13, <1>14, <1>15, <1>16, <1>17, <1>18, <1>19, <1>20,
     <1>21, <1>22, <1>23, <1>24
     DEF Next, Boot, WorkspaceInit, WorkspaceDelete, TaskNew, Environment, InitRefused, DeleteRefused, TaskNewRefused, vars

LEMMA Inductive == Spec => [](TypeInv /\ CounterInv)
<1>1. Init => TypeInv
  BY InitTypeInv
<1>2. Init => CounterInv
  BY DEF Init, CounterInv, CounterAhead, DirsIssued, BootSteps, InitSteps, DeleteSteps
<1>. QED
  BY <1>1, <1>2, TypeInvStep, CounterInvStep, PTL DEF Spec

\* NextWorkspaceId never returns an id again, however often the server crashes.
THEOREM FreshIds == Spec => IdsNeverReused
<1>1. TypeInv /\ CounterInv /\ [Next]_vars
        => [pc = "issue" /\ pc' = "ws_dir" => lapsed \/ curId' \notin issued]_vars
  <2> SUFFICES ASSUME TypeInv, CounterInv, Next, pc = "issue", pc' = "ws_dir", ~lapsed
               PROVE  curId' \notin issued
    BY DEF vars
  <2>1. NextWorkspaceId
    BY DEF Next, Boot, WorkspaceInit, WorkspaceDelete, TaskNew, Environment, InitRefused, DeleteRefused, TaskNewRefused,
           BootCreate, BootWrite, BootRead, InitRequest, InitCreateConfig, InitWsDir, InitUnlink,
           InitSymlink, LinkMade, InitTasksDir, InitWriteConfig, DeleteRequest, DeleteConfig, DeleteDotWetman,
           DeleteWsEntry, DeleteWsDir, DeleteWsFails,
           TaskNewRequest, TaskNewFails, TaskNewOpenConfig, TaskNewWriteConfig, HasConfig, Crash, UserRemovesDotWetman, vars, requestVars
  <2>. QED
    BY <2>1, ConstantsAssumption
       DEF NextWorkspaceId, FreshId, CounterInv, CounterAhead, BootSteps,
           TypeInv, TypeOK, HistoryOK, Ids
<1>. QED
  BY <1>1, Inductive, PTL DEF Spec, IdsNeverReused

\* WorkspaceList never misses a directory: all of them have ids below the counter.
THEOREM DirsVisible == Spec => []AllDirsVisible
<1>1. TypeInv /\ CounterInv => AllDirsVisible
  BY DEF CounterInv, CounterAhead, DirsIssued, AllDirsVisible
<1>. QED
  BY <1>1, Inductive, PTL

\* An id whose deletion was acknowledged never gets a directory again.
THEOREM DeletedGone == Spec => []DeletedStaysDeleted
<1>1. TypeInv /\ CounterInv => DeletedStaysDeleted
  BY DEF CounterInv, DirsIssued, DeletedStaysDeleted
<1>. QED
  BY <1>1, Inductive, PTL
-----------------------------------------------------------------------------
HandlerSteps == {"create_config", "issue"} \cup InitSteps \cup DeleteSteps

\* The id a handler has, between NextWorkspaceId or the check of a delete and
\* its response.
AtWork(id) == pc \in InitSteps \cup DeleteSteps /\ id = curId

\* Behind AliasNeedsInterruption: a symlink whose id is neither torn nor at work
\* leads to a config that names the id, or that a failed write left empty; and a
\* handler for a project finds no other symlink to it that is not torn.
AliasInv ==
    /\ \A id \in Ids : link[id] # NoProject /\ id \notin torn =>
          \/ dotWetman[link[id]] \in {id, Blank}
          \/ AtWork(id) /\ link[id] = curProject /\ dotWetman[curProject] \notin Ids
    /\ pc \in HandlerSteps =>
          \A id \in Ids : link[id] = curProject => id \in torn \/ AtWork(id)
    /\ pc \in HandlerSteps \ DeleteSteps => dotWetman[curProject] \notin Ids
    /\ pc \in TaskSteps =>
          \A id \in Ids : link[id] = curProject => id \in torn \/ id = curId

\* No step of a handler leaves a symlink with another's config behind it, unless
\* it marks the id as torn.
LEMMA AliasInvStep == TypeInv /\ AliasInv /\ [Next]_vars => AliasInv'
<1> SUFFICES ASSUME TypeInv, AliasInv, [Next]_vars
             PROVE  AliasInv'
  OBVIOUS
<1> USE DEF AliasInv, AtWork, HandlerSteps, InitSteps, DeleteSteps, TaskSteps
<1>0. /\ dotWetman \in [Projects -> Int] /\ link \in [Ids -> Projects \cup {NoProject}]
      /\ NoProject \notin Projects
      /\ Ids \subseteq Nat /\ torn \subseteq Ids
      /\ pc \in HandlerSteps \cup TaskSteps => curProject \in Projects
      /\ pc \in InitSteps \cup DeleteSteps \cup TaskSteps => curId \in Ids
  BY ConstantsAssumption DEF TypeInv, TypeOK, DiskOK, HistoryOK, RequestOK, Ids
<1> HIDE DEF TypeInv
<1>1. CASE BootCreate
  BY <1>0, <1>1 DEF BootCreate, Goto, Respond, Fail, Torn, Attempt, historyVars, diskVars, wsVars, requestVars
<1>2. CASE BootWrite
  BY <1>0, <1>2 DEF BootWrite, Goto, Respond, Fail, Torn, Attempt, historyVars, diskVars, wsVars, requestVars
<1>3. CASE BootRead
  BY <1>0, <1>3 DEF BootRead, Goto, Respond, Fail, Torn, Attempt, historyVars, diskVars, wsVars, requestVars
<1>4. ASSUME NEW p \in Projects, InitRequest(p)
      PROVE  AliasInv'
  BY <1>0, <1>4 DEF InitRequest, Goto, Respond, Fail, Torn, Attempt, historyVars, diskVars, wsVars, requestVars
<1>5. CASE InitCreateConfig
  BY <1>0, <1>5 DEF InitCreateConfig, Goto, Respond, Fail, Torn, Attempt, historyVars, diskVars, wsVars, requestVars
<1>6. CASE NextWorkspaceId
  BY <1>0, <1>6 DEF NextWorkspaceId, Goto, Respond, Fail, Torn, Attempt, historyVars, diskVars, wsVars, requestVars
<1>7. CASE InitWsDir
  BY <1>0, <1>7 DEF InitWsDir, Goto, Respond, Fail, Torn, Attempt, historyVars, diskVars, wsVars, requestVars
<1>8. CASE InitUnlink
  BY <1>0, <1>8 DEF InitUnlink, Goto, Respond, Fail, Torn, Attempt, historyVars, diskVars, wsVars, requestVars
<1>9. CASE InitSymlink
  BY <1>0, <1>9 DEF InitSymlink, LinkMade, Goto, Respond, Fail, Torn, Attempt, historyVars, diskVars, wsVars, requestVars
<1>10. CASE InitTasksDir
  BY <1>0, <1>10 DEF InitTasksDir, Goto, Respond, Fail, Torn, Attempt, historyVars, diskVars, wsVars, requestVars
<1>11. CASE InitWriteConfig
  <2>1. /\ pc = "write_config" /\ pc' = "idle" /\ link' = link
        /\ \/ torn' = torn \cup {curId} /\ dotWetman' = dotWetman
           \/ /\ torn' = torn
              /\ \E v \in {curId, Blank} : dotWetman' = [dotWetman EXCEPT ![curProject] = v]
    BY <1>11 DEF InitWriteConfig, HasConfig, Respond, Fail, Torn, wsVars
  <2>2. ASSUME NEW id \in Ids, link[id] # NoProject, id \notin torn'
        PROVE  dotWetman'[link[id]] \in {id, Blank}
    <3>1. CASE torn' = torn \cup {curId} /\ dotWetman' = dotWetman
      BY <1>0, <2>1, <2>2, <3>1
    <3>2. ASSUME NEW v \in {curId, Blank}, torn' = torn,
                 dotWetman' = [dotWetman EXCEPT ![curProject] = v]
          PROVE  dotWetman'[link[id]] \in {id, Blank}
      <4>1. CASE link[id] = curProject
        <5>1. id = curId
          BY <2>1, <2>2, <3>2, <4>1
        <5>. QED
          BY <1>0, <2>1, <3>2, <4>1, <5>1
      <4>2. CASE link[id] # curProject
        BY <1>0, <2>1, <2>2, <3>2, <4>2
      <4>. QED
        BY <4>1, <4>2
    <3>. QED
      BY <2>1, <3>1, <3>2
  <2>. QED
    BY <2>1, <2>2
<1>12. ASSUME NEW id \in Ids, DeleteRequest(id)
      PROVE  AliasInv'
  BY <1>0, <1>12 DEF DeleteRequest, Readable, LinkedTo, Goto, Respond, Fail, Torn, Attempt, historyVars, diskVars, wsVars, requestVars
<1>13. CASE DeleteConfig
  BY <1>0, <1>13 DEF DeleteConfig, Goto, Respond, Fail, Torn, Attempt, historyVars, diskVars, wsVars, requestVars
<1>14. CASE DeleteDotWetman
  BY <1>0, <1>14 DEF DeleteDotWetman, Goto, Respond, Fail, Torn, Attempt, historyVars, diskVars, wsVars, requestVars
<1>15. CASE DeleteWsEntry
  BY <1>0, <1>15 DEF DeleteWsEntry, Goto, Respond, Fail, Torn, Attempt, historyVars, diskVars, wsVars, requestVars
<1>16. CASE DeleteWsDir
  BY <1>0, <1>16 DEF DeleteWsDir, Goto, Respond, Fail, Torn, Attempt, historyVars, diskVars, wsVars, requestVars
<1>17. CASE DeleteWsFails
  BY <1>0, <1>17 DEF DeleteWsFails, Goto, Respond, Fail, Torn, Attempt, historyVars, diskVars, wsVars, requestVars
<1>18. CASE Crash
  BY <1>0, <1>18 DEF Crash, Goto, Respond, Fail, Torn, Attempt, historyVars, diskVars, wsVars, requestVars
<1>19. ASSUME NEW p \in Projects, UserRemovesDotWetman(p)
      PROVE  AliasInv'
  BY <1>0, <1>19 DEF UserRemovesDotWetman, LinkedTo, Goto, Respond, Fail, Torn, Attempt, historyVars, diskVars, wsVars, requestVars
<1>20. CASE UNCHANGED vars
  BY <1>20 DEF vars, historyVars, diskVars, wsVars, requestVars
<1>21. ASSUME NEW i \in Ids, TaskNewRequest(i)
      PROVE  AliasInv'
  BY <1>0, <1>21 DEF TaskNewRequest, Readable, Listed, Goto, Respond, Fail, Torn, Attempt, historyVars, diskVars, wsVars, requestVars
<1>22. CASE TaskNewFails
  BY <1>0, <1>22 DEF TaskNewFails, Goto, Respond, Fail, Torn, Attempt, historyVars, diskVars, wsVars, requestVars
<1>23. CASE TaskNewOpenConfig
  BY <1>0, <1>23 DEF TaskNewOpenConfig, HasConfig, Goto, Respond, Fail, Torn, Attempt, historyVars, diskVars, wsVars, requestVars
<1>24. CASE TaskNewWriteConfig
  BY <1>0, <1>24 DEF TaskNewWriteConfig, HasConfig, Goto, Respond, Fail, Torn, Attempt, historyVars, diskVars, wsVars, requestVars
<1>. QED
  BY <1>1, <1>2, <1>3, <1>4, <1>5, <1>6, <1>7, <1>8, <1>9, <1>10, <1>11, <1>12, <1>13, <1>14, <1>15, <1>16, <1>17, <1>18, <1>19, <1>20,
     <1>21, <1>22, <1>23, <1>24
     DEF Next, Boot, WorkspaceInit, WorkspaceDelete, TaskNew, Environment, InitRefused, DeleteRefused, TaskNewRefused, vars

LEMMA AliasInductive == Spec => [](TypeInv /\ AliasInv)
<1>1. Init => AliasInv
  BY DEF Init, AliasInv, AtWork, HandlerSteps, InitSteps, DeleteSteps, TaskSteps
<1>. QED
  BY <1>1, InitTypeInv, TypeInvStep, AliasInvStep, PTL DEF Spec

\* Only a torn id leads to the config of another workspace, through any number
\* of crashes, failed calls and removed configs.
THEOREM AliasesAreTorn == Spec => []AliasNeedsInterruption
<1>1. TypeInv /\ AliasInv => AliasNeedsInterruption
  BY DEF TypeInv, TypeOK, DiskOK, Ids, AliasInv, AtWork, AliasNeedsInterruption, Readable, Listed
<1>. QED
  BY <1>1, AliasInductive, PTL

-----------------------------------------------------------------------------
\* Behind AckedSurvives: until a call fails nothing the counter needs is lost,
\* what was acknowledged is whole and is not what a handler works on, and an
\* init has made what the steps behind it should have made.
NoLapse == ~lapsed /\ ~unsaved /\ (pc # "down" => counterFile # Missing)
ConfigKept(p, id) ==
    \/ dotWetman[p] = id
    \/ dotWetman[p] = Blank /\ (id \in configHit \/ (pc = "rewrite_config" /\ curProject = p /\ curId = id))
Whole(p, id) ==
    ConfigKept(p, id) /\ link[id] = p /\ id \in wsDirs /\ id \in tasksDirs
LiveWhole == \A p \in Projects, id \in Ids : <<p, id>> \in live => Whole(p, id)
WorkApart ==
    /\ pc \in HandlerSteps => \A id \in Ids : <<curProject, id>> \notin live
    /\ pc \in InitSteps => \A p \in Projects : <<p, curId>> \notin live
    /\ pc \in DeleteSteps => \A p \in Projects, id \in Ids :
                             <<p, id>> \in live => p # curProject /\ id # curId
    /\ pc \in TaskSteps => \A id \in Ids : <<curProject, id>> \in live => id = curId
InitDone ==
    /\ pc \in InitSteps \ {"ws_dir"} => curId \in wsDirs
    /\ pc = "symlink" => link[curId] = NoProject
    /\ pc \in {"tasks_dir", "write_config"} => link[curId] = curProject
    /\ pc = "write_config" => curId \in tasksDirs
AckedInv == faults = 0 => NoLapse /\ LiveWhole /\ WorkApart /\ InitDone

\* Without faults, no step takes from an acknowledged workspace.
LEMMA AckedInvStep == TypeInv /\ CounterInv /\ AckedInv /\ [Next]_vars => AckedInv'
<1> SUFFICES ASSUME TypeInv, CounterInv, AckedInv, [Next]_vars, faults' = 0
             PROVE  AckedInv'
  BY DEF AckedInv
<1> USE DEF AckedInv, NoLapse, LiveWhole, Whole, ConfigKept, WorkApart, InitDone, HandlerSteps, InitSteps,
            DeleteSteps, TaskSteps
<1>0. /\ dotWetman \in [Projects -> Int] /\ link \in [Ids -> Projects \cup {NoProject}]
      /\ NoProject \notin Projects
      /\ Ids \subseteq Nat /\ faults \in Nat
      /\ live \subseteq Projects \X Ids
      /\ pc \in HandlerSteps \cup TaskSteps => curProject \in Projects
      /\ pc \in InitSteps \cup DeleteSteps \cup TaskSteps => curId \in Ids
      /\ pc = "issue" /\ ~lapsed => \A id \in wsDirs : id # nextId
  BY ConstantsAssumption
     DEF TypeInv, TypeOK, DiskOK, HistoryOK, RequestOK, Ids, CounterInv, CounterAhead, DirsIssued, BootSteps
<1> HIDE DEF TypeInv, CounterInv
<1>1. CASE BootCreate
  BY <1>0, <1>1 DEF BootCreate, CounterExists, Goto, Respond, Fail, Torn, Attempt, historyVars, diskVars, wsVars, requestVars
<1>2. CASE BootWrite
  BY <1>0, <1>2 DEF BootWrite, Goto, Respond, Fail, Torn, Attempt, historyVars, diskVars, wsVars, requestVars
<1>3. CASE BootRead
  <2>1. PICK ok \in BOOLEAN : Attempt(ok) /\ lapsed' = (lapsed \/ ~ok)
    BY <1>3, Zenon DEF BootRead
  <2>2. ok /\ faults = 0
    BY <1>0, <2>1 DEF Attempt
  <2>3. ~lapsed => ~lapsed'
    BY <2>1, <2>2, Zenon
  <2>. QED
    BY <1>3, <2>2, <2>3 DEF BootRead, Goto, diskVars, wsVars
<1>4. ASSUME NEW p \in Projects, InitRequest(p)
      PROVE  AckedInv'
  BY <1>0, <1>4 DEF InitRequest, Goto, Respond, Fail, Torn, Attempt, historyVars, diskVars, wsVars, requestVars
<1>5. CASE InitCreateConfig
  BY <1>0, <1>5 DEF InitCreateConfig, Goto, Respond, Fail, Torn, Attempt, historyVars, diskVars, wsVars, requestVars
<1>6. CASE NextWorkspaceId
  <2>1. PICK ok \in BOOLEAN :
          /\ Attempt(ok)
          /\ counterFile' = IF ok /\ counterFile # Missing THEN nextId + 1 ELSE counterFile
          /\ unsaved' = ~(ok /\ counterFile # Missing)
    BY <1>6, Zenon DEF NextWorkspaceId, FreshId, NextValue
  <2>2. ok /\ faults = 0
    BY <1>0, <2>1 DEF Attempt
  <2>3. /\ pc = "issue" /\ pc' = "ws_dir" /\ curId' = nextId
        /\ UNCHANGED <<dotWetman, wsDirs, link, tasksDirs, curProject, live, lapsed, configHit>>
    BY <1>6 DEF NextWorkspaceId, FreshId, wsVars
  <2>4. ~unsaved'
    BY <2>1, <2>2, <2>3, Zenon
  <2>5. counterFile' # Missing
    BY <1>0, <2>1, <2>2, <2>3
       DEF TypeInv, TypeOK, CounterInv, CounterAhead, DirsIssued, BootSteps
  <2>6. \A p \in Projects : <<p, nextId>> \notin live
    BY <1>0, <2>2, <2>3
  <2>. QED
    BY <2>2, <2>3, <2>4, <2>5, <2>6
<1>7. CASE InitWsDir
  BY <1>0, <1>7 DEF InitWsDir, Goto, Respond, Fail, Torn, Attempt, historyVars, diskVars, wsVars, requestVars
<1>8. CASE InitUnlink
  BY <1>0, <1>8 DEF InitUnlink, Goto, Respond, Fail, Torn, Attempt, historyVars, diskVars, wsVars, requestVars
<1>9. CASE InitSymlink
  BY <1>0, <1>9 DEF InitSymlink, LinkMade, Goto, Respond, Fail, Torn, Attempt, historyVars, diskVars, wsVars, requestVars
<1>10. CASE InitTasksDir
  BY <1>0, <1>10 DEF InitTasksDir, Goto, Respond, Fail, Torn, Attempt, historyVars, diskVars, wsVars, requestVars
<1>11. CASE InitWriteConfig
  <2>1. /\ pc = "write_config" /\ pc' = "idle" /\ faults = 0
        /\ UNCHANGED <<counterFile, wsDirs, link, tasksDirs, configHit>>
    BY <1>0, <1>11 DEF InitWriteConfig, HasConfig, Respond, Fail, Attempt, wsVars
  <2>2. UNCHANGED <<lapsed, unsaved>>
    BY <1>11 DEF InitWriteConfig
  <2>3. NoLapse'
    BY <2>1, <2>2, Zenon
  <2>4. \/ UNCHANGED <<dotWetman, live>>
        \/ /\ dotWetman' = [dotWetman EXCEPT ![curProject] = curId]
           /\ live' = live \cup {<<curProject, curId>>}
    BY <1>0, <1>11, <2>1 DEF InitWriteConfig, Attempt
  <2>5. ASSUME NEW p \in Projects, NEW id \in Ids, <<p, id>> \in live'
        PROVE  Whole(p, id)'
    <3>1. CASE <<p, id>> = <<curProject, curId>>
      BY <1>0, <2>1, <2>4, <2>5, <3>1
    <3>2. CASE <<p, id>> \in live
      <4>1. Whole(p, id) /\ id # curId
        BY <2>1, <3>2
      <4>2. p # curProject
        BY <2>1, <3>2
      <4>. QED
        BY <1>0, <2>1, <2>4, <4>1, <4>2
    <3>. QED
      BY <2>4, <2>5, <3>1, <3>2
  <2>. QED
    BY <2>1, <2>3, <2>5
<1>12. ASSUME NEW id \in Ids, DeleteRequest(id)
      PROVE  AckedInv'
  BY <1>0, <1>12 DEF DeleteRequest, Readable, LinkedTo, Goto, Respond, Fail, Torn, Attempt, historyVars, diskVars, wsVars, requestVars
<1>13. CASE DeleteConfig
  BY <1>0, <1>13 DEF DeleteConfig, Goto, Respond, Fail, Torn, Attempt, historyVars, diskVars, wsVars, requestVars
<1>14. CASE DeleteDotWetman
  BY <1>0, <1>14 DEF DeleteDotWetman, Goto, Respond, Fail, Torn, Attempt, historyVars, diskVars, wsVars, requestVars
<1>15. CASE DeleteWsEntry
  BY <1>0, <1>15 DEF DeleteWsEntry, Goto, Respond, Fail, Torn, Attempt, historyVars, diskVars, wsVars, requestVars
<1>16. CASE DeleteWsDir
  BY <1>0, <1>16 DEF DeleteWsDir, Goto, Respond, Fail, Torn, Attempt, historyVars, diskVars, wsVars, requestVars
<1>17. CASE DeleteWsFails
  BY <1>0, <1>17 DEF DeleteWsFails, Goto, Respond, Fail, Torn, Attempt, historyVars, diskVars, wsVars, requestVars
<1>18. CASE Crash
  BY <1>0, <1>18 DEF Crash, Goto, Respond, Fail, Torn, Attempt, historyVars, diskVars, wsVars, requestVars
<1>19. ASSUME NEW p \in Projects, UserRemovesDotWetman(p)
      PROVE  AckedInv'
  BY <1>0, <1>19 DEF UserRemovesDotWetman, LinkedTo, Goto, Respond, Fail, Torn, Attempt, historyVars, diskVars, wsVars, requestVars
<1>20. CASE UNCHANGED vars
  <2>1. /\ UNCHANGED <<counterFile, dotWetman, wsDirs, link, tasksDirs, pc, curProject, curId>>
        /\ UNCHANGED <<faults, live, configHit>>
    BY <1>20 DEF vars, historyVars, diskVars, wsVars, requestVars
  <2>2. UNCHANGED <<lapsed, unsaved>>
    BY <1>20 DEF vars, historyVars
  <2>3. ~lapsed /\ ~unsaved => ~lapsed' /\ ~unsaved'
    BY <2>2, Zenon
  <2>. QED
    BY <2>1, <2>3
<1>21. ASSUME NEW i \in Ids, TaskNewRequest(i)
      PROVE  AckedInv'
  BY <1>0, <1>21 DEF TaskNewRequest, Readable, Listed, Goto, Respond, Fail, Torn, Attempt, historyVars, diskVars, wsVars, requestVars
<1>22. CASE TaskNewFails
  BY <1>0, <1>22 DEF TaskNewFails, Goto, Respond, Fail, Torn, Attempt, historyVars, diskVars, wsVars, requestVars
<1>23. CASE TaskNewOpenConfig
  BY <1>0, <1>23 DEF TaskNewOpenConfig, HasConfig, Goto, Respond, Fail, Torn, Attempt, historyVars, diskVars, wsVars, requestVars
<1>24. CASE TaskNewWriteConfig
  BY <1>0, <1>24 DEF TaskNewWriteConfig, HasConfig, Goto, Respond, Fail, Torn, Attempt, historyVars, diskVars, wsVars, requestVars
<1>. QED
  BY <1>1, <1>2, <1>3, <1>4, <1>5, <1>6, <1>7, <1>8, <1>9, <1>10, <1>11, <1>12, <1>13, <1>14, <1>15, <1>16, <1>17, <1>18, <1>19, <1>20,
     <1>21, <1>22, <1>23, <1>24
     DEF Next, Boot, WorkspaceInit, WorkspaceDelete, TaskNew, Environment, InitRefused, DeleteRefused, TaskNewRefused, vars

LEMMA AckedInductive == Spec => [](TypeInv /\ CounterInv /\ AckedInv)
<1>1. Init => AckedInv
  BY DEF Init, AckedInv, NoLapse, LiveWhole, Whole, WorkApart, InitDone, HandlerSteps, InitSteps, DeleteSteps, TaskSteps
<1>. QED
  BY <1>1, Inductive, AckedInvStep, PTL DEF Spec

\* While no system call fails, what WorkspaceInit acknowledged keeps its link and
\* its directories, and its config, which is unreadable only while a TaskNew
\* rewrites it and after a crash that cut such a rewrite.
THEOREM AckedStaysWhole == Spec => []AckedSurvives
<1>1. TypeInv /\ AckedInv => AckedSurvives
  BY DEF TypeInv, TypeOK, HistoryOK, AckedInv, LiveWhole, Whole, ConfigKept, Rewriting, AckedSurvives
<1>. QED
  BY <1>1, AckedInductive, PTL

-----------------------------------------------------------------------------

\* The commands add nothing to what the server does to the registry.
LEMMA DeleteStep ==
    ASSUME TypeInv, NEW id, DeleteRequest(id) \/ DeleteRefused(id)
    PROVE  [Next]_vars
<1>1. CASE DeleteRequest(id)
  <2>1. id \in Ids
    BY <1>1 DEF DeleteRequest, Readable, TypeInv, TypeOK, DiskOK
  <2>. QED
    BY <1>1, <2>1 DEF Next, WorkspaceDelete
<1>2. CASE DeleteRefused(id)
  BY <1>2 DEF DeleteRefused
<1>. QED
  BY <1>1, <1>2

LEMMA TaskNewStep ==
    ASSUME TypeInv, NEW id, TaskNewRequest(id) \/ TaskNewRefused(id)
    PROVE  [Next]_vars
<1>1. CASE TaskNewRequest(id)
  <2>1. id \in Ids
    BY <1>1 DEF TaskNewRequest, Readable, TypeInv, TypeOK, DiskOK
  <2>. QED
    BY <1>1, <2>1 DEF Next, TaskNew
<1>2. CASE TaskNewRefused(id)
  BY <1>2 DEF TaskNewRefused
<1>. QED
  BY <1>1, <1>2

LEMMA ServerStep == TypeInv /\ [ProjectNext]_projectVars => [Next]_vars
<1> SUFFICES ASSUME TypeInv, [ProjectNext]_projectVars
             PROVE  [Next]_vars
  OBVIOUS
<1>1. CASE Others
  BY <1>1 DEF Others
<1>2. ASSUME NEW c \in Intents, NEW p \in Projects,
             \/ RunTaskGet(c, p) \/ RunTaskList(c, p) \/ RunTaskDelete(c, p)
             \/ RunTaskEdit(c, p) \/ RunTaskPrint(c, p)
      PROVE  UNCHANGED vars
  <2>1. PICK then : TaskRequest(c, p, then)
    BY <1>2 DEF RunTaskGet, RunTaskList, RunTaskDelete, RunTaskEdit, RunTaskPrint
  <2>. QED
    BY <2>1 DEF TaskRequest, Hold, projectVars
<1>3. ASSUME NEW c \in Intents, NEW p \in Projects, RunWorkspaceInit(c, p)
      PROVE  [Next]_vars
  BY <1>3 DEF RunWorkspaceInit, InitRefused, Next, WorkspaceInit
<1>4. ASSUME NEW c \in Intents, NEW p \in Projects, RunWorkspaceDelete(c, p)
      PROVE  [Next]_vars
  <2>1. CASE Hold(c, p, "delete")
    BY <2>1 DEF Hold
  <2>2. CASE \E id : DeleteRequest(id) \/ DeleteRefused(id)
    BY <2>2, DeleteStep
  <2>. QED
    BY <1>4, <2>1, <2>2 DEF RunWorkspaceDelete
<1>8. ASSUME NEW c \in Intents, NEW p \in Projects, RunTaskNew(c, p)
      PROVE  [Next]_vars
  <2>1. CASE Hold(c, p, "new")
    BY <2>1 DEF Hold
  <2>2. CASE \E id : TaskNewRequest(id) \/ TaskNewRefused(id)
    BY <2>2, TaskNewStep
  <2>. QED
    BY <1>8, <2>1, <2>2 DEF RunTaskNew
<1>5. CASE AnswerDelete \/ AnswerNew
  BY <1>5, DeleteStep, TaskNewStep DEF AnswerDelete, AnswerNew
<1>6. CASE AnswerTask \/ AnswerPath \/ FileDone \/ Interrupt
  BY <1>6 DEF AnswerTask, AnswerPath, FileDone, Interrupt
<1>7. CASE UNCHANGED projectVars
  BY <1>7 DEF projectVars
<1>. QED
  BY <1>1, <1>2, <1>3, <1>4, <1>5, <1>6, <1>7, <1>8 DEF ProjectNext

-----------------------------------------------------------------------------
\* An id belongs to a project: it was issued, leads to no other project, and is
\* not the one a running init is about to link.
Owned(p, id) ==
    /\ id \in issued
    /\ link[id] \in {p, NoProject}
    /\ ~(pc \in InitSteps /\ curId = id)

\* What belongs to a project stays its own, as long as no counter value is lost:
\* NextWorkspaceId issues another id, and only the init of an id links it.
LEMMA OwnedStays ==
    ASSUME NEW p \in Projects, NEW id \in Ids,
           TypeInv, CounterInv, [Next]_vars, ~lapsed, Owned(p, id)
    PROVE  Owned(p, id)'
<1> USE DEF Owned, InitSteps, DeleteSteps, TaskSteps
<1>0. /\ link \in [Ids -> Projects \cup {NoProject}]
      /\ Ids \subseteq Nat
      /\ pc \in InitSteps \cup DeleteSteps => curId \in Ids
      /\ pc = "issue" => id # nextId
  BY ConstantsAssumption
     DEF TypeInv, TypeOK, DiskOK, RequestOK, Ids, CounterInv, CounterAhead, BootSteps
<1> HIDE DEF TypeInv, CounterInv
<1>1. CASE BootCreate
  BY <1>0, <1>1 DEF BootCreate, CounterExists, Goto, Respond, Fail, Torn, Attempt, historyVars, diskVars, wsVars, requestVars
<1>2. CASE BootWrite
  BY <1>0, <1>2 DEF BootWrite, Goto, Respond, Fail, Torn, Attempt, historyVars, diskVars, wsVars, requestVars
<1>3. CASE BootRead
  BY <1>0, <1>3 DEF BootRead, Goto, Respond, Fail, Torn, Attempt, historyVars, diskVars, wsVars, requestVars
<1>4. ASSUME NEW q \in Projects, InitRequest(q)
      PROVE  Owned(p, id)'
  BY <1>0, <1>4 DEF InitRequest, Goto, Respond, Fail, Torn, Attempt, historyVars, diskVars, wsVars, requestVars
<1>5. CASE InitCreateConfig
  BY <1>0, <1>5 DEF InitCreateConfig, Goto, Respond, Fail, Torn, Attempt, historyVars, diskVars, wsVars, requestVars
<1>6. CASE NextWorkspaceId
  BY <1>0, <1>6 DEF NextWorkspaceId, FreshId, NextValue, Goto, Respond, Fail, Torn, Attempt, historyVars, diskVars, wsVars, requestVars
<1>7. CASE InitWsDir
  BY <1>0, <1>7 DEF InitWsDir, Goto, Respond, Fail, Torn, Attempt, historyVars, diskVars, wsVars, requestVars
<1>8. CASE InitUnlink
  BY <1>0, <1>8 DEF InitUnlink, Goto, Respond, Fail, Torn, Attempt, historyVars, diskVars, wsVars, requestVars
<1>9. CASE InitSymlink
  BY <1>0, <1>9 DEF InitSymlink, LinkMade, Goto, Respond, Fail, Torn, Attempt, historyVars, diskVars, wsVars, requestVars
<1>10. CASE InitTasksDir
  BY <1>0, <1>10 DEF InitTasksDir, Goto, Respond, Fail, Torn, Attempt, historyVars, diskVars, wsVars, requestVars
<1>11. CASE InitWriteConfig
  BY <1>0, <1>11 DEF InitWriteConfig, HasConfig, Goto, Respond, Fail, Torn, Attempt, historyVars, diskVars, wsVars, requestVars
<1>12. ASSUME NEW i \in Ids, DeleteRequest(i)
      PROVE  Owned(p, id)'
  BY <1>0, <1>12 DEF DeleteRequest, Readable, LinkedTo, Goto, Respond, Fail, Torn, Attempt, historyVars, diskVars, wsVars, requestVars
<1>13. CASE DeleteConfig
  BY <1>0, <1>13 DEF DeleteConfig, Goto, Respond, Fail, Torn, Attempt, historyVars, diskVars, wsVars, requestVars
<1>14. CASE DeleteDotWetman
  BY <1>0, <1>14 DEF DeleteDotWetman, Goto, Respond, Fail, Torn, Attempt, historyVars, diskVars, wsVars, requestVars
<1>15. CASE DeleteWsEntry
  BY <1>0, <1>15 DEF DeleteWsEntry, Goto, Respond, Fail, Torn, Attempt, historyVars, diskVars, wsVars, requestVars
<1>16. CASE DeleteWsDir
  BY <1>0, <1>16 DEF DeleteWsDir, Goto, Respond, Fail, Torn, Attempt, historyVars, diskVars, wsVars, requestVars
<1>17. CASE DeleteWsFails
  BY <1>0, <1>17 DEF DeleteWsFails, Goto, Respond, Fail, Torn, Attempt, historyVars, diskVars, wsVars, requestVars
<1>18. CASE Crash
  BY <1>0, <1>18 DEF Crash, Goto, Respond, Fail, Torn, Attempt, historyVars, diskVars, wsVars, requestVars
<1>19. ASSUME NEW q \in Projects, UserRemovesDotWetman(q)
      PROVE  Owned(p, id)'
  BY <1>0, <1>19 DEF UserRemovesDotWetman, LinkedTo, Goto, Respond, Fail, Torn, Attempt, historyVars, diskVars, wsVars, requestVars
<1>20. CASE UNCHANGED vars
  BY <1>0, <1>20 DEF vars, historyVars, diskVars, wsVars, requestVars
<1>21. ASSUME NEW i \in Ids, TaskNewRequest(i)
      PROVE  Owned(p, id)'
  BY <1>0, <1>21 DEF TaskNewRequest, Readable, Listed, Goto, Respond, Fail, Torn, Attempt, historyVars, diskVars, wsVars, requestVars
<1>22. CASE TaskNewFails
  BY <1>0, <1>22 DEF TaskNewFails, Goto, Respond, Fail, Torn, Attempt, historyVars, diskVars, wsVars, requestVars
<1>23. CASE TaskNewOpenConfig
  BY <1>0, <1>23 DEF TaskNewOpenConfig, HasConfig, Goto, Respond, Fail, Torn, Attempt, historyVars, diskVars, wsVars, requestVars
<1>24. CASE TaskNewWriteConfig
  BY <1>0, <1>24 DEF TaskNewWriteConfig, HasConfig, Goto, Respond, Fail, Torn, Attempt, historyVars, diskVars, wsVars, requestVars
<1>. QED
  BY <1>1, <1>2, <1>3, <1>4, <1>5, <1>6, <1>7, <1>8, <1>9, <1>10, <1>11, <1>12, <1>13, <1>14, <1>15, <1>16, <1>17, <1>18, <1>19, <1>20,
     <1>21, <1>22, <1>23, <1>24
     DEF Next, Boot, WorkspaceInit, WorkspaceDelete, TaskNew, Environment, InitRefused, DeleteRefused, TaskNewRefused, vars

-----------------------------------------------------------------------------
\* Behind ActsOnOwnProject: the id in the config of a project belongs to it, and
\* so does the id of the command that is held.
ConfigsOwned == \A p \in Projects : dotWetman[p] \in Ids => Owned(p, dotWetman[p])
LinkAtWork ==
    /\ \A id \in Ids \ issued : link[id] = NoProject
    /\ pc \in InitSteps => link[curId] \in {curProject, NoProject}
TaskOwned == pc \in TaskSteps => Owned(curProject, curId)
OwnedAtWork == LinkAtWork /\ ConfigsOwned /\ TaskOwned
HeldOwned ==
    held.project # NoProject =>
        held.project \in Projects /\ held.id \in Ids /\ Owned(held.project, held.id)
Phases == {"nothing", "answer", "new", "path", "delete", "file"}
HeldOK == held \in [then : Phases, project : Projects \cup {NoProject}, id : Ids \cup {NoId}]
OwnInv == HeldOK /\ (~lapsed => OwnedAtWork) /\ (~lapsed => HeldOwned)

LEMMA LapsedStays == [Next]_vars /\ ~lapsed' => ~lapsed
<1> SUFFICES ASSUME [Next]_vars, lapsed
             PROVE  lapsed'
  BY Zenon
<1> USE DEF historyVars
<1>1. CASE BootRead \/ Crash
  BY <1>1, Zenon DEF BootRead, Crash
<1>2. CASE UNCHANGED lapsed
  BY <1>2, Zenon
<1>. QED
  BY <1>1, <1>2 DEF Next, Boot, WorkspaceInit, WorkspaceDelete, TaskNew, Environment, InitRefused, DeleteRefused, TaskNewRefused,
           BootCreate, BootWrite, InitRequest, InitCreateConfig, NextWorkspaceId, InitWsDir, InitUnlink,
           InitSymlink, LinkMade, InitTasksDir, InitWriteConfig, DeleteRequest, DeleteConfig, DeleteDotWetman,
           DeleteWsEntry, DeleteWsDir, DeleteWsFails,
           TaskNewRequest, TaskNewFails, TaskNewOpenConfig, TaskNewWriteConfig, HasConfig, UserRemovesDotWetman, vars

\* Only the init of an id links it, after NextWorkspaceId issued it.
LEMMA LinkAtWorkStep ==
    ASSUME TypeInv, CounterInv, ~lapsed, LinkAtWork, [Next]_vars
    PROVE  LinkAtWork'
<1> USE DEF LinkAtWork, InitSteps, DeleteSteps, TaskSteps
<1>0. /\ link \in [Ids -> Projects \cup {NoProject}]
      /\ Ids \subseteq Nat
      /\ pc \in InitSteps \cup DeleteSteps => curProject \in Projects /\ curId \in Ids /\ curId \in issued
      /\ pc = "issue" => nextId \in Ids \ issued
  BY ConstantsAssumption
     DEF TypeInv, TypeOK, DiskOK, RequestOK, Ids, CounterInv, CounterAhead, DirsIssued, BootSteps
<1> HIDE DEF TypeInv, CounterInv
<1>1. CASE BootCreate
  BY <1>0, <1>1 DEF BootCreate, CounterExists, Goto, Respond, Fail, Torn, Attempt, historyVars, diskVars, wsVars, requestVars
<1>2. CASE BootWrite
  BY <1>0, <1>2 DEF BootWrite, Goto, Respond, Fail, Torn, Attempt, historyVars, diskVars, wsVars, requestVars
<1>3. CASE BootRead
  BY <1>0, <1>3 DEF BootRead, Goto, Respond, Fail, Torn, Attempt, historyVars, diskVars, wsVars, requestVars
<1>4. ASSUME NEW q \in Projects, InitRequest(q)
      PROVE  LinkAtWork'
  BY <1>0, <1>4 DEF InitRequest, Goto, Respond, Fail, Torn, Attempt, historyVars, diskVars, wsVars, requestVars
<1>5. CASE InitCreateConfig
  BY <1>0, <1>5 DEF InitCreateConfig, Goto, Respond, Fail, Torn, Attempt, historyVars, diskVars, wsVars, requestVars
<1>6. CASE NextWorkspaceId
  BY <1>0, <1>6 DEF NextWorkspaceId, FreshId, NextValue, Goto, Respond, Fail, Torn, Attempt, historyVars, diskVars, wsVars, requestVars
<1>7. CASE InitWsDir
  BY <1>0, <1>7 DEF InitWsDir, Goto, Respond, Fail, Torn, Attempt, historyVars, diskVars, wsVars, requestVars
<1>8. CASE InitUnlink
  BY <1>0, <1>8 DEF InitUnlink, Goto, Respond, Fail, Torn, Attempt, historyVars, diskVars, wsVars, requestVars
<1>9. CASE InitSymlink
  BY <1>0, <1>9 DEF InitSymlink, LinkMade, Goto, Respond, Fail, Torn, Attempt, historyVars, diskVars, wsVars, requestVars
<1>10. CASE InitTasksDir
  BY <1>0, <1>10 DEF InitTasksDir, Goto, Respond, Fail, Torn, Attempt, historyVars, diskVars, wsVars, requestVars
<1>11. CASE InitWriteConfig
  BY <1>0, <1>11 DEF InitWriteConfig, HasConfig, Goto, Respond, Fail, Torn, Attempt, historyVars, diskVars, wsVars, requestVars
<1>12. ASSUME NEW i \in Ids, DeleteRequest(i)
      PROVE  LinkAtWork'
  BY <1>0, <1>12 DEF DeleteRequest, Readable, LinkedTo, Goto, Respond, Fail, Torn, Attempt, historyVars, diskVars, wsVars, requestVars
<1>13. CASE DeleteConfig
  BY <1>0, <1>13 DEF DeleteConfig, Goto, Respond, Fail, Torn, Attempt, historyVars, diskVars, wsVars, requestVars
<1>14. CASE DeleteDotWetman
  BY <1>0, <1>14 DEF DeleteDotWetman, Goto, Respond, Fail, Torn, Attempt, historyVars, diskVars, wsVars, requestVars
<1>15. CASE DeleteWsEntry
  BY <1>0, <1>15 DEF DeleteWsEntry, Goto, Respond, Fail, Torn, Attempt, historyVars, diskVars, wsVars, requestVars
<1>16. CASE DeleteWsDir
  BY <1>0, <1>16 DEF DeleteWsDir, Goto, Respond, Fail, Torn, Attempt, historyVars, diskVars, wsVars, requestVars
<1>17. CASE DeleteWsFails
  BY <1>0, <1>17 DEF DeleteWsFails, Goto, Respond, Fail, Torn, Attempt, historyVars, diskVars, wsVars, requestVars
<1>18. CASE Crash
  BY <1>0, <1>18 DEF Crash, Goto, Respond, Fail, Torn, Attempt, historyVars, diskVars, wsVars, requestVars
<1>19. ASSUME NEW q \in Projects, UserRemovesDotWetman(q)
      PROVE  LinkAtWork'
  BY <1>0, <1>19 DEF UserRemovesDotWetman, LinkedTo, Goto, Respond, Fail, Torn, Attempt, historyVars, diskVars, wsVars, requestVars
<1>20. CASE UNCHANGED vars
  BY <1>0, <1>20 DEF vars, historyVars, diskVars, wsVars, requestVars
<1>21. ASSUME NEW i \in Ids, TaskNewRequest(i)
      PROVE  LinkAtWork'
  BY <1>0, <1>21 DEF TaskNewRequest, Readable, Listed, Goto, Respond, Fail, Torn, Attempt, historyVars, diskVars, wsVars, requestVars
<1>22. CASE TaskNewFails
  BY <1>0, <1>22 DEF TaskNewFails, Goto, Respond, Fail, Torn, Attempt, historyVars, diskVars, wsVars, requestVars
<1>23. CASE TaskNewOpenConfig
  BY <1>0, <1>23 DEF TaskNewOpenConfig, HasConfig, Goto, Respond, Fail, Torn, Attempt, historyVars, diskVars, wsVars, requestVars
<1>24. CASE TaskNewWriteConfig
  BY <1>0, <1>24 DEF TaskNewWriteConfig, HasConfig, Goto, Respond, Fail, Torn, Attempt, historyVars, diskVars, wsVars, requestVars
<1>. QED
  BY <1>1, <1>2, <1>3, <1>4, <1>5, <1>6, <1>7, <1>8, <1>9, <1>10, <1>11, <1>12, <1>13, <1>14, <1>15, <1>16, <1>17, <1>18, <1>19, <1>20,
     <1>21, <1>22, <1>23, <1>24
     DEF Next, Boot, WorkspaceInit, WorkspaceDelete, TaskNew, Environment, InitRefused, DeleteRefused, TaskNewRefused, vars

\* A config gets an id only from the init that linked it, or back from a TaskNew
\* that read it there.
LEMMA OwnedAtWorkStep ==
    ASSUME TypeInv, CounterInv, ~lapsed, OwnedAtWork, [Next]_vars
    PROVE  OwnedAtWork'
<1>0. /\ dotWetman \in [Projects -> {Absent, DirOnly, Blank} \cup Ids]
      /\ link \in [Ids -> Projects \cup {NoProject}]
      /\ NoProject \notin Projects
      /\ Ids \subseteq Nat
      /\ pc \in InitSteps \cup DeleteSteps \cup TaskSteps => curProject \in Projects /\ curId \in Ids
  BY ConstantsAssumption DEF TypeInv, TypeOK, DiskOK, RequestOK, Ids
<1>1. LinkAtWork'
  BY LinkAtWorkStep DEF OwnedAtWork
<1>2. ASSUME NEW p \in Projects, NEW id \in Ids, dotWetman'[p] = id
      PROVE  Owned(p, id)'
  <2>1. CASE dotWetman[p] = id
    BY <2>1, OwnedStays DEF OwnedAtWork, ConfigsOwned
  <2>2. CASE InitWriteConfig /\ dotWetman[p] # id
    <3>1. p = curProject /\ id = curId /\ pc' = "idle" /\ pc = "write_config"
      BY <1>0, <1>2, <2>2 DEF InitWriteConfig, HasConfig, Respond, Fail, Torn, InitSteps, Blank, Ids
    <3>2. link' = link /\ issued' = issued
      BY <2>2 DEF InitWriteConfig, wsVars
    <3>3. curId \in issued /\ link[curId] \in {curProject, NoProject}
      BY <3>1 DEF CounterInv, DirsIssued, InitSteps, OwnedAtWork, LinkAtWork
    <3>. QED
      BY <3>1, <3>2, <3>3 DEF Owned, InitSteps
  <2>3. CASE TaskNewWriteConfig /\ dotWetman[p] # id
    <3>1. p = curProject /\ id = curId
      BY <1>0, <1>2, <2>3 DEF TaskNewWriteConfig, HasConfig, TaskSteps
    <3>2. Owned(p, id)
      BY <2>3, <3>1 DEF TaskNewWriteConfig, OwnedAtWork, TaskOwned, TaskSteps
    <3>. QED
      BY <3>2, OwnedStays
  <2>4. CASE ~InitWriteConfig /\ ~TaskNewWriteConfig /\ dotWetman[p] # id
    <3>1. dotWetman'[p] \in {dotWetman[p], Absent, DirOnly, Blank}
      BY <1>0, <2>4
       DEF Next, Boot, WorkspaceInit, WorkspaceDelete, TaskNew, Environment, InitRefused, DeleteRefused,
           TaskNewRefused, BootCreate, BootWrite, BootRead, InitRequest, InitCreateConfig, NextWorkspaceId,
           InitWsDir, InitUnlink, InitSymlink, InitTasksDir, DeleteRequest, DeleteConfig, DeleteDotWetman,
           DeleteWsEntry, DeleteWsDir, DeleteWsFails, TaskNewRequest, TaskNewFails, TaskNewOpenConfig,
           Crash, UserRemovesDotWetman, vars, diskVars
    <3>. QED
      BY <1>2, <2>4, <3>1, ConstantsAssumption DEF Ids, Absent, DirOnly, Blank
  <2>. QED
    BY <2>1, <2>2, <2>3, <2>4
<1>3. ConfigsOwned'
  <2> SUFFICES ASSUME NEW p \in Projects, dotWetman'[p] \in Ids
               PROVE  Owned(p, dotWetman[p])'
    BY DEF ConfigsOwned
  <2>1. PICK id \in Ids : dotWetman'[p] = id
    OBVIOUS
  <2>2. Owned(p, id)'
    BY <1>2, <2>1
  <2>. QED
    BY <2>1, <2>2 DEF Owned
<1>4. TaskOwned'
  <2> SUFFICES ASSUME pc' \in TaskSteps
               PROVE  Owned(curProject, curId)'
    BY DEF TaskOwned
  <2>1. PICK p \in Projects, id \in Ids : curProject' = p /\ curId' = id /\ Owned(p, id)
    <3>1. CASE \E i \in Ids : TaskNewRequest(i)
      <4>1. PICK i \in Ids : TaskNewRequest(i)
        BY <3>1
      <4>2. curProject' = link[i] /\ curId' = dotWetman[link[i]]
            /\ link[i] \in Projects /\ dotWetman[link[i]] \in Ids
        BY <1>0, <4>1 DEF TaskNewRequest, Readable, Listed, TaskSteps, requestVars
      <4>. QED
        BY <4>2 DEF OwnedAtWork, ConfigsOwned
    <3>2. CASE ~\E i \in Ids : TaskNewRequest(i)
      <4>1. pc \in TaskSteps /\ curProject' = curProject /\ curId' = curId
        BY <3>2
       DEF Next, Boot, WorkspaceInit, WorkspaceDelete, TaskNew, Environment, InitRefused, DeleteRefused,
           TaskNewRefused, BootCreate, BootWrite, BootRead, InitRequest, InitCreateConfig, NextWorkspaceId,
           InitWsDir, InitUnlink, InitSymlink, InitTasksDir, InitWriteConfig, DeleteRequest, DeleteConfig,
           DeleteDotWetman, DeleteWsEntry, DeleteWsDir, DeleteWsFails, TaskNewFails, TaskNewOpenConfig,
           TaskNewWriteConfig, Crash, UserRemovesDotWetman, vars, requestVars, TaskSteps, Goto, Respond, Fail
      <4>. QED
        BY <1>0, <4>1 DEF OwnedAtWork, TaskOwned
    <3>. QED
      BY <3>1, <3>2
  <2>2. Owned(p, id)'
    BY <2>1, OwnedStays
  <2>. QED
    BY <2>1, <2>2 DEF Owned
<1>. QED
  BY <1>1, <1>3, <1>4 DEF OwnedAtWork

\* A step of a command: it takes the id from its project's config, or keeps what
\* it has, or ends.
HeldMoves ==
    \/ held'.project = NoProject
    \/ held'.project = held.project /\ held'.id = held.id
    \/ /\ held'.project \in Projects /\ held'.id = dotWetman[held'.project]
       /\ held'.id \in Ids /\ UNCHANGED vars

LEMMA HeldStep ==
    ASSUME HeldOK, [ProjectNext]_projectVars
    PROVE  HeldOK' /\ HeldMoves
<1>1. ASSUME NEW c, NEW p \in Projects, NEW then \in Phases, Hold(c, p, then)
      PROVE  HeldOK' /\ HeldMoves
  BY <1>1 DEF Hold, ConfigReadable, HeldOK, HeldMoves
<1>2. ASSUME held' = held
      PROVE  HeldOK' /\ HeldMoves
  BY <1>2 DEF HeldOK, HeldMoves
<1>3. ASSUME held' = Nothing
      PROVE  HeldOK' /\ HeldMoves
  BY <1>3 DEF Nothing, HeldOK, Phases, HeldMoves
<1>4. CASE AnswerPath
  BY <1>3, <1>4 DEF AnswerPath, HeldOK, Phases, HeldMoves
<1>5. CASE Others
  BY <1>2, <1>3, <1>5 DEF Others
<1>6. ASSUME NEW c \in Intents, NEW p \in Projects,
             \/ RunTaskGet(c, p) \/ RunTaskList(c, p) \/ RunTaskDelete(c, p)
             \/ RunTaskEdit(c, p) \/ RunTaskPrint(c, p)
      PROVE  HeldOK' /\ HeldMoves
  <2>1. PICK then \in Phases : TaskRequest(c, p, then)
    BY <1>6 DEF Phases, RunTaskGet, RunTaskList, RunTaskDelete, RunTaskEdit, RunTaskPrint
  <2>2. CASE Hold(c, p, then)
    BY <1>1, <2>2
  <2>3. CASE UNCHANGED projectVars
    BY <1>2, <2>3 DEF projectVars, commandVars
  <2>. QED
    BY <2>1, <2>2, <2>3 DEF TaskRequest
<1>7. ASSUME NEW c \in Intents, NEW p \in Projects,
             RunTaskNew(c, p) \/ RunWorkspaceInit(c, p) \/ RunWorkspaceDelete(c, p)
      PROVE  HeldOK' /\ HeldMoves
  <2>1. Hold(c, p, "new") \/ Hold(c, p, "delete") \/ held' = held
    BY <1>7 DEF RunTaskNew, RunWorkspaceInit, RunWorkspaceDelete
  <2>2. "delete" \in Phases /\ "new" \in Phases
    BY DEF Phases
  <2>. QED
    BY <1>1, <1>2, <2>1, <2>2
<1>8. CASE AnswerDelete \/ AnswerNew \/ AnswerTask \/ FileDone \/ Interrupt
  BY <1>3, <1>8 DEF AnswerDelete, AnswerNew, AnswerTask, FileDone, Interrupt
<1>9. CASE UNCHANGED projectVars
  BY <1>2, <1>9 DEF projectVars, commandVars
<1>. QED
  <2>1. ASSUME NEW c \in Intents, NEW p \in Projects,
               \/ RunTaskNew(c, p) \/ RunTaskGet(c, p) \/ RunTaskList(c, p) \/ RunTaskDelete(c, p)
               \/ RunTaskEdit(c, p) \/ RunTaskPrint(c, p)
               \/ RunWorkspaceInit(c, p) \/ RunWorkspaceDelete(c, p)
        PROVE  HeldOK' /\ HeldMoves
    BY <1>6, <1>7, <2>1
  <2>2. CASE Others \/ AnswerDelete \/ AnswerNew \/ AnswerTask \/ AnswerPath \/ FileDone \/ Interrupt
    BY <1>4, <1>5, <1>8, <2>2
  <2>. QED
    BY <1>9, <2>1, <2>2 DEF ProjectNext

LEMMA OwnInvStep == TypeInv /\ CounterInv /\ OwnInv /\ [ProjectNext]_projectVars => OwnInv'
<1> SUFFICES ASSUME TypeInv, CounterInv, OwnInv, [ProjectNext]_projectVars
             PROVE  OwnInv'
  OBVIOUS
<1>1. [Next]_vars
  BY ServerStep
<1>2. ~lapsed' => OwnedAtWork'
  BY <1>1, LapsedStays, OwnedAtWorkStep DEF OwnInv
<1>3. HeldOK'
  BY HeldStep DEF OwnInv
<1>4. ASSUME ~lapsed', held'.project # NoProject
      PROVE  held'.project \in Projects /\ held'.id \in Ids /\ Owned(held.project, held.id)'
  <2>1. ~lapsed
    BY <1>1, <1>4, LapsedStays, Zenon
  <2>2. PICK p \in Projects, id \in Ids : held'.project = p /\ held'.id = id /\ Owned(p, id)
    <3>1. CASE held'.project = held.project /\ held'.id = held.id
      BY <1>4, <2>1, <3>1 DEF OwnInv, HeldOwned
    <3>2. CASE /\ held'.project \in Projects /\ held'.id = dotWetman[held'.project]
               /\ held'.id \in Ids
      BY <2>1, <3>2 DEF OwnInv, OwnedAtWork, ConfigsOwned
    <3>. QED
      BY <1>4, <3>1, <3>2, HeldStep DEF OwnInv, HeldMoves
  <2>3. Owned(p, id)'
    BY <1>1, <2>1, <2>2, OwnedStays
  <2>. QED
    BY <2>2, <2>3 DEF Owned
<1>5. ~lapsed' => HeldOwned'
  BY <1>4 DEF HeldOwned
<1>. QED
  BY <1>2, <1>3, <1>5 DEF OwnInv

LEMMA ProjectInductive == ProjectSpec => [](TypeInv /\ CounterInv /\ OwnInv)
<1>1. Init => CounterInv
  BY DEF Init, CounterInv, CounterAhead, DirsIssued, BootSteps, InitSteps, DeleteSteps
<1>2. ProjectInit => OwnInv
  <2> SUFFICES ASSUME ProjectInit
               PROVE  OwnInv
    OBVIOUS
  <2>1. HeldOK
    BY DEF ProjectInit, Nothing, HeldOK, Phases
  <2>2. OwnedAtWork /\ HeldOwned
    BY ConstantsAssumption
       DEF ProjectInit, Init, Nothing, OwnedAtWork, LinkAtWork, ConfigsOwned, TaskOwned, HeldOwned, Ids,
           Absent, InitSteps, TaskSteps
  <2>. QED
    BY <2>1, <2>2 DEF OwnInv
<1>3. ProjectInit => TypeInv /\ CounterInv
  BY <1>1, InitTypeInv DEF ProjectInit
<1>4. TypeInv /\ CounterInv /\ OwnInv /\ [ProjectNext]_projectVars => TypeInv' /\ CounterInv' /\ OwnInv'
  BY ServerStep, TypeInvStep, CounterInvStep, OwnInvStep
<1>. QED
  BY <1>2, <1>3, <1>4, PTL DEF ProjectSpec

\* The id a command read in the config of its project is no other project's
\* while the command waits and while its editor is open, whatever other commands
\* and the server do meanwhile.
THEOREM OwnProject == ProjectSpec => []ActsOnOwnProject
<1>1. OwnInv => ActsOnOwnProject
  BY DEF OwnInv, HeldOwned, Owned, ActsOnOwnProject
<1>. QED
  BY <1>1, ProjectInductive, PTL

-----------------------------------------------------------------------------
\* Behind InitBlockedByRemains: a project with a .wetman has remains, or a live
\* workspace, or the handler that runs works on it; a delete is behind the
\* .wetman before it removes the rest; and live workspaces are their projects'.
LiveOwned == \A p \in Projects, id \in Ids : <<p, id>> \in live => Owned(p, id)
RmWsGone == pc = "rm_ws" => dotWetman[curProject] = Absent
Accounted(p) ==
    \/ p \in cut
    \/ \E id \in Ids : <<p, id>> \in live
    \/ pc \in HandlerSteps /\ curProject = p
RemainsInv ==
    /\ RmWsGone
    /\ ~lapsed => LiveOwned
    /\ ~lapsed => \A p \in Projects : dotWetman[p] # Absent => Accounted(p)

LEMMA CutStep ==
    [ProjectNext]_projectVars => TrackCut \/ UNCHANGED <<vars, cut>>
<1> SUFFICES ASSUME [ProjectNext]_projectVars
             PROVE  TrackCut \/ UNCHANGED <<vars, cut>>
  OBVIOUS
<1>1. ASSUME NEW c \in Intents, NEW p \in Projects,
             \/ RunTaskGet(c, p) \/ RunTaskList(c, p) \/ RunTaskDelete(c, p)
             \/ RunTaskEdit(c, p) \/ RunTaskPrint(c, p)
      PROVE  UNCHANGED <<vars, cut>>
  <2>1. PICK then : TaskRequest(c, p, then)
    BY <1>1 DEF RunTaskGet, RunTaskList, RunTaskDelete, RunTaskEdit, RunTaskPrint
  <2>. QED
    BY <2>1 DEF TaskRequest, Hold, projectVars, commandVars
<1>2. ASSUME NEW c \in Intents, NEW p \in Projects,
             RunTaskNew(c, p) \/ RunWorkspaceInit(c, p) \/ RunWorkspaceDelete(c, p)
      PROVE  TrackCut \/ UNCHANGED <<vars, cut>>
  BY <1>2 DEF RunTaskNew, RunWorkspaceInit, RunWorkspaceDelete, Hold
<1>3. CASE Others \/ AnswerDelete \/ AnswerNew
  BY <1>3 DEF Others, AnswerDelete, AnswerNew
<1>4. CASE AnswerTask \/ AnswerPath \/ FileDone \/ Interrupt
  BY <1>4 DEF AnswerTask, AnswerPath, FileDone, Interrupt
<1>5. CASE UNCHANGED projectVars
  BY <1>5 DEF projectVars, commandVars
<1>. QED
  BY <1>1, <1>2, <1>3, <1>4, <1>5 DEF ProjectNext

\* A workspace becomes live only when its init, which linked it, is done.
LEMMA LiveOwnedStep ==
    TypeInv /\ CounterInv /\ (~lapsed => LinkAtWork) /\ (~lapsed => LiveOwned) /\ [Next]_vars
        => (~lapsed' => LiveOwned')
<1> SUFFICES ASSUME TypeInv, CounterInv, ~lapsed => LinkAtWork, ~lapsed => LiveOwned, [Next]_vars, ~lapsed',
                    NEW p \in Projects, NEW id \in Ids, <<p, id>> \in live'
             PROVE  Owned(p, id)'
  BY DEF LiveOwned
<1>1. ~lapsed
  BY LapsedStays, Zenon
<1>2. CASE <<p, id>> \in live
  BY <1>1, <1>2, OwnedStays DEF LiveOwned
<1>3. CASE InitWriteConfig /\ <<p, id>> \notin live
  <2>1. p = curProject /\ id = curId /\ pc = "write_config" /\ pc' = "idle"
        /\ link' = link /\ issued' = issued
    BY <1>3 DEF InitWriteConfig, HasConfig, Respond, wsVars
  <2>2. id \in issued
    BY <1>1, <2>1 DEF CounterInv, DirsIssued, InitSteps
  <2>3. link[id] \in {p, NoProject}
    BY <1>1, <2>1 DEF LinkAtWork, InitSteps
  <2>. QED
    BY <2>1, <2>2, <2>3 DEF Owned, InitSteps
<1>4. ~InitWriteConfig => live' \subseteq live
  BY DEF Next, Boot, WorkspaceInit, WorkspaceDelete, TaskNew, Environment, InitRefused, DeleteRefused, TaskNewRefused,
           BootCreate, BootWrite, BootRead, InitRequest, InitCreateConfig, NextWorkspaceId, InitWsDir, InitUnlink,
           InitSymlink, InitTasksDir, DeleteRequest, DeleteConfig, DeleteDotWetman,
           DeleteWsEntry, DeleteWsDir, DeleteWsFails,
           TaskNewRequest, TaskNewFails, TaskNewOpenConfig, TaskNewWriteConfig, HasConfig, Crash, UserRemovesDotWetman, vars, historyVars
<1>. QED
  BY <1>2, <1>3, <1>4

LEMMA RmWsGoneStep == TypeInv /\ RmWsGone /\ [Next]_vars => RmWsGone'
<1> SUFFICES ASSUME TypeInv, RmWsGone, [Next]_vars
             PROVE  RmWsGone'
  OBVIOUS
<1> USE DEF RmWsGone, Absent, DirOnly
<1>0. /\ dotWetman \in [Projects -> Int]
      /\ pc \in InitSteps \cup DeleteSteps \cup TaskSteps => curProject \in Projects
  BY ConstantsAssumption DEF TypeInv, TypeOK, DiskOK, RequestOK, Ids, Absent, DirOnly, Blank
<1> USE DEF InitSteps, DeleteSteps, TaskSteps
<1>1. CASE BootCreate
  BY <1>0, <1>1 DEF BootCreate, CounterExists, Goto, Respond, Fail, Torn, Attempt, historyVars, diskVars, wsVars, requestVars
<1>2. CASE BootWrite
  BY <1>0, <1>2 DEF BootWrite, Goto, Respond, Fail, Torn, Attempt, historyVars, diskVars, wsVars, requestVars
<1>3. CASE BootRead
  BY <1>0, <1>3 DEF BootRead, Goto, Respond, Fail, Torn, Attempt, historyVars, diskVars, wsVars, requestVars
<1>4. ASSUME NEW q \in Projects, InitRequest(q)
      PROVE  RmWsGone'
  BY <1>0, <1>4 DEF InitRequest, Goto, Respond, Fail, Torn, Attempt, historyVars, diskVars, wsVars, requestVars
<1>5. CASE InitCreateConfig
  BY <1>0, <1>5 DEF InitCreateConfig, Goto, Respond, Fail, Torn, Attempt, historyVars, diskVars, wsVars, requestVars
<1>6. CASE NextWorkspaceId
  BY <1>0, <1>6 DEF NextWorkspaceId, FreshId, NextValue, Goto, Respond, Fail, Torn, Attempt, historyVars, diskVars, wsVars, requestVars
<1>7. CASE InitWsDir
  BY <1>0, <1>7 DEF InitWsDir, Goto, Respond, Fail, Torn, Attempt, historyVars, diskVars, wsVars, requestVars
<1>8. CASE InitUnlink
  BY <1>0, <1>8 DEF InitUnlink, Goto, Respond, Fail, Torn, Attempt, historyVars, diskVars, wsVars, requestVars
<1>9. CASE InitSymlink
  BY <1>0, <1>9 DEF InitSymlink, LinkMade, Goto, Respond, Fail, Torn, Attempt, historyVars, diskVars, wsVars, requestVars
<1>10. CASE InitTasksDir
  BY <1>0, <1>10 DEF InitTasksDir, Goto, Respond, Fail, Torn, Attempt, historyVars, diskVars, wsVars, requestVars
<1>11. CASE InitWriteConfig
  BY <1>0, <1>11 DEF InitWriteConfig, HasConfig, Goto, Respond, Fail, Torn, Attempt, historyVars, diskVars, wsVars, requestVars
<1>12. ASSUME NEW i \in Ids, DeleteRequest(i)
      PROVE  RmWsGone'
  BY <1>0, <1>12 DEF DeleteRequest, Readable, LinkedTo, Goto, Respond, Fail, Torn, Attempt, historyVars, diskVars, wsVars, requestVars
<1>13. CASE DeleteConfig
  BY <1>0, <1>13 DEF DeleteConfig, Goto, Respond, Fail, Torn, Attempt, historyVars, diskVars, wsVars, requestVars
<1>14. CASE DeleteDotWetman
  BY <1>0, <1>14 DEF DeleteDotWetman, Goto, Respond, Fail, Torn, Attempt, historyVars, diskVars, wsVars, requestVars
<1>15. CASE DeleteWsEntry
  BY <1>0, <1>15 DEF DeleteWsEntry, Goto, Respond, Fail, Torn, Attempt, historyVars, diskVars, wsVars, requestVars
<1>16. CASE DeleteWsDir
  BY <1>0, <1>16 DEF DeleteWsDir, Goto, Respond, Fail, Torn, Attempt, historyVars, diskVars, wsVars, requestVars
<1>17. CASE DeleteWsFails
  BY <1>0, <1>17 DEF DeleteWsFails, Goto, Respond, Fail, Torn, Attempt, historyVars, diskVars, wsVars, requestVars
<1>18. CASE Crash
  BY <1>0, <1>18 DEF Crash, Goto, Respond, Fail, Torn, Attempt, historyVars, diskVars, wsVars, requestVars
<1>19. ASSUME NEW q \in Projects, UserRemovesDotWetman(q)
      PROVE  RmWsGone'
  BY <1>0, <1>19 DEF UserRemovesDotWetman, LinkedTo, Goto, Respond, Fail, Torn, Attempt, historyVars, diskVars, wsVars, requestVars
<1>20. CASE UNCHANGED vars
  BY <1>0, <1>20 DEF vars, historyVars, diskVars, wsVars, requestVars
<1>21. ASSUME NEW i \in Ids, TaskNewRequest(i)
      PROVE  RmWsGone'
  BY <1>0, <1>21 DEF TaskNewRequest, Readable, Listed, Goto, Respond, Fail, Torn, Attempt, historyVars, diskVars, wsVars, requestVars
<1>22. CASE TaskNewFails
  BY <1>0, <1>22 DEF TaskNewFails, Goto, Respond, Fail, Torn, Attempt, historyVars, diskVars, wsVars, requestVars
<1>23. CASE TaskNewOpenConfig
  BY <1>0, <1>23 DEF TaskNewOpenConfig, HasConfig, Goto, Respond, Fail, Torn, Attempt, historyVars, diskVars, wsVars, requestVars
<1>24. CASE TaskNewWriteConfig
  BY <1>0, <1>24 DEF TaskNewWriteConfig, HasConfig, Goto, Respond, Fail, Torn, Attempt, historyVars, diskVars, wsVars, requestVars
<1>. QED
  BY <1>1, <1>2, <1>3, <1>4, <1>5, <1>6, <1>7, <1>8, <1>9, <1>10, <1>11, <1>12, <1>13, <1>14, <1>15, <1>16, <1>17, <1>18, <1>19, <1>20,
     <1>21, <1>22, <1>23, <1>24
     DEF Next, Boot, WorkspaceInit, WorkspaceDelete, TaskNew, Environment, InitRefused, DeleteRefused, TaskNewRefused, vars

\* A .wetman stays accounted for: its handler passes it on to a live workspace,
\* or removes it, or leaves remains.
LEMMA AccountedStays ==
    ASSUME NEW p \in Projects, TypeInv, CounterInv, LiveOwned, RmWsGone, [Next]_vars, TrackCut,
           dotWetman[p] # Absent => Accounted(p), dotWetman'[p] # Absent
    PROVE  Accounted(p)'
<1> USE DEF Accounted, TrackCut, CutShort, Acknowledged, HandlerSteps, InitSteps, DeleteSteps,
            TaskSteps, BootSteps, RmWsGone, Absent, DirOnly, Blank
<1>0. /\ dotWetman \in [Projects -> Int]
      /\ link \in [Ids -> Projects \cup {NoProject}]
      /\ NoProject \notin Projects
      /\ live \subseteq Projects \X Ids
      /\ pc \in HandlerSteps \cup TaskSteps => curProject \in Projects
      /\ pc \in InitSteps \cup DeleteSteps => curId \in Ids
      /\ \A q \in Projects, i \in Ids : <<q, i>> \in live => link[i] \in {q, NoProject}
  BY ConstantsAssumption DEF TypeInv, TypeOK, DiskOK, HistoryOK, RequestOK, Ids, LiveOwned, Owned
<1> HIDE DEF TypeInv, CounterInv
<1>1. CASE BootCreate
  BY <1>0, <1>1 DEF BootCreate, CounterExists, Goto, Respond, Fail, Torn, Attempt, historyVars, diskVars, wsVars, requestVars
<1>2. CASE BootWrite
  BY <1>0, <1>2 DEF BootWrite, Goto, Respond, Fail, Torn, Attempt, historyVars, diskVars, wsVars, requestVars
<1>3. CASE BootRead
  BY <1>0, <1>3 DEF BootRead, Goto, Respond, Fail, Torn, Attempt, historyVars, diskVars, wsVars, requestVars
<1>4. ASSUME NEW q \in Projects, InitRequest(q)
      PROVE  Accounted(p)'
  BY <1>0, <1>4 DEF InitRequest, Goto, Respond, Fail, Torn, Attempt, historyVars, diskVars, wsVars, requestVars
<1>5. CASE InitCreateConfig
  BY <1>0, <1>5 DEF InitCreateConfig, Goto, Respond, Fail, Torn, Attempt, historyVars, diskVars, wsVars, requestVars
<1>6. CASE NextWorkspaceId
  BY <1>0, <1>6 DEF NextWorkspaceId, FreshId, NextValue, Goto, Respond, Fail, Torn, Attempt, historyVars, diskVars, wsVars, requestVars
<1>7. CASE InitWsDir
  BY <1>0, <1>7 DEF InitWsDir, Goto, Respond, Fail, Torn, Attempt, historyVars, diskVars, wsVars, requestVars
<1>8. CASE InitUnlink
  BY <1>0, <1>8 DEF InitUnlink, Goto, Respond, Fail, Torn, Attempt, historyVars, diskVars, wsVars, requestVars
<1>9. CASE InitSymlink
  BY <1>0, <1>9 DEF InitSymlink, LinkMade, Goto, Respond, Fail, Torn, Attempt, historyVars, diskVars, wsVars, requestVars
<1>10. CASE InitTasksDir
  BY <1>0, <1>10 DEF InitTasksDir, Goto, Respond, Fail, Torn, Attempt, historyVars, diskVars, wsVars, requestVars
<1>11. CASE InitWriteConfig
  BY <1>0, <1>11 DEF InitWriteConfig, HasConfig, Goto, Respond, Fail, Torn, Attempt, historyVars, diskVars, wsVars, requestVars
<1>12. ASSUME NEW i \in Ids, DeleteRequest(i)
      PROVE  Accounted(p)'
  BY <1>0, <1>12 DEF DeleteRequest, Readable, LinkedTo, Goto, Respond, Fail, Torn, Attempt, historyVars, diskVars, wsVars, requestVars
<1>13. CASE DeleteConfig
  BY <1>0, <1>13 DEF DeleteConfig, Goto, Respond, Fail, Torn, Attempt, historyVars, diskVars, wsVars, requestVars
<1>14. CASE DeleteDotWetman
  BY <1>0, <1>14 DEF DeleteDotWetman, Goto, Respond, Fail, Torn, Attempt, historyVars, diskVars, wsVars, requestVars
<1>15. CASE DeleteWsEntry
  BY <1>0, <1>15 DEF DeleteWsEntry, Goto, Respond, Fail, Torn, Attempt, historyVars, diskVars, wsVars, requestVars
<1>16. CASE DeleteWsDir
  BY <1>0, <1>16 DEF DeleteWsDir, Goto, Respond, Fail, Torn, Attempt, historyVars, diskVars, wsVars, requestVars
<1>17. CASE DeleteWsFails
  BY <1>0, <1>17 DEF DeleteWsFails, Goto, Respond, Fail, Torn, Attempt, historyVars, diskVars, wsVars, requestVars
<1>18. CASE Crash
  BY <1>0, <1>18 DEF Crash, Goto, Respond, Fail, Torn, Attempt, historyVars, diskVars, wsVars, requestVars
<1>19. ASSUME NEW q \in Projects, UserRemovesDotWetman(q)
      PROVE  Accounted(p)'
  BY <1>0, <1>19 DEF UserRemovesDotWetman, LinkedTo, Goto, Respond, Fail, Torn, Attempt, historyVars, diskVars, wsVars, requestVars
<1>20. CASE UNCHANGED vars
  BY <1>0, <1>20 DEF vars, historyVars, diskVars, wsVars, requestVars
<1>21. ASSUME NEW i \in Ids, TaskNewRequest(i)
      PROVE  Accounted(p)'
  BY <1>0, <1>21 DEF TaskNewRequest, Readable, Listed, Goto, Respond, Fail, Torn, Attempt, historyVars, diskVars, wsVars, requestVars
<1>22. CASE TaskNewFails
  BY <1>0, <1>22 DEF TaskNewFails, Goto, Respond, Fail, Torn, Attempt, historyVars, diskVars, wsVars, requestVars
<1>23. CASE TaskNewOpenConfig
  BY <1>0, <1>23 DEF TaskNewOpenConfig, HasConfig, Goto, Respond, Fail, Torn, Attempt, historyVars, diskVars, wsVars, requestVars
<1>24. CASE TaskNewWriteConfig
  BY <1>0, <1>24 DEF TaskNewWriteConfig, HasConfig, Goto, Respond, Fail, Torn, Attempt, historyVars, diskVars, wsVars, requestVars
<1>. QED
  BY <1>1, <1>2, <1>3, <1>4, <1>5, <1>6, <1>7, <1>8, <1>9, <1>10, <1>11, <1>12, <1>13, <1>14, <1>15, <1>16, <1>17, <1>18, <1>19, <1>20,
     <1>21, <1>22, <1>23, <1>24
     DEF Next, Boot, WorkspaceInit, WorkspaceDelete, TaskNew, Environment, InitRefused, DeleteRefused, TaskNewRefused, vars

LEMMA RemainsInvStep ==
    TypeInv /\ CounterInv /\ OwnInv /\ RemainsInv /\ [ProjectNext]_projectVars => RemainsInv'
<1> SUFFICES ASSUME TypeInv, CounterInv, OwnInv, RemainsInv, [ProjectNext]_projectVars
             PROVE  RemainsInv'
  OBVIOUS
<1>1. [Next]_vars
  BY ServerStep
<1>2. RmWsGone'
  BY <1>1, RmWsGoneStep DEF RemainsInv
<1>3. ~lapsed' => LiveOwned'
  BY <1>1, LiveOwnedStep DEF RemainsInv, OwnInv, OwnedAtWork
<1>4. ASSUME ~lapsed', NEW p \in Projects, dotWetman'[p] # Absent
      PROVE  Accounted(p)'
  <2>1. ~lapsed
    BY <1>1, <1>4, LapsedStays, Zenon
  <2>2. CASE TrackCut
    BY <1>1, <1>4, <2>1, <2>2, AccountedStays DEF RemainsInv
  <2>3. CASE UNCHANGED <<vars, cut>>
    <3>1. UNCHANGED <<dotWetman, cut, live, pc, curProject>>
      BY <2>3 DEF vars, diskVars, requestVars, historyVars
    <3>. QED
      BY <1>4, <2>1, <3>1 DEF RemainsInv, Accounted
  <2>. QED
    BY <2>2, <2>3, CutStep
<1>. QED
  BY <1>2, <1>3, <1>4 DEF RemainsInv

LEMMA RemainsInductive == ProjectSpec => []RemainsInv
<1>1. ProjectInit => RemainsInv
  BY DEF ProjectInit, Init, RemainsInv, RmWsGone, LiveOwned
<1>2. RemainsInv /\ (TypeInv /\ CounterInv /\ OwnInv) /\ [ProjectNext]_projectVars => RemainsInv'
  BY RemainsInvStep
<1>. QED
  BY <1>1, <1>2, ProjectInductive, PTL DEF ProjectSpec

\* An init is refused only for a project that has a working workspace or remains
\* of a handler that was cut short.
THEOREM BlockedByRemains == ProjectSpec => []InitBlockedByRemains
<1>1. RemainsInv => InitBlockedByRemains
  BY DEF RemainsInv, Accounted, InitBlockedByRemains, HandlerSteps, InitSteps, DeleteSteps
<1>. QED
  BY <1>1, RemainsInductive, PTL

-----------------------------------------------------------------------------
(* The parsers of the command line.                                        *)

Token == STRING \ {NoValue}
Value == Token \cup {NoValue}

IsOption(arg) == arg.position = NoPosition

\* What the argument tables of the commands have in common, and the parser
\* relies on: no two arguments share a form, there is at most one positional
\* argument, at the first position, and only it is required.
ArgTable(args) ==
    /\ \A a \in DOMAIN args :
          /\ IsOption(args[a]) => ~args[a].required
          /\ ~IsOption(args[a]) =>
                args[a].required /\ args[a].position = 0 /\ args[a].forms = {}
    /\ \A a, b \in DOMAIN args :
          /\ ~IsOption(args[a]) /\ ~IsOption(args[b]) => a = b
          /\ args[a].forms \cap args[b].forms # {} => a = b

Statuses == {"OK", "MISSING_OPTION_VALUE", "UNKNOWN_OPTION", "UNEXPECTED_ARGUMENT",
             "MISSING_REQUIRED_ARGUMENT"}

LoopState(args) ==
    [i : Nat \ {0}, nextPosition : Nat, values : [DOMAIN args -> Value], status : Statuses]

\* What a turn does: it looks at a token of a line that is not done, and takes
\* an option with its value or a name, or ends in an error.
Stays(args, tokens, s, next) == (s.status # "OK" \/ s.i > Len(tokens)) /\ next = s

LooksAt(tokens, s) == s.status = "OK" /\ s.i \in 1 .. Len(tokens)

LacksValue(args, tokens, s, next) ==
    /\ LooksAt(tokens, s)
    /\ FindOption(args, tokens[s.i]) # {} /\ s.i = Len(tokens)
    /\ next = WithStatus(s, "MISSING_OPTION_VALUE")

TakesOption(args, tokens, s, next) ==
    /\ LooksAt(tokens, s)
    /\ FindOption(args, tokens[s.i]) # {} /\ s.i + 1 \in 1 .. Len(tokens)
    /\ next = At(s.i + 2, s.nextPosition,
                 Give(s, FindOption(args, tokens[s.i]), tokens[s.i + 1]))

IsUnknown(args, tokens, s, next) ==
    /\ LooksAt(tokens, s)
    /\ FindOption(args, tokens[s.i]) = {} /\ tokens[s.i] \in Dashed
    /\ next = WithStatus(s, "UNKNOWN_OPTION")

IsUnexpected(args, tokens, s, next) ==
    /\ LooksAt(tokens, s)
    /\ FindOption(args, tokens[s.i]) = {} /\ tokens[s.i] \notin Dashed
    /\ FindPosition(args, s.nextPosition) = {}
    /\ next = WithStatus(s, "UNEXPECTED_ARGUMENT")

TakesName(args, tokens, s, next) ==
    /\ LooksAt(tokens, s)
    /\ FindOption(args, tokens[s.i]) = {} /\ tokens[s.i] \notin Dashed
    /\ FindPosition(args, s.nextPosition) # {}
    /\ next = At(s.i + 1, s.nextPosition + 1,
                 Give(s, FindPosition(args, s.nextPosition), tokens[s.i]))

LEMMA TurnCases ==
    ASSUME NEW args, NEW tokens \in Seq(Token), NEW s \in LoopState(args),
           NEW next, next = ParseToken(args, tokens, s)
    PROVE  \/ Stays(args, tokens, s, next)
           \/ LacksValue(args, tokens, s, next)
           \/ TakesOption(args, tokens, s, next)
           \/ IsUnknown(args, tokens, s, next)
           \/ IsUnexpected(args, tokens, s, next)
           \/ TakesName(args, tokens, s, next)
<1>1. CASE s.status # "OK" \/ s.i > Len(tokens)
  BY <1>1 DEF ParseToken, Stays
<1>2. CASE s.status = "OK" /\ ~(s.i > Len(tokens))
  <2>1. LooksAt(tokens, s) /\ s.i \in Nat /\ Len(tokens) \in Nat
    BY <1>2 DEF LooksAt, LoopState
  <2>2. CASE FindOption(args, tokens[s.i]) # {} /\ s.i = Len(tokens)
    <3>1. next = WithStatus(s, "MISSING_OPTION_VALUE")
      BY <1>2, <2>2 DEF ParseToken
    <3>. QED
      BY <2>1, <2>2, <3>1 DEF LacksValue
  <2>3. CASE FindOption(args, tokens[s.i]) # {} /\ s.i # Len(tokens)
    <3> DEFINE values == Give(s, FindOption(args, tokens[s.i]), tokens[s.i + 1])
    <3>1. next = At(s.i + 2, s.nextPosition, values)
      BY <1>2, <2>3 DEF ParseToken, AfterValue
    <3>2. s.i + 1 \in 1 .. Len(tokens)
      BY <2>1, <2>3 DEF LooksAt
    <3>. QED
      BY <2>1, <2>3, <3>1, <3>2 DEF TakesOption
  <2>4. CASE FindOption(args, tokens[s.i]) = {} /\ tokens[s.i] \in Dashed
    <3>1. next = WithStatus(s, "UNKNOWN_OPTION")
      BY <1>2, <2>4 DEF ParseToken
    <3>. QED
      BY <2>1, <2>4, <3>1 DEF IsUnknown
  <2>5. CASE /\ FindOption(args, tokens[s.i]) = {} /\ tokens[s.i] \notin Dashed
             /\ FindPosition(args, s.nextPosition) = {}
    <3>1. next = WithStatus(s, "UNEXPECTED_ARGUMENT")
      BY <1>2, <2>5 DEF ParseToken
    <3>. QED
      BY <2>1, <2>5, <3>1 DEF IsUnexpected
  <2>6. CASE /\ FindOption(args, tokens[s.i]) = {} /\ tokens[s.i] \notin Dashed
             /\ FindPosition(args, s.nextPosition) # {}
    <3> DEFINE values == Give(s, FindPosition(args, s.nextPosition), tokens[s.i])
    <3>1. next = At(s.i + 1, s.nextPosition + 1, values)
      BY <1>2, <2>6 DEF ParseToken
    <3>. QED
      BY <2>1, <2>6, <3>1 DEF TakesName
  <2>. QED
    BY <2>2, <2>3, <2>4, <2>5, <2>6
<1>. QED
  BY <1>1, <1>2

LEMMA GiveType ==
    ASSUME NEW args, NEW s \in LoopState(args), NEW found, NEW value \in Value
    PROVE  Give(s, found, value) \in [DOMAIN args -> Value]
BY DEF Give, LoopState

LEMMA AtType ==
    ASSUME NEW args, NEW i \in Nat \ {0}, NEW nextPosition \in Nat,
           NEW values \in [DOMAIN args -> Value]
    PROVE  At(i, nextPosition, values) \in LoopState(args)
BY DEF At, LoopState, Statuses

LEMMA TurnType ==
    ASSUME NEW args, NEW tokens \in Seq(Token), NEW s \in LoopState(args)
    PROVE  ParseToken(args, tokens, s) \in LoopState(args)
<1>1. PICK next : next = ParseToken(args, tokens, s)
  OBVIOUS
<1>2. /\ s.i \in Nat \ {0} /\ s.nextPosition \in Nat /\ Len(tokens) \in Nat
      /\ s.values \in [DOMAIN args -> Value] /\ s.status \in Statuses
  BY DEF LoopState
<1>3. \A j \in 1 .. Len(tokens) : tokens[j] \in Value
  BY DEF Value
<1>4. \A status \in Statuses : WithStatus(s, status) \in LoopState(args)
  BY DEF WithStatus, LoopState
<1>5. CASE Stays(args, tokens, s, next)
  BY <1>1, <1>5 DEF Stays
<1>6. CASE LacksValue(args, tokens, s, next)
  BY <1>1, <1>4, <1>6 DEF LacksValue, Statuses
<1>7. CASE TakesOption(args, tokens, s, next)
  <2>1. Give(s, FindOption(args, tokens[s.i]), tokens[s.i + 1]) \in [DOMAIN args -> Value]
    BY <1>3, <1>7, GiveType DEF TakesOption
  <2>2. s.i + 2 \in Nat \ {0}
    BY <1>2
  <2>3. next = At(s.i + 2, s.nextPosition,
                  Give(s, FindOption(args, tokens[s.i]), tokens[s.i + 1]))
    BY <1>7 DEF TakesOption
  <2>. QED
    BY <1>1, <1>2, <2>1, <2>2, <2>3, AtType
<1>8. CASE IsUnknown(args, tokens, s, next)
  BY <1>1, <1>4, <1>8 DEF IsUnknown, Statuses
<1>9. CASE IsUnexpected(args, tokens, s, next)
  BY <1>1, <1>4, <1>9 DEF IsUnexpected, Statuses
<1>10. CASE TakesName(args, tokens, s, next)
  <2>1. Give(s, FindPosition(args, s.nextPosition), tokens[s.i]) \in [DOMAIN args -> Value]
    BY <1>3, <1>10, GiveType DEF TakesName, LooksAt
  <2>2. s.i + 1 \in Nat \ {0} /\ s.nextPosition + 1 \in Nat
    BY <1>2
  <2>3. next = At(s.i + 1, s.nextPosition + 1,
                  Give(s, FindPosition(args, s.nextPosition), tokens[s.i]))
    BY <1>10 DEF TakesName
  <2>. QED
    BY <1>1, <2>1, <2>2, <2>3, AtType
<1>. QED
  BY <1>1, <1>5, <1>6, <1>7, <1>8, <1>9, <1>10, TurnCases

LEMMA StartType ==
    ASSUME NEW args
    PROVE  LoopStart(args) \in LoopState(args)
BY AtType DEF LoopStart, Value

\* The turns are what their definition says.
IsTurns(f, args, tokens) ==
    f = [n \in 0 .. Len(tokens) |->
           IF n = 0 THEN LoopStart(args) ELSE ParseToken(args, tokens, f[n - 1])]

LEMMA TurnsGoOn ==
    ASSUME NEW args, NEW tokens \in Seq(Token)
    PROVE  LET f == Turns(args, tokens)
           IN  /\ f[0] = LoopStart(args)
               /\ \A n \in 1 .. Len(tokens) : f[n] = ParseToken(args, tokens, f[n - 1])
<1> DEFINE N == Len(tokens)
           X == LoopState(args)
           F == [n \in Nat |-> [s \in X |-> ParseToken(args, tokens, s)]]
<1>1. N \in Nat
  OBVIOUS
<1>2. LoopStart(args) \in X
  BY StartType
<1>3. F \in [Nat -> [X -> X]]
  <2>1. \A s \in X : ParseToken(args, tokens, s) \in X
    BY TurnType
  <2> HIDE DEF X
  <2>. QED
    BY <2>1
<1>4. PICK g \in [0 .. N -> X] : IsRecursion(g, LoopStart(args), F, N)
  <2> HIDE DEF F, X
  <2>. QED
    BY <1>1, <1>2, <1>3, RecursiveFunctionExists
<1>5. IsTurns(g, args, tokens)
  <2> DEFINE E(n) == IF n = 0 THEN LoopStart(args) ELSE ParseToken(args, tokens, g[n - 1])
  <2>1. \A n \in 1 .. N : F[n][g[n - 1]] = ParseToken(args, tokens, g[n - 1])
    <3> TAKE n \in 1 .. N
    <3>1. n - 1 \in 0 .. N /\ n \in Nat
      BY <1>1
    <3>2. g[n - 1] \in X
      BY <3>1
    <3> HIDE DEF X
    <3>. QED
      BY <3>1, <3>2
  <2> HIDE DEF F, X
  <2>2. \A n \in 0 .. N : g[n] = IF n = 0 THEN LoopStart(args) ELSE F[n][g[n - 1]]
    BY <1>4 DEF IsRecursion
  <2>3. \A n \in 0 .. N : g[n] = E(n)
    <3> TAKE n \in 0 .. N
    <3>1. CASE n = 0
      BY <2>2, <3>1
    <3>2. CASE n # 0
      <4>1. n \in 1 .. N
        BY <1>1, <3>2
      <4>. QED
        BY <2>1, <2>2, <3>2, <4>1
    <3>. QED
      BY <3>1, <3>2
  <2>4. g = [n \in 0 .. N |-> E(n)]
    <3> HIDE DEF E
    <3>. QED
      BY <2>3
  <2>. QED
    BY <2>4 DEF IsTurns, N
<1> DEFINE f == CHOOSE h : IsTurns(h, args, tokens)
<1>6. IsTurns(f, args, tokens)
  BY <1>5
<1>7. Turns(args, tokens) = f
  BY DEF Turns, IsTurns
<1>8. f = [n \in 0 .. Len(tokens) |->
             IF n = 0 THEN LoopStart(args) ELSE ParseToken(args, tokens, f[n - 1])]
  BY <1>6 DEF IsTurns
<1> HIDE DEF f
<1>9. f[0] = LoopStart(args)
  BY <1>8
<1>10. \A n \in 1 .. Len(tokens) : f[n] = ParseToken(args, tokens, f[n - 1])
  BY <1>1, <1>8
<1>. QED
  BY <1>7, <1>9, <1>10

-----------------------------------------------------------------------------
(* The loop explains the tokens it has passed by the roles they have in the *)
(* grammar, where no other roles are possible.                             *)

RoleNames == {"option", "value", "name"}
FormsOf(args) == UNION {args[a].forms : a \in DOMAIN args}
NamesOf(args) == {a \in DOMAIN args : ~IsOption(args[a])}

\* What the grammar says of one token.
FitsAt(args, tokens, role, j) ==
    /\ role[j] = "value" <=> j > 1 /\ role[j - 1] = "option"
    /\ role[j] = "option" => tokens[j] \in FormsOf(args)
    /\ role[j] = "name" => tokens[j] \notin FormsOf(args) \cup Dashed

NoName(role, k) == \A j \in 1 .. k : role[j] # "name"
OneName(role, k) ==
    \E j \in 1 .. k : role[j] = "name" /\ \A l \in 1 .. k : role[l] = "name" => l = j

LEMMA NameCount ==
    ASSUME NEW N \in Nat, NEW role
    PROVE  /\ Cardinality({j \in 1 .. N : role[j] = "name"}) = 0 <=> NoName(role, N)
           /\ Cardinality({j \in 1 .. N : role[j] = "name"}) = 1 <=> OneName(role, N)
<1> DEFINE S == {j \in 1 .. N : role[j] = "name"}
<1>1. IsFiniteSet(S)
  <2>1. IsFiniteSet(1 .. N)
    BY FS_Interval
  <2>2. S \in SUBSET (1 .. N)
    OBVIOUS
  <2> HIDE DEF S
  <2>. QED
    BY <2>1, <2>2, FS_Subset
<1>2. Cardinality(S) = 0 <=> S = {}
  <2> HIDE DEF S
  <2>. QED
    BY <1>1, FS_EmptySet
<1>3. Cardinality(S) = 1 <=> \E x : S = {x}
  <2> HIDE DEF S
  <2>. QED
    BY <1>1, FS_Singleton
<1>4. S = {} <=> NoName(role, N)
  BY DEF NoName
<1>5. (\E x : S = {x}) <=> OneName(role, N)
  <2>1. ASSUME NEW x, S = {x}
        PROVE  OneName(role, N)
    <3>1. x \in 1 .. N /\ role[x] = "name"
      BY <2>1
    <3>2. \A l \in 1 .. N : role[l] = "name" => l = x
      BY <2>1
    <3>. QED
      BY <3>1, <3>2 DEF OneName
  <2>2. ASSUME OneName(role, N)
        PROVE  \E x : S = {x}
    <3>1. PICK j \in 1 .. N : role[j] = "name" /\ \A l \in 1 .. N : role[l] = "name" => l = j
      BY <2>2 DEF OneName
    <3>2. S = {j}
      BY <3>1
    <3>. QED
      BY <3>2
  <2>. QED
    BY <2>1, <2>2
<1>. QED
  BY <1>2, <1>3, <1>4, <1>5

\* The grammar, token by token.
IsRole(args, tokens, role) ==
    /\ role \in [1 .. Len(tokens) -> RoleNames]
    /\ \A j \in 1 .. Len(tokens) : FitsAt(args, tokens, role, j)
    /\ Len(tokens) > 0 => role[Len(tokens)] # "option"
    /\ IF NamesOf(args) = {} THEN NoName(role, Len(tokens)) ELSE OneName(role, Len(tokens))

LEMMA RolesMean ==
    ASSUME NEW args, ArgTable(args), NEW tokens \in Seq(Token), NEW role
    PROVE  role \in Roles(args, tokens) <=> IsRole(args, tokens, role)
<1> DEFINE N     == Len(tokens)
           count == Cardinality({j \in DOMAIN tokens : role[j] = "name"})
           names == Cardinality({a \in DOMAIN args : args[a].position # NoPosition})
<1>1. N \in Nat /\ DOMAIN tokens = 1 .. N /\ (tokens # <<>> <=> N > 0)
  OBVIOUS
<1>2. NamesOf(args) = {a \in DOMAIN args : args[a].position # NoPosition}
  BY DEF NamesOf, IsOption
<1>3. names = IF NamesOf(args) = {} THEN 0 ELSE 1
  <2>1. CASE NamesOf(args) = {}
    BY <1>2, <2>1, FS_EmptySet
  <2>2. CASE NamesOf(args) # {}
    <3>1. PICK a \in NamesOf(args) : TRUE
      BY <2>2
    <3>2. \A b \in NamesOf(args) : b = a
      BY <3>1 DEF ArgTable, NamesOf
    <3>3. NamesOf(args) = {a}
      BY <3>1, <3>2
    <3>. QED
      BY <1>2, <3>3, FS_Singleton
  <2>. QED
    BY <2>1, <2>2
<1>4. count = names <=> IF NamesOf(args) = {} THEN NoName(role, N) ELSE OneName(role, N)
  <2>1. count = Cardinality({j \in 1 .. N : role[j] = "name"})
    BY <1>1
  <2> HIDE DEF count, names
  <2>. QED
    BY <1>1, <1>3, <2>1, NameCount
<1> HIDE DEF count, names
<1>5. role \in Roles(args, tokens) <=>
        /\ role \in [DOMAIN tokens -> RoleNames]
        /\ \A j \in DOMAIN tokens : FitsAt(args, tokens, role, j)
        /\ tokens # <<>> => role[Len(tokens)] # "option"
        /\ count = names
  BY DEF Roles, FitsAt, FormsOf, RoleNames, count, names
<1>. QED
  BY <1>1, <1>4, <1>5 DEF IsRole

LEMMA FoundOption ==
    ASSUME NEW args, ArgTable(args), NEW token
    PROVE  /\ FindOption(args, token) # {} <=> token \in FormsOf(args)
           /\ FindOption(args, token) # {} =>
                \E a \in DOMAIN args :
                   FindOption(args, token) = {a} /\ IsOption(args[a]) /\ token \in args[a].forms
<1>1. FindOption(args, token) # {} <=> token \in FormsOf(args)
  BY DEF FindOption, FormsOf, ArgTable, IsOption
<1>2. ASSUME FindOption(args, token) # {}
      PROVE  \E a \in DOMAIN args :
               FindOption(args, token) = {a} /\ IsOption(args[a]) /\ token \in args[a].forms
  <2>1. PICK a \in FindOption(args, token) : TRUE
    BY <1>2
  <2>2. a \in DOMAIN args /\ IsOption(args[a]) /\ token \in args[a].forms
    BY <2>1 DEF FindOption, IsOption
  <2>3. \A b \in FindOption(args, token) : b = a
    BY <2>2 DEF FindOption, ArgTable
  <2>. QED
    BY <2>1, <2>2, <2>3
<1>. QED
  BY <1>1, <1>2

LEMMA FoundName ==
    ASSUME NEW args, ArgTable(args), NEW position \in Nat
    PROVE  /\ FindPosition(args, position) # {} <=> position = 0 /\ NamesOf(args) # {}
           /\ FindPosition(args, position) # {} =>
                \E a \in DOMAIN args : FindPosition(args, position) = {a} /\ ~IsOption(args[a])
<1>1. \A a \in DOMAIN args : args[a].position = position <=> position = 0 /\ ~IsOption(args[a])
  BY DEF ArgTable, IsOption, NoPosition
<1>2. FindPosition(args, position) # {} <=> position = 0 /\ NamesOf(args) # {}
  BY <1>1 DEF FindPosition, NamesOf
<1>3. ASSUME FindPosition(args, position) # {}
      PROVE  \E a \in DOMAIN args : FindPosition(args, position) = {a} /\ ~IsOption(args[a])
  <2>1. PICK a \in FindPosition(args, position) : TRUE
    BY <1>3
  <2>2. a \in DOMAIN args /\ ~IsOption(args[a])
    BY <1>1, <2>1 DEF FindPosition
  <2>3. \A b \in FindPosition(args, position) : b = a
    BY <1>1, <2>2 DEF FindPosition, ArgTable
  <2>. QED
    BY <2>1, <2>2, <2>3
<1>. QED
  BY <1>2, <1>3

LEMMA GiveTo ==
    ASSUME NEW args, NEW s \in LoopState(args), NEW a \in DOMAIN args, NEW value,
           NEW found, found = {a}, NEW values, values = Give(s, found, value)
    PROVE  /\ values[a] = value
           /\ \A b \in DOMAIN args : b # a => values[b] = s.values[b]
<1>1. (CHOOSE x \in {a} : TRUE) = a
  OBVIOUS
<1>2. DOMAIN s.values = DOMAIN args
  BY DEF LoopState
<1>. QED
  BY <1>1, <1>2 DEF Give

\* The tokens that give an argument a value, among the first k.
GivenTo(arg, tokens, role, k) ==
    {j \in 1 .. k : IF IsOption(arg)
                    THEN role[j] = "value" /\ tokens[j - 1] \in arg.forms
                    ELSE role[j] = "name"}

IsLast(S, tokens, v) ==
    IF S = {} THEN v = NoValue
    ELSE \E j \in S : v = tokens[j] /\ \A l \in S : l <= j

LEMMA LastIsValue ==
    ASSUME NEW arg, NEW tokens \in Seq(Token), NEW role, NEW v,
           IsLast(GivenTo(arg, tokens, role, Len(tokens)), tokens, v)
    PROVE  ValueOf(arg, tokens, role) = v
<1> DEFINE S == GivenTo(arg, tokens, role, Len(tokens))
<1>1. S = {j \in DOMAIN tokens : IF arg.position = NoPosition
                                 THEN role[j] = "value" /\ tokens[j - 1] \in arg.forms
                                 ELSE role[j] = "name"}
  BY DEF GivenTo, IsOption
<1>2. ValueOf(arg, tokens, role) =
        IF S = {} THEN NoValue ELSE tokens[CHOOSE j \in S : \A l \in S : l <= j]
  BY <1>1 DEF ValueOf
<1>3. S \subseteq Nat
  BY DEF GivenTo
<1>4. ASSUME S # {}
      PROVE  tokens[CHOOSE j \in S : \A l \in S : l <= j] = v
  <2> HIDE DEF S
  <2>1. PICK j \in S : v = tokens[j] /\ \A l \in S : l <= j
    BY <1>4 DEF IsLast, S
  <2>2. (CHOOSE i \in S : \A l \in S : l <= i) = j
    <3>1. \A i \in S : (\A l \in S : l <= i) => i = j
      BY <1>3, <2>1
    <3>. QED
      BY <2>1, <3>1
  <2>. QED
    BY <2>1, <2>2
<1>. QED
  BY <1>2, <1>4 DEF IsLast
\* A role of every token, right for the first k, and the only one there.
Explains(args, tokens, role, s, k) ==
    /\ role \in [1 .. Len(tokens) -> RoleNames]
    /\ k \in 0 .. Len(tokens)
    /\ \A j \in 1 .. k : FitsAt(args, tokens, role, j)
    /\ k > 0 => role[k] # "option"
    /\ IF s.nextPosition = 0 THEN NoName(role, k)
       ELSE s.nextPosition = 1 /\ NamesOf(args) # {} /\ OneName(role, k)
    /\ \A a \in DOMAIN args : IsLast(GivenTo(args[a], tokens, role, k), tokens, s.values[a])

Agree(role, other, k) == \A j \in 1 .. k : other[j] = role[j]
Forced(args, tokens, role, k) == \A other \in Roles(args, tokens) : Agree(role, other, k)

LoopInv(args, tokens, s, n) ==
    /\ s \in LoopState(args)
    /\ s.status = "OK" =>
         /\ s.i > n
         /\ \E role : Explains(args, tokens, role, s, s.i - 1) /\ Forced(args, tokens, role, s.i - 1)
    /\ s.status # "OK" => Roles(args, tokens) = {}

\* The token behind the ones explained is an option or a name.
LEMMA NextIsNoValue ==
    ASSUME NEW args, ArgTable(args), NEW tokens \in Seq(Token), NEW s, NEW k, NEW role,
           Explains(args, tokens, role, s, k), Forced(args, tokens, role, k), k + 1 \in 1 .. Len(tokens),
           NEW other \in Roles(args, tokens)
    PROVE  /\ other[k + 1] \in {"option", "name"}
           /\ other[k + 1] = "option" => tokens[k + 1] \in FormsOf(args) /\ k + 1 < Len(tokens)
           /\ other[k + 1] = "name" => tokens[k + 1] \notin FormsOf(args) \cup Dashed
<1>1. IsRole(args, tokens, other)
  BY RolesMean
<1>2. k \in Nat /\ Len(tokens) \in Nat
  BY DEF Explains
<1>3. FitsAt(args, tokens, other, k + 1) /\ other[k + 1] \in RoleNames
  BY <1>1 DEF IsRole
<1>4. k > 0 => other[k] # "option"
  BY <1>2 DEF Explains, Forced, Agree
<1>5. other[k + 1] # "value"
  BY <1>2, <1>3, <1>4 DEF FitsAt
<1>6. other[k + 1] = "option" => k + 1 # Len(tokens)
  BY <1>1, <1>2 DEF IsRole
<1>. QED
  BY <1>2, <1>3, <1>5, <1>6 DEF FitsAt, RoleNames

LEMMA StartExplained ==
    ASSUME NEW args, NEW tokens \in Seq(Token)
    PROVE  LoopInv(args, tokens, LoopStart(args), 0)
<1> DEFINE role == [j \in 1 .. Len(tokens) |-> "name"]
           s    == LoopStart(args)
<1>1. s \in LoopState(args)
  BY StartType
<1>2. s.i = 1 /\ s.nextPosition = 0 /\ s.status = "OK" /\ \A a \in DOMAIN args : s.values[a] = NoValue
  BY DEF LoopStart, At
<1> HIDE DEF s
<1>3. Explains(args, tokens, role, s, 0)
  <2>1. role \in [1 .. Len(tokens) -> RoleNames] /\ 0 \in 0 .. Len(tokens)
    BY DEF RoleNames
  <2>2. \A a \in DOMAIN args : GivenTo(args[a], tokens, role, 0) = {}
    BY DEF GivenTo
  <2> HIDE DEF role
  <2>3. \A a \in DOMAIN args : IsLast(GivenTo(args[a], tokens, role, 0), tokens, s.values[a])
    BY <1>2, <2>2 DEF IsLast
  <2>4. NoName(role, 0)
    BY DEF NoName
  <2>. QED
    BY <1>2, <2>1, <2>3, <2>4 DEF Explains
<1>4. Forced(args, tokens, role, 0)
  BY DEF Forced, Agree
<1> HIDE DEF role
<1>5. s.i - 1 = 0 /\ s.i > 0
  BY <1>2
<1>. QED
  BY <1>1, <1>2, <1>3, <1>4, <1>5 DEF LoopInv, s

LEMMA OptionExplained ==
    ASSUME NEW args, ArgTable(args), NEW tokens \in Seq(Token), NEW s \in LoopState(args),
           NEW k, NEW role, Explains(args, tokens, role, s, k), Forced(args, tokens, role, k),
           k = s.i - 1, NEW next, TakesOption(args, tokens, s, next)
    PROVE  \E new : Explains(args, tokens, new, next, k + 2) /\ Forced(args, tokens, new, k + 2)
<1> DEFINE N   == Len(tokens)
           new == [j \in 1 .. N |-> IF j = k + 1 THEN "option" ELSE IF j = k + 2 THEN "value"
                                    ELSE role[j]]
<1>1. N \in Nat /\ k \in Nat /\ k + 2 \in 1 .. N /\ s.i = k + 1
  BY DEF TakesOption, LooksAt, Explains, LoopState
<1>2. PICK a \in DOMAIN args :
        /\ FindOption(args, tokens[k + 1]) = {a}
        /\ IsOption(args[a]) /\ tokens[k + 1] \in args[a].forms /\ tokens[k + 1] \in FormsOf(args)
  BY <1>1, FoundOption DEF TakesOption
<1>3. next = At(k + 3, s.nextPosition, Give(s, {a}, tokens[k + 2]))
  BY <1>1, <1>2 DEF TakesOption
<1>4. /\ next.nextPosition = s.nextPosition
      /\ next.values[a] = tokens[k + 2]
      /\ \A b \in DOMAIN args : b # a => next.values[b] = s.values[b]
  <2>1. PICK found, values : found = {a} /\ values = Give(s, found, tokens[k + 2])
    OBVIOUS
  <2>2. next.nextPosition = s.nextPosition /\ next.values = values
    BY <1>3, <2>1 DEF At
  <2> HIDE DEF new
  <2>3. values[a] = tokens[k + 2] /\ \A b \in DOMAIN args : b # a => values[b] = s.values[b]
    BY <2>1, GiveTo
  <2>. QED
    BY <2>2, <2>3
<1>5. new \in [1 .. N -> RoleNames]
  BY DEF Explains, RoleNames
<1>6. /\ new[k + 1] = "option" /\ new[k + 2] = "value"
      /\ \A j \in 1 .. k : new[j] = role[j]
  BY <1>1
<1> HIDE DEF new
<1>7. ASSUME NEW j \in 1 .. (k + 2)
      PROVE  FitsAt(args, tokens, new, j)
  <2>1. CASE j \in 1 .. k
    <3>1. FitsAt(args, tokens, role, j) /\ new[j] = role[j] /\ (j > 1 => new[j - 1] = role[j - 1])
      BY <1>1, <1>6, <2>1 DEF Explains
    <3>. QED
      BY <3>1 DEF FitsAt
  <2>2. CASE j = k + 1
    <3>1. j > 1 => new[j - 1] # "option"
      BY <1>1, <1>6, <2>2 DEF Explains
    <3>. QED
      BY <1>2, <1>6, <2>2, <3>1 DEF FitsAt
  <2>3. CASE j = k + 2
    <3>1. k + 2 > 1 /\ (k + 2) - 1 = k + 1
      BY <1>1
    <3>. QED
      BY <1>6, <2>3, <3>1 DEF FitsAt
  <2>. QED
    BY <1>1, <2>1, <2>2, <2>3
<1>8. \A j \in 1 .. (k + 2) : new[j] = "name" => j \in 1 .. k /\ role[j] = "name"
  BY <1>1, <1>6
<1>9. NoName(role, k) => NoName(new, k + 2)
  BY <1>8 DEF NoName
<1>10. OneName(role, k) => OneName(new, k + 2)
  <2>1. \A j \in 1 .. k : j \in 1 .. (k + 2) /\ (role[j] = "name" => new[j] = "name")
    BY <1>1, <1>6
  <2>. QED
    BY <1>8, <2>1 DEF OneName
<1>11. ASSUME NEW b \in DOMAIN args
       PROVE  IsLast(GivenTo(args[b], tokens, new, k + 2), tokens, next.values[b])
  <2> DEFINE S == GivenTo(args[b], tokens, role, k)
             T == GivenTo(args[b], tokens, new, k + 2)
  <2>1. \A j \in 1 .. k : j \in T <=> j \in S
    <3> TAKE j \in 1 .. k
    <3>1. j \in 1 .. (k + 2) /\ new[j] = role[j]
      BY <1>1, <1>6
    <3>. QED
      BY <3>1 DEF GivenTo
  <2>2. S \subseteq 1 .. k /\ T \subseteq 1 .. (k + 2)
    BY DEF GivenTo
  <2>3. k + 1 \notin T
    BY <1>6 DEF GivenTo
  <2>4. k + 2 \in T <=> b = a
    <3>1. k + 2 \in 1 .. (k + 2) /\ (k + 2) - 1 = k + 1
      BY <1>1
    <3>2. k + 2 \in T <=> IsOption(args[b]) /\ tokens[k + 1] \in args[b].forms
      BY <1>6, <3>1 DEF GivenTo
    <3>3. tokens[k + 1] \in args[b].forms => b = a
      BY <1>2 DEF ArgTable
    <3>. QED
      BY <1>2, <3>2, <3>3
  <2> HIDE DEF S, T
  <2>5. CASE b = a
    <3>1. k + 2 \in T /\ \A j \in T : j <= k + 2
      BY <1>1, <2>2, <2>4, <2>5
    <3>. QED
      BY <1>4, <2>5, <3>1 DEF IsLast, T
  <2>6. CASE b # a
    <3>1. \A j \in T : j \in 1 .. k
      BY <1>1, <2>2, <2>3, <2>4, <2>6
    <3>2. T = S
      BY <2>1, <2>2, <3>1
    <3>3. IsLast(S, tokens, s.values[b])
      BY DEF Explains, S
    <3>. QED
      BY <1>4, <2>6, <3>2, <3>3 DEF T
  <2>. QED
    BY <2>5, <2>6
<1>12. Explains(args, tokens, new, next, k + 2)
  BY <1>1, <1>4, <1>5, <1>6, <1>7, <1>9, <1>10, <1>11 DEF Explains
<1>13. ASSUME NEW other \in Roles(args, tokens)
       PROVE  Agree(new, other, k + 2)
  <2>1. other[k + 1] = "option"
    BY <1>1, <1>2, NextIsNoValue
  <2>2. FitsAt(args, tokens, other, k + 2)
    BY <1>1, RolesMean DEF IsRole
  <2>3. k + 2 > 1 /\ (k + 2) - 1 = k + 1
    BY <1>1
  <2>4. other[k + 2] = "value"
    BY <2>1, <2>2, <2>3 DEF FitsAt
  <2>5. \A j \in 1 .. k : other[j] = role[j]
    BY DEF Forced, Agree
  <2>6. \A j \in 1 .. (k + 2) : j \in 1 .. k \/ j = k + 1 \/ j = k + 2
    BY <1>1
  <2>. QED
    BY <1>6, <2>1, <2>4, <2>5, <2>6 DEF Agree
<1>. QED
  BY <1>12, <1>13 DEF Forced

LEMMA NameExplained ==
    ASSUME NEW args, ArgTable(args), NEW tokens \in Seq(Token), NEW s \in LoopState(args),
           NEW k, NEW role, Explains(args, tokens, role, s, k), Forced(args, tokens, role, k),
           k = s.i - 1, NEW next, TakesName(args, tokens, s, next)
    PROVE  \E new : Explains(args, tokens, new, next, k + 1) /\ Forced(args, tokens, new, k + 1)
<1> DEFINE N   == Len(tokens)
           new == [j \in 1 .. N |-> IF j = k + 1 THEN "name" ELSE role[j]]
<1>1. N \in Nat /\ k \in Nat /\ k + 1 \in 1 .. N /\ s.i = k + 1 /\ s.nextPosition \in Nat
  BY DEF TakesName, LooksAt, Explains, LoopState
<1>2. tokens[k + 1] \notin FormsOf(args) \cup Dashed
  BY <1>1, FoundOption DEF TakesName
<1>3. PICK a \in DOMAIN args : FindPosition(args, s.nextPosition) = {a} /\ ~IsOption(args[a])
  BY <1>1, FoundName DEF TakesName
<1>4. s.nextPosition = 0 /\ NamesOf(args) # {}
  BY <1>1, FoundName DEF TakesName
<1>5. next = At(k + 2, 1, Give(s, {a}, tokens[k + 1]))
  BY <1>1, <1>3, <1>4 DEF TakesName
<1>6. /\ next.nextPosition = 1
      /\ next.values[a] = tokens[k + 1]
      /\ \A b \in DOMAIN args : b # a => next.values[b] = s.values[b]
  <2>1. PICK found, values : found = {a} /\ values = Give(s, found, tokens[k + 1])
    OBVIOUS
  <2>2. next.nextPosition = 1 /\ next.values = values
    BY <1>5, <2>1 DEF At
  <2> HIDE DEF new
  <2>3. values[a] = tokens[k + 1] /\ \A b \in DOMAIN args : b # a => values[b] = s.values[b]
    BY <2>1, GiveTo
  <2>. QED
    BY <2>2, <2>3
<1>7. new \in [1 .. N -> RoleNames]
  BY DEF Explains, RoleNames
<1>8. new[k + 1] = "name" /\ \A j \in 1 .. k : new[j] = role[j]
  BY <1>1
<1> HIDE DEF new
<1>9. ASSUME NEW j \in 1 .. (k + 1)
      PROVE  FitsAt(args, tokens, new, j)
  <2>1. CASE j \in 1 .. k
    <3>1. FitsAt(args, tokens, role, j) /\ new[j] = role[j] /\ (j > 1 => new[j - 1] = role[j - 1])
      BY <1>1, <1>8, <2>1 DEF Explains
    <3>. QED
      BY <3>1 DEF FitsAt
  <2>2. CASE j = k + 1
    <3>1. j > 1 => new[j - 1] # "option"
      BY <1>1, <1>8, <2>2 DEF Explains
    <3>. QED
      BY <1>2, <1>8, <2>2, <3>1 DEF FitsAt
  <2>. QED
    BY <1>1, <2>1, <2>2
<1>10. OneName(new, k + 1)
  <2>1. NoName(role, k)
    BY <1>4 DEF Explains
  <2>2. \A j \in 1 .. (k + 1) : new[j] = "name" => j = k + 1
    BY <1>1, <1>8, <2>1 DEF NoName
  <2>3. k + 1 \in 1 .. (k + 1)
    BY <1>1
  <2>. QED
    BY <1>8, <2>2, <2>3 DEF OneName
<1>11. ASSUME NEW b \in DOMAIN args
       PROVE  IsLast(GivenTo(args[b], tokens, new, k + 1), tokens, next.values[b])
  <2> DEFINE S == GivenTo(args[b], tokens, role, k)
             T == GivenTo(args[b], tokens, new, k + 1)
  <2>1. \A j \in 1 .. k : j \in T <=> j \in S
    <3> TAKE j \in 1 .. k
    <3>1. j \in 1 .. (k + 1) /\ new[j] = role[j]
      BY <1>1, <1>8
    <3>. QED
      BY <3>1 DEF GivenTo
  <2>2. S \subseteq 1 .. k /\ T \subseteq 1 .. (k + 1)
    BY DEF GivenTo
  <2>3. k + 1 \in T <=> b = a
    <3>1. k + 1 \in 1 .. (k + 1)
      BY <1>1
    <3>2. k + 1 \in T <=> ~IsOption(args[b])
      BY <1>8, <3>1 DEF GivenTo
    <3>3. ~IsOption(args[b]) => b = a
      BY <1>3 DEF ArgTable
    <3>. QED
      BY <1>3, <3>2, <3>3
  <2> HIDE DEF S, T
  <2>4. CASE b = a
    <3>1. k + 1 \in T /\ \A j \in T : j <= k + 1
      BY <1>1, <2>2, <2>3, <2>4
    <3>. QED
      BY <1>6, <2>4, <3>1 DEF IsLast, T
  <2>5. CASE b # a
    <3>1. \A j \in T : j \in 1 .. k
      BY <1>1, <2>2, <2>3, <2>5
    <3>2. T = S
      BY <2>1, <2>2, <3>1
    <3>3. IsLast(S, tokens, s.values[b])
      BY DEF Explains, S
    <3>. QED
      BY <1>6, <2>5, <3>2, <3>3 DEF T
  <2>. QED
    BY <2>4, <2>5
<1>12. Explains(args, tokens, new, next, k + 1)
  BY <1>1, <1>4, <1>6, <1>7, <1>8, <1>9, <1>10, <1>11 DEF Explains
<1>13. ASSUME NEW other \in Roles(args, tokens)
       PROVE  Agree(new, other, k + 1)
  <2>1. other[k + 1] = "name"
    BY <1>1, <1>2, NextIsNoValue
  <2>2. \A j \in 1 .. k : other[j] = role[j]
    BY DEF Forced, Agree
  <2>3. \A j \in 1 .. (k + 1) : j \in 1 .. k \/ j = k + 1
    BY <1>1
  <2>. QED
    BY <1>8, <2>1, <2>2, <2>3 DEF Agree
<1>. QED
  BY <1>12, <1>13 DEF Forced

\* A name too many is one the grammar has no role for.
LEMMA NamesUp ==
    ASSUME NEW args, ArgTable(args), NEW tokens \in Seq(Token), NEW s \in LoopState(args),
           NEW k, NEW role, Explains(args, tokens, role, s, k), Forced(args, tokens, role, k),
           k = s.i - 1, NEW next, IsUnexpected(args, tokens, s, next)
    PROVE  Roles(args, tokens) = {}
<1> SUFFICES ASSUME NEW other \in Roles(args, tokens)
             PROVE  FALSE
  OBVIOUS
<1>1. /\ Len(tokens) \in Nat /\ k \in 0 .. Len(tokens) /\ k + 1 \in 1 .. Len(tokens)
      /\ s.i = k + 1 /\ s.nextPosition \in Nat
  BY DEF IsUnexpected, LooksAt, Explains, LoopState
<1>2. tokens[k + 1] \notin FormsOf(args)
  BY <1>1, FoundOption DEF IsUnexpected
<1>3. other[k + 1] = "name"
  BY <1>1, <1>2, NextIsNoValue
<1>4. IsRole(args, tokens, other)
  BY RolesMean
<1>5. NamesOf(args) # {} /\ OneName(other, Len(tokens))
  BY <1>1, <1>3, <1>4 DEF IsRole, NoName
<1>6. s.nextPosition # 0
  BY <1>1, <1>5, FoundName DEF IsUnexpected
<1>7. PICK j \in 1 .. k : role[j] = "name"
  BY <1>6 DEF Explains, OneName
<1>8. other[j] = "name"
  BY <1>7 DEF Forced, Agree
<1>9. j \in 1 .. Len(tokens) /\ j # k + 1
  BY <1>1
<1>. QED
  BY <1>1, <1>3, <1>5, <1>8, <1>9 DEF OneName

LEMMA StatusSet ==
    ASSUME NEW args, NEW s \in LoopState(args), NEW status
    PROVE  WithStatus(s, status).status = status
BY DEF WithStatus, LoopState

LEMMA TurnExplained ==
    ASSUME NEW args, ArgTable(args), NEW tokens \in Seq(Token), NEW n \in 0 .. Len(tokens) - 1,
           NEW s, LoopInv(args, tokens, s, n), NEW next, next = ParseToken(args, tokens, s)
    PROVE  LoopInv(args, tokens, next, n + 1)
<1> DEFINE R == Roles(args, tokens)
<1>1. next = ParseToken(args, tokens, s)
  OBVIOUS
<1>2. s \in LoopState(args) /\ next \in LoopState(args)
  BY <1>1, TurnType DEF LoopInv
<1>3. s.i \in Nat /\ n \in Nat /\ Len(tokens) \in Nat /\ n + 1 <= Len(tokens)
  BY <1>2 DEF LoopState
<1>4. CASE Stays(args, tokens, s, next)
  <2>1. CASE s.status = "OK"
    <3>1. s.i > n + 1
      BY <1>3, <1>4, <2>1 DEF Stays
    <3>. QED
      BY <1>2, <1>4, <2>1, <3>1 DEF Stays, LoopInv
  <2>2. CASE s.status # "OK"
    BY <1>2, <1>4, <2>2 DEF Stays, LoopInv
  <2>. QED
    BY <2>1, <2>2
<1>5. CASE s.status = "OK" /\ s.i \in 1 .. Len(tokens)
  <2>1. PICK k : k = s.i - 1
    OBVIOUS
  <2>2. PICK role : Explains(args, tokens, role, s, k) /\ Forced(args, tokens, role, k)
    BY <1>5, <2>1 DEF LoopInv
  <2>3. k + 1 = s.i /\ s.i > n /\ k \in Nat
    BY <1>3, <1>5, <2>1 DEF LoopInv
  <2>4. ASSUME next.status # "OK", R = {}
        PROVE  LoopInv(args, tokens, next, n + 1)
    BY <1>2, <2>4 DEF LoopInv
  <2>5. CASE LacksValue(args, tokens, s, next)
    <3>1. next.status # "OK"
      BY <1>2, <2>5, StatusSet DEF LacksValue
    <3>2. tokens[k + 1] \in FormsOf(args) /\ k + 1 = Len(tokens)
      BY <2>3, <2>5, FoundOption DEF LacksValue
    <3>3. ASSUME NEW other \in R
          PROVE  FALSE
      <4>1. k + 1 \in 1 .. Len(tokens)
        BY <1>5, <2>3
      <4>2. other[k + 1] = "option" => k + 1 < Len(tokens)
        BY <2>2, <4>1, NextIsNoValue
      <4>3. other[k + 1] = "option"
        BY <2>2, <3>2, <4>1, NextIsNoValue
      <4>. QED
        BY <1>3, <3>2, <4>2, <4>3
    <3>. QED
      BY <2>4, <3>1, <3>3
  <2>6. CASE TakesOption(args, tokens, s, next)
    <3>1. next.i = s.i + 2 /\ next.status = "OK"
      BY <2>6 DEF TakesOption, At
    <3>2. next.i > n + 1 /\ next.i - 1 = k + 2
      BY <1>3, <2>3, <3>1
    <3>3. \E new : Explains(args, tokens, new, next, k + 2) /\ Forced(args, tokens, new, k + 2)
      BY <1>2, <2>1, <2>2, <2>6, OptionExplained
    <3>. QED
      BY <1>2, <3>1, <3>2, <3>3 DEF LoopInv
  <2>7. CASE IsUnknown(args, tokens, s, next)
    <3>1. next.status # "OK"
      BY <1>2, <2>7, StatusSet DEF IsUnknown
    <3>2. tokens[k + 1] \notin FormsOf(args) /\ tokens[k + 1] \in Dashed
      BY <2>3, <2>7, FoundOption DEF IsUnknown
    <3>3. ASSUME NEW other \in R
          PROVE  FALSE
      <4>1. k + 1 \in 1 .. Len(tokens)
        BY <1>5, <2>3
      <4>. QED
        BY <2>2, <3>2, <4>1, NextIsNoValue
    <3>. QED
      BY <2>4, <3>1, <3>3
  <2>8. CASE IsUnexpected(args, tokens, s, next)
    <3>1. next.status # "OK"
      BY <1>2, <2>8, StatusSet DEF IsUnexpected
    <3>2. R = {}
      BY <1>2, <2>1, <2>2, <2>8, NamesUp
    <3>. QED
      BY <2>4, <3>1, <3>2
  <2>9. CASE TakesName(args, tokens, s, next)
    <3>1. next.i = s.i + 1 /\ next.status = "OK"
      BY <2>9 DEF TakesName, At
    <3>2. next.i > n + 1 /\ next.i - 1 = k + 1
      BY <1>3, <2>3, <3>1
    <3>3. \E new : Explains(args, tokens, new, next, k + 1) /\ Forced(args, tokens, new, k + 1)
      BY <1>2, <2>1, <2>2, <2>9, NameExplained
    <3>. QED
      BY <1>2, <3>1, <3>2, <3>3 DEF LoopInv
  <2>. QED
    BY <1>1, <1>2, <1>4, <2>5, <2>6, <2>7, <2>8, <2>9, TurnCases
<1>6. Stays(args, tokens, s, next) \/ (s.status = "OK" /\ s.i \in 1 .. Len(tokens))
  BY <1>1, <1>2, TurnCases DEF LacksValue, TakesOption, IsUnknown, IsUnexpected, TakesName, LooksAt
<1>. QED
  BY <1>1, <1>4, <1>5, <1>6

LEMMA LoopExplained ==
    ASSUME NEW args, ArgTable(args), NEW tokens \in Seq(Token)
    PROVE  LoopInv(args, tokens, Turns(args, tokens)[Len(tokens)], Len(tokens))
<1>1. PICK N : N = Len(tokens)
  OBVIOUS
<1>2. PICK turn : turn = Turns(args, tokens)
  OBVIOUS
<1> DEFINE S == {n \in 0 .. N : LoopInv(args, tokens, turn[n], n)}
<1>3. N \in Nat
  BY <1>1
<1>4. 0 \in S
  BY <1>2, <1>3, TurnsGoOn, StartExplained
<1>5. \A n \in 0 .. (N - 1) : n \in S => n + 1 \in S
  <2> SUFFICES ASSUME NEW n \in 0 .. (N - 1), n \in S
               PROVE  n + 1 \in S
    OBVIOUS
  <2>1. n + 1 \in 1 .. N /\ n + 1 \in 0 .. N /\ (n + 1) - 1 = n
    BY <1>3
  <2>2. turn[n + 1] = ParseToken(args, tokens, turn[n])
    BY <1>1, <1>2, <2>1, TurnsGoOn
  <2>3. LoopInv(args, tokens, turn[n + 1], n + 1)
    BY <1>1, <2>2, TurnExplained
  <2>. QED
    BY <2>1, <2>3
<1>6. N \in S
  <2>1. 0 .. N \subseteq S
    <3> HIDE DEF S
    <3>. QED
      BY <1>3, <1>4, <1>5, InductionUpTo
  <2>. QED
    BY <1>3, <2>1
<1>. QED
  BY <1>1, <1>2, <1>6

\* The values the arguments have in the grammar.
AreMeant(args, tokens, values) ==
    \E role \in Roles(args, tokens) :
       values = [a \in DOMAIN args |-> ValueOf(args[a], tokens, role)]

\* The parser of the arguments: it accepts a line that has roles, and gives the
\* arguments the values they have by them.
LEMMA ArgsAreParsed ==
    ASSUME NEW args, ArgTable(args), NEW tokens \in Seq(Token),
           NEW parsed, parsed = ArgsParser_Parse(args, tokens)
    PROVE  /\ parsed.status = "OK" => AreMeant(args, tokens, parsed.values)
           /\ parsed.status # "OK" => Roles(args, tokens) = {}
<1>1. PICK N : N = Len(tokens)
  OBVIOUS
<1>2. PICK end : end = Turns(args, tokens)[N]
  OBVIOUS
<1>3. LoopInv(args, tokens, end, N) /\ N \in Nat
  BY <1>1, <1>2, LoopExplained
<1>4. end \in LoopState(args)
  BY <1>3 DEF LoopInv
<1> DEFINE Misses == \E a \in DOMAIN args : args[a].required /\ end.values[a] = NoValue
<1>5. parsed = IF end.status = "OK" /\ Misses THEN WithStatus(end, "MISSING_REQUIRED_ARGUMENT") ELSE end
  BY <1>1, <1>2 DEF ArgsParser_Parse
<1>6. CASE end.status # "OK"
  BY <1>3, <1>5, <1>6 DEF LoopInv
<1>7. CASE end.status = "OK"
  <2>1. PICK role : Explains(args, tokens, role, end, end.i - 1) /\ Forced(args, tokens, role, end.i - 1)
    BY <1>3, <1>7 DEF LoopInv
  <2>2. end.i \in Nat /\ end.i > N
    BY <1>3, <1>4, <1>7 DEF LoopInv, LoopState
  <2>3. end.i - 1 = N
    BY <1>1, <1>3, <2>1, <2>2 DEF Explains
  <2>4. Explains(args, tokens, role, end, N) /\ Forced(args, tokens, role, N)
    BY <2>1, <2>3
  <2>5. CASE end.nextPosition = 0 /\ NamesOf(args) # {}
    <3>1. NoName(role, N)
      BY <2>4, <2>5 DEF Explains
    <3>2. PICK a \in DOMAIN args : ~IsOption(args[a])
      BY <2>5 DEF NamesOf
    <3>3. GivenTo(args[a], tokens, role, N) = {}
      BY <3>1, <3>2 DEF GivenTo, NoName
    <3>4. end.values[a] = NoValue /\ args[a].required
      BY <2>4, <3>2, <3>3 DEF Explains, IsLast, ArgTable
    <3>5. parsed.status # "OK"
      BY <1>4, <1>5, <1>7, <3>4, StatusSet
    <3>6. ASSUME NEW other \in Roles(args, tokens)
          PROVE  FALSE
      <4>1. OneName(other, N)
        BY <1>1, <2>5, RolesMean DEF IsRole
      <4>2. NoName(other, N)
        BY <2>4, <3>1 DEF Forced, Agree, NoName
      <4>. QED
        BY <4>1, <4>2 DEF OneName, NoName
    <3>. QED
      BY <3>5, <3>6
  <2>6. CASE ~(end.nextPosition = 0 /\ NamesOf(args) # {})
    <3>1. IF NamesOf(args) = {} THEN NoName(role, N) ELSE OneName(role, N)
      BY <2>4, <2>6 DEF Explains
    <3>2. role \in Roles(args, tokens)
      <4>1. IsRole(args, tokens, role)
        BY <1>1, <2>4, <3>1 DEF Explains, IsRole
      <4>. QED
        BY <4>1, RolesMean
    <3>3. ASSUME NEW a \in DOMAIN args
          PROVE  ValueOf(args[a], tokens, role) = end.values[a]
      <4>1. IsLast(GivenTo(args[a], tokens, role, Len(tokens)), tokens, end.values[a])
        BY <1>1, <2>4 DEF Explains
      <4>. QED
        BY <4>1, LastIsValue
    <3>4. end.values = [a \in DOMAIN args |-> ValueOf(args[a], tokens, role)]
      <4>1. end.values \in [DOMAIN args -> Value]
        BY <1>4 DEF LoopState
      <4>. QED
        BY <3>3, <4>1
    <3>5. ~Misses
      <4> SUFFICES ASSUME NEW a \in DOMAIN args, args[a].required, end.values[a] = NoValue
                   PROVE  FALSE
        OBVIOUS
      <4>1. a \in NamesOf(args)
        BY DEF ArgTable, NamesOf
      <4>2. PICK j \in 1 .. N : role[j] = "name"
        BY <3>1, <4>1 DEF OneName
      <4>3. j \in GivenTo(args[a], tokens, role, N)
        BY <4>1, <4>2 DEF GivenTo, NamesOf
      <4>4. IsLast(GivenTo(args[a], tokens, role, N), tokens, end.values[a])
        BY <2>4 DEF Explains
      <4>5. PICK l \in GivenTo(args[a], tokens, role, N) : end.values[a] = tokens[l]
        BY <4>3, <4>4 DEF IsLast
      <4>6. tokens[l] \in Token
        BY <1>1, <4>5 DEF GivenTo
      <4>. QED
        BY <4>5, <4>6 DEF Token
    <3>6. parsed = end
      BY <1>5, <3>5
    <3>. QED
      BY <1>7, <3>2, <3>4, <3>6 DEF AreMeant
  <2>. QED
    BY <2>5, <2>6
<1>. QED
  BY <1>6, <1>7

-----------------------------------------------------------------------------
(* The tables of the commands, and the parser of the command.              *)

LEMMA TablesOfOne ==
    /\ ArgTable(<<>>)
    /\ ArgTable(<<NameOption>>)
    /\ ArgTable(<<WorkspaceOption>>)
    /\ ArgTable(<<Positional, WorkspaceOption>>)
<1> USE DEF IsOption, NoPosition, Option, Positional, WorkspaceOption, NameOption
<1>1. ArgTable(<<>>)
  BY DEF ArgTable
<1>2. ArgTable(<<NameOption>>)
  BY DEF ArgTable
<1>3. ArgTable(<<WorkspaceOption>>)
  BY DEF ArgTable
<1>4. ArgTable(<<Positional, WorkspaceOption>>)
  BY DEF ArgTable
<1>. QED
  BY <1>1, <1>2, <1>3, <1>4

LEMMA CommandsInOrder ==
    /\ DOMAIN Commands = 1 .. 10
    /\ Commands[1] = Command_HealthCheck
    /\ Commands[2] = Command_WorkspaceInit
    /\ Commands[3] = Command_WorkspaceDelete
    /\ Commands[4] = Command_WorkspaceList
    /\ Commands[5] = Command_TaskNew
    /\ Commands[6] = Command_TaskGet
    /\ Commands[7] = Command_TaskList
    /\ Commands[8] = Command_TaskEdit
    /\ Commands[9] = Command_TaskPrint
    /\ Commands[10] = Command_TaskDelete
BY DEF Commands

LEMMA CommandTables ==
    ASSUME NEW i \in DOMAIN Commands
    PROVE  ArgTable(Commands[i].args)
<1>1. /\ Commands[1].args = <<>>
      /\ Commands[2].args = <<NameOption>>
      /\ Commands[3].args = <<WorkspaceOption>>
      /\ Commands[4].args = <<>>
      /\ Commands[7].args = <<WorkspaceOption>>
      /\ \A n \in {5, 6, 8, 9, 10} : Commands[n].args = <<Positional, WorkspaceOption>>
  BY CommandsInOrder
     DEF Command_HealthCheck, Command_WorkspaceInit, Command_WorkspaceDelete, Command_WorkspaceList,
         Command_TaskNew, Command_TaskGet, Command_TaskList, Command_TaskEdit, Command_TaskPrint,
         Command_TaskDelete
<1>2. i \in {1, 2, 3, 4, 7} \/ i \in {5, 6, 8, 9, 10}
  BY CommandsInOrder
<1>3. CASE i \in {1, 2, 3, 4, 7}
  BY <1>1, <1>3, TablesOfOne
<1>4. CASE i \in {5, 6, 8, 9, 10}
  BY <1>1, <1>4, TablesOfOne
<1>. QED
  BY <1>2, <1>3, <1>4

\* The words of the commands; no line has the words of two of them.
Word == {"healthcheck", "workspace", "task", "init", "delete", "list", "new", "get", "edit", "print"}

LEMMA WordsOfLine ==
    ASSUME NEW c, NEW line, MatchPrefix(c, line), NEW v, NEW w
    PROVE  /\ c.prefix = <<v>> => line[1] = v
           /\ c.prefix = <<v, w>> => line[1] = v /\ line[2] = w
<1>1. \A p \in DOMAIN c.prefix : c.prefix[p] = line[p]
  BY DEF MatchPrefix
<1>2. ASSUME c.prefix = <<v>>
      PROVE  line[1] = v
  BY <1>1, <1>2
<1>3. ASSUME c.prefix = <<v, w>>
      PROVE  line[1] = v /\ line[2] = w
  <2>1. 1 \in DOMAIN c.prefix /\ 2 \in DOMAIN c.prefix /\ c.prefix[1] = v /\ c.prefix[2] = w
    BY <1>3
  <2>. QED
    BY <1>1, <2>1
<1>. QED
  BY <1>2, <1>3

LEMMA PrefixOf ==
    /\ Commands[1].prefix = <<"healthcheck">>
    /\ Commands[2].prefix = <<"workspace", "init">>
    /\ Commands[3].prefix = <<"workspace", "delete">>
    /\ Commands[4].prefix = <<"workspace", "list">>
    /\ Commands[5].prefix = <<"task", "new">>
    /\ Commands[6].prefix = <<"task", "get">>
    /\ Commands[7].prefix = <<"task", "list">>
    /\ Commands[8].prefix = <<"task", "edit">>
    /\ Commands[9].prefix = <<"task", "print">>
    /\ Commands[10].prefix = <<"task", "delete">>
BY CommandsInOrder
   DEF Command_HealthCheck, Command_WorkspaceInit, Command_WorkspaceDelete, Command_WorkspaceList,
       Command_TaskNew, Command_TaskGet, Command_TaskList, Command_TaskEdit, Command_TaskPrint,
       Command_TaskDelete

LEMMA PrefixWords ==
    ASSUME NEW i \in DOMAIN Commands
    PROVE  Commands[i].prefix \in Seq(Word)
<1>1. Commands[1].prefix \in Seq(Word)
  BY PrefixOf DEF Word
<1>2. Commands[2].prefix \in Seq(Word)
  BY PrefixOf DEF Word
<1>3. Commands[3].prefix \in Seq(Word)
  BY PrefixOf DEF Word
<1>4. Commands[4].prefix \in Seq(Word)
  BY PrefixOf DEF Word
<1>5. Commands[5].prefix \in Seq(Word)
  BY PrefixOf DEF Word
<1>6. Commands[6].prefix \in Seq(Word)
  BY PrefixOf DEF Word
<1>7. Commands[7].prefix \in Seq(Word)
  BY PrefixOf DEF Word
<1>8. Commands[8].prefix \in Seq(Word)
  BY PrefixOf DEF Word
<1>9. Commands[9].prefix \in Seq(Word)
  BY PrefixOf DEF Word
<1>10. Commands[10].prefix \in Seq(Word)
  BY PrefixOf DEF Word
<1>. QED
  BY <1>1, <1>2, <1>3, <1>4, <1>5, <1>6, <1>7, <1>8, <1>9, <1>10, CommandsInOrder

LEMMA OneCommand ==
    ASSUME NEW line, NEW i \in DOMAIN Commands, NEW j \in DOMAIN Commands,
           MatchPrefix(Commands[i], line), MatchPrefix(Commands[j], line)
    PROVE  i = j
<1> DEFINE Named(n) == MatchPrefix(Commands[n], line)
<1>1. Named(1) => line[1] = "healthcheck"
  BY PrefixOf, WordsOfLine
<1>2. Named(2) => line[1] = "workspace" /\ line[2] = "init"
  BY PrefixOf, WordsOfLine
<1>3. Named(3) => line[1] = "workspace" /\ line[2] = "delete"
  BY PrefixOf, WordsOfLine
<1>4. Named(4) => line[1] = "workspace" /\ line[2] = "list"
  BY PrefixOf, WordsOfLine
<1>5. Named(5) => line[1] = "task" /\ line[2] = "new"
  BY PrefixOf, WordsOfLine
<1>6. Named(6) => line[1] = "task" /\ line[2] = "get"
  BY PrefixOf, WordsOfLine
<1>7. Named(7) => line[1] = "task" /\ line[2] = "list"
  BY PrefixOf, WordsOfLine
<1>8. Named(8) => line[1] = "task" /\ line[2] = "edit"
  BY PrefixOf, WordsOfLine
<1>9. Named(9) => line[1] = "task" /\ line[2] = "print"
  BY PrefixOf, WordsOfLine
<1>10. Named(10) => line[1] = "task" /\ line[2] = "delete"
  BY PrefixOf, WordsOfLine
<1>11. i \in 1 .. 10 /\ j \in 1 .. 10
  BY CommandsInOrder
<1>12. Named(i) /\ Named(j)
  OBVIOUS
<1> HIDE DEF Named
<1>. QED
  BY <1>1, <1>2, <1>3, <1>4, <1>5, <1>6, <1>7, <1>8, <1>9, <1>10, <1>11, <1>12

\* A line has a prefix if and only if it is made of it and of the rest.
LEMMA PrefixAndRest ==
    ASSUME NEW V, NEW p \in Seq(V), NEW line \in Seq(V), NEW c, c.prefix = p,
           NEW rest, rest = SubSeq(line, Len(p) + 1, Len(line))
    PROVE  line = p \o rest <=> MatchPrefix(c, line)
<1>1. Len(p) \in Nat /\ Len(line) \in Nat /\ DOMAIN p = 1 .. Len(p)
  OBVIOUS
<1>2. ASSUME MatchPrefix(c, line)
      PROVE  line = p \o rest
  <2>1. Len(line) >= Len(p) /\ \A i \in 1 .. Len(p) : p[i] = line[i]
    BY <1>1, <1>2 DEF MatchPrefix
  <2>2. rest \in Seq(V) /\ Len(rest) = Len(line) - Len(p)
    BY <1>1, <2>1
  <2>3. \A i \in 1 .. Len(rest) : rest[i] = line[Len(p) + i]
    BY <1>1, <2>1, <2>2
  <2>4. PICK q : q = p \o rest
    OBVIOUS
  <2>5. q \in Seq(V) /\ Len(q) = Len(line)
    BY <1>1, <2>2, <2>4
  <2>6. ASSUME NEW i \in 1 .. Len(line)
        PROVE  q[i] = line[i]
    <3>1. CASE i <= Len(p)
      BY <1>1, <2>1, <2>2, <2>4, <3>1
    <3>2. CASE ~(i <= Len(p))
      <4>1. i - Len(p) \in 1 .. Len(rest) /\ Len(p) + (i - Len(p)) = i
        BY <1>1, <2>2, <3>2
      <4>2. q[i] = rest[i - Len(p)]
        BY <1>1, <2>2, <2>4, <3>2
      <4>. QED
        BY <2>3, <4>1, <4>2
    <3>. QED
      BY <3>1, <3>2
  <2>7. q = line
    BY <2>5, <2>6
  <2>. QED
    BY <2>4, <2>7
<1>3. ASSUME line = p \o rest
      PROVE  MatchPrefix(c, line)
  <2>1. rest \in Seq(V)
    BY <1>1
  <2>2. Len(line) = Len(p) + Len(rest) /\ Len(rest) \in Nat
    BY <1>3, <2>1
  <2>3. \A i \in 1 .. Len(p) : p[i] = line[i]
    BY <1>1, <1>3, <2>1
  <2>. QED
    BY <1>1, <2>2, <2>3 DEF MatchPrefix
<1>. QED
  BY <1>2, <1>3

LEMMA CommandIsParsed ==
    ASSUME NEW line \in Seq(Token)
    PROVE  Means(line, CommandParser_Parse(line))
<1> DEFINE Rest(i) == SubSeq(line, Len(Commands[i].prefix) + 1, Len(line))
           Has(i)  == line = Commands[i].prefix \o Rest(i)
           matching == {i \in DOMAIN Commands : MatchPrefix(Commands[i], line)}
<1>1. ASSUME NEW i \in DOMAIN Commands
      PROVE  Rest(i) \in Seq(Token) /\ (Has(i) <=> MatchPrefix(Commands[i], line))
  <2>1. PICK p : p = Commands[i].prefix
    OBVIOUS
  <2>2. p \in Seq(Word)
    BY <2>1, PrefixWords
  <2>3. p \in Seq(Word \cup Token) /\ line \in Seq(Word \cup Token)
    <3>1. \A n \in 1 .. Len(p) : p[n] \in Word \cup Token
      BY <2>2
    <3>2. \A n \in 1 .. Len(line) : line[n] \in Word \cup Token
      OBVIOUS
    <3> HIDE DEF Word
    <3>. QED
      BY <2>2, <3>1, <3>2
  <2>4. Has(i) <=> MatchPrefix(Commands[i], line)
    BY <2>1, <2>3, PrefixAndRest
  <2>5. Len(p) \in Nat /\ Len(line) \in Nat
    BY <2>2
  <2>6. Rest(i) \in Seq(Token)
    BY <2>1, <2>5
  <2>. QED
    BY <2>4, <2>6
<1>2. CASE matching = {}
  <2>1. CommandParser_Parse(line) = NoCommand
    BY <1>2 DEF CommandParser_Parse
  <2>2. \A i \in DOMAIN Commands : ~Has(i)
    BY <1>1, <1>2
  <2>. QED
    BY <2>1, <2>2 DEF Means
<1>3. ASSUME NEW i \in DOMAIN Commands, MatchPrefix(Commands[i], line)
      PROVE  Means(line, CommandParser_Parse(line))
  <2>1. matching = {i}
    BY <1>3, OneCommand
  <2>2. (CHOOSE k \in matching : \A j \in matching : k <= j) = i
    <3>1. i <= i
      BY CommandsInOrder
    <3>. QED
      BY <2>1, <3>1
  <2>3. PICK c : c = Commands[i]
    OBVIOUS
  <2>4. PICK rest : rest = Rest(i)
    OBVIOUS
  <2>5. PICK parsed : parsed = ArgsParser_Parse(c.args, rest)
    OBVIOUS
  <2>6. CommandParser_Parse(line) =
          IF parsed.status # "OK" THEN NoCommand ELSE [prefix |-> c.prefix, values |-> parsed.values]
    BY <2>1, <2>2, <2>3, <2>4, <2>5 DEF CommandParser_Parse
  <2>7. rest \in Seq(Token) /\ ArgTable(c.args) /\ line = c.prefix \o rest
    BY <1>1, <1>3, <2>3, <2>4, CommandTables
  <2>8. CASE parsed.status = "OK"
    <3>1. PICK role \in Roles(c.args, rest) :
            parsed.values = [a \in DOMAIN c.args |-> ValueOf(c.args[a], rest, role)]
      <4>1. AreMeant(c.args, rest, parsed.values)
        BY <2>5, <2>7, <2>8, ArgsAreParsed
      <4>. QED
        BY <4>1 DEF AreMeant
    <3>2. CommandParser_Parse(line) =
            [prefix |-> c.prefix,
             values |-> [a \in DOMAIN c.args |-> ValueOf(c.args[a], rest, role)]]
      BY <2>6, <2>8, <3>1
    <3>3. c \in {Commands[k] : k \in DOMAIN Commands}
      BY <2>3
    <3>4. rest = SubSeq(line, Len(c.prefix) + 1, Len(line))
      BY <2>3, <2>4
    <3>. QED
      BY <2>7, <3>2, <3>3, <3>4 DEF Means
  <2>9. CASE parsed.status # "OK"
    <3>1. CommandParser_Parse(line) = NoCommand
      BY <2>6, <2>9
    <3>2. Roles(c.args, rest) = {}
      BY <2>5, <2>7, <2>9, ArgsAreParsed
    <3>3. \A j \in DOMAIN Commands : Has(j) => Roles(Commands[j].args, Rest(j)) = {}
      <4> TAKE j \in DOMAIN Commands
      <4>1. Has(j) => j = i
        BY <1>1, <1>3, OneCommand
      <4>. QED
        BY <2>3, <2>4, <3>2, <4>1
    <3>. QED
      BY <3>1, <3>3 DEF Means
  <2>. QED
    BY <2>8, <2>9
<1>. QED
  BY <1>2, <1>3

\* The parsers accept the lines the grammar has a meaning for, and no others,
\* and the values they give are the values meant, for lines of every length.
THEOREM ParsersAreRight ==
    \A line \in Seq(STRING \ {NoValue}) : Means(line, CommandParser_Parse(line))
BY CommandIsParsed DEF Token

\* The same for the lines a run compares them on.
THEOREM ParsersMeetGrammar == ProjectSpec => []ParserMeetsGrammar
<1>1. ParserMeetsGrammar
  BY LinesAssumption, ParsersAreRight DEF ParserMeetsGrammar
<1>. QED
  BY <1>1, PTL
=============================================================================
