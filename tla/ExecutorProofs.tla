--------------------------- MODULE ExecutorProofs ---------------------------
(***************************************************************************)
(* Proofs about module Executor, for any number of files, runs and IDs.    *)
(***************************************************************************)
EXTENDS Executor, SequenceTheorems, TLAPS

-----------------------------------------------------------------------------
(* Type correctness.                                                       *)

\* Trimming the completed list yields a list of runs.
LEMMA NewestType ==
    ASSUME TypeOK, NEW s \in Seq(Runs)
    PROVE  Newest(s) \in Seq(Runs)
  <1>1. maxCompleted \in Nat
    BY CapsAssumption DEF TypeOK, TableTypes
  <1> QED
    BY <1>1 DEF Newest

LEMMA TypeInit == Init => TypeOK
  <1> SUFFICES ASSUME Init PROVE TypeOK
    OBVIOUS
  <1>1. TableTypes /\ RunTypes /\ FiledUnderItsFile
    <2>1. completed \in Seq(Runs)
      BY DEF Init
    <2>2. TableTypes /\ FiledUnderItsFile
      BY <2>1 DEF Init, TableTypes, FiledUnderItsFile, RunOrNil, SchedOrNil
    <2>3. RunTypes
      BY DEF Init, RunTypes, RunPC, JobOrNil
    <2> QED
      BY <2>2, <2>3
  <1>2. LoopTypes
    <2>1. CASE loop = Idle
      BY <2>1 DEF Idle, LoopTypes, LoopPC, Events, RunOrNil, SchedOrNil, JobOrNil
    <2>2. ASSUME NEW j \in JobInfo,
                 loop = [Idle EXCEPT !.pc = "run", !.event = "Run", !.file = j.file, !.j = j]
          PROVE  LoopTypes
      BY <2>2 DEF Idle, LoopTypes, LoopPC, Events, RunOrNil, SchedOrNil, JobOrNil, JobInfo
    <2> QED
      BY <2>1, <2>2 DEF Init, InitLoop
  <1>3. OpTypes
    BY DEF Init, OpIdle, OpTypes, OpPC, SchedOrNil
  <1> QED
    BY <1>1, <1>2, <1>3 DEF TypeOK

\* Each step keeps the types: one step of the proof per action.
LEMMA TypeNext == TypeOK /\ [Next]_vars => TypeOK'
  <1> SUFFICES ASSUME TypeOK, [Next]_vars PROVE TypeOK'
    OBVIOUS
  <1> USE DEF TypeOK, RunOrNil, SchedOrNil, JobOrNil, tables, sched, config, runVars
  <1>1. ASSUME NEW r \in Runs, AddRunning(r) PROVE TypeOK'
    <2>1. TableTypes'
      BY <1>1, NilAssumption DEF AddRunning, FileOf, Release, RunAt, TableTypes, RunTypes,
         LoopTypes, OpTypes, RunPC, LoopPC, OpPC, Events, JobInfo, SchedInfo
    <2>2. RunTypes'
      <3>1. CASE running[FileOf(r)] = Nil
        BY <1>1, <3>1 DEF RunTypes, AddRunning, RunAt, RunPC
      <3>2. CASE running[FileOf(r)] # Nil
        BY <1>1, <3>2 DEF RunTypes, AddRunning, RunAt, RunPC, Release
      <3> QED
        BY <3>1, <3>2
    <2>3. LoopTypes'
      BY <1>1, NilAssumption DEF AddRunning, FileOf, Release, RunAt, TableTypes, RunTypes,
         LoopTypes, OpTypes, RunPC, LoopPC, OpPC, Events, JobInfo, SchedInfo
    <2>4. OpTypes'
      BY <1>1, NilAssumption DEF AddRunning, FileOf, Release, RunAt, TableTypes, RunTypes,
         LoopTypes, OpTypes, RunPC, LoopPC, OpPC, Events, JobInfo, SchedInfo
    <2>5. FiledUnderItsFile'
      BY <1>1, NilAssumption DEF AddRunning, FileOf, Release, RunAt, TableTypes, RunTypes,
         LoopTypes, OpTypes, FiledUnderItsFile, RunPC, LoopPC, OpPC, Events, JobInfo, SchedInfo
    <2> QED
      BY <2>1, <2>2, <2>3, <2>4, <2>5
  <1>2. ASSUME NEW r \in Runs, RemoveRunning(r) PROVE TypeOK'
    BY <1>2, NilAssumption DEF RemoveRunning, FileOf, Evict, RunAt, TableTypes, RunTypes,
       LoopTypes, OpTypes, FiledUnderItsFile, RunPC, LoopPC, OpPC, Events, JobInfo, SchedInfo
  <1>3. ASSUME NEW r \in Runs, AddComplete(r) PROVE TypeOK'
    <2>1. TableTypes'
      <3>1. completed' = Newest(Append(completed, r)) /\ Append(completed, r) \in Seq(Runs)
        BY <1>3 DEF AddComplete, TableTypes
      <3>2. completed' \in Seq(Runs)
        BY <3>1, NewestType
      <3> QED
        BY <1>3, <3>2 DEF AddComplete, TableTypes, sched, config
    <2>2. RunTypes'
      BY <1>3, NilAssumption DEF AddComplete, RunAt, TableTypes, RunTypes, LoopTypes, OpTypes,
         RunPC, LoopPC, OpPC, Events, JobInfo, SchedInfo
    <2>3. LoopTypes'
      BY <1>3, NilAssumption DEF AddComplete, RunAt, TableTypes, RunTypes, LoopTypes, OpTypes,
         RunPC, LoopPC, OpPC, Events, JobInfo, SchedInfo
    <2>4. OpTypes'
      BY <1>3, NilAssumption DEF AddComplete, RunAt, TableTypes, RunTypes, LoopTypes, OpTypes,
         RunPC, LoopPC, OpPC, Events, JobInfo, SchedInfo
    <2>5. FiledUnderItsFile'
      BY <1>3, NilAssumption DEF AddComplete, RunAt, TableTypes, RunTypes, LoopTypes, OpTypes,
         FiledUnderItsFile, RunPC, LoopPC, OpPC, Events, JobInfo, SchedInfo
    <2> QED
      BY <2>1, <2>2, <2>3, <2>4, <2>5
  <1>4. ASSUME NEW r \in Runs, Return(r) PROVE TypeOK'
    BY <1>4, NilAssumption DEF Return, RunAt, TableTypes, RunTypes, LoopTypes, OpTypes,
       FiledUnderItsFile, RunPC, LoopPC, OpPC, Events, JobInfo, SchedInfo
  <1>5. ASSUME NEW r \in Runs, AddOnce(r) PROVE TypeOK'
    BY <1>5, NilAssumption DEF AddOnce, Spawn, LoopAt, LoopDone, Idle, TableTypes, RunTypes,
       LoopTypes, OpTypes, FiledUnderItsFile, RunPC, LoopPC, OpPC, Events, JobInfo, SchedInfo
  <1>6. ASSUME NEW r \in Runs, RunInPlace(r) PROVE TypeOK'
    <2>1. TableTypes'
      BY <1>6, NilAssumption DEF RunInPlace, Spawn, LoopAt, TableTypes, RunTypes, LoopTypes,
         OpTypes, RunPC, LoopPC, OpPC, Events, JobInfo, SchedInfo
    <2>2. RunTypes'
      BY <1>6, NilAssumption DEF RunInPlace, Spawn, LoopAt, TableTypes, RunTypes, LoopTypes,
         OpTypes, RunPC, LoopPC, OpPC, Events, JobInfo, SchedInfo
    <2>3. LoopTypes'
      BY <1>6, NilAssumption DEF RunInPlace, Spawn, LoopAt, TableTypes, RunTypes, LoopTypes,
         OpTypes, RunPC, LoopPC, OpPC, Events, JobInfo, SchedInfo
    <2>4. OpTypes'
      BY <1>6, NilAssumption DEF RunInPlace, Spawn, LoopAt, TableTypes, RunTypes, LoopTypes,
         OpTypes, RunPC, LoopPC, OpPC, Events, JobInfo, SchedInfo
    <2>5. FiledUnderItsFile'
      BY <1>6, NilAssumption DEF RunInPlace, Spawn, LoopAt, TableTypes, RunTypes, LoopTypes,
         OpTypes, FiledUnderItsFile, RunPC, LoopPC, OpPC, Events, JobInfo, SchedInfo
    <2> QED
      BY <2>1, <2>2, <2>3, <2>4, <2>5
  <1>7. ASSUME NEW r \in Runs, NEW s \in entries, Wake(r, s) PROVE TypeOK'
    BY <1>7, NilAssumption DEF Wake, Spawn, TableTypes, RunTypes, LoopTypes, OpTypes,
       FiledUnderItsFile, RunPC, LoopPC, OpPC, Events, JobInfo, SchedInfo
  <1>8. ASSUME NEW e \in Events, NEW f \in Files, Receive(e, f) PROVE TypeOK'
    <2>1. TableTypes'
      BY <1>8, NilAssumption DEF Receive, LoopAt, Idle, TableTypes, RunTypes, LoopTypes, OpTypes,
         RunPC, LoopPC, OpPC, Events, JobInfo, SchedInfo
    <2>2. RunTypes'
      BY <1>8, NilAssumption DEF Receive, LoopAt, Idle, TableTypes, RunTypes, LoopTypes, OpTypes,
         RunPC, LoopPC, OpPC, Events, JobInfo, SchedInfo
    <2>3. LoopTypes'
      <3>1. CASE e = "Create"
        <4>1. loop' = [Idle EXCEPT !.pc = "parse", !.event = "Create", !.file = f]
          BY <1>8, <3>1 DEF Receive
        <4> QED
          BY <4>1 DEF Idle, LoopTypes, LoopPC, Events
      <3>2. CASE e # "Create"
        <4>1. PICK event \in Events :
                 loop' = [Idle EXCEPT !.pc = "isRunning", !.event = event, !.file = f]
          BY <1>8, <3>2 DEF Receive, Events
        <4> QED
          BY <4>1 DEF Idle, LoopTypes, LoopPC, Events
      <3> QED
        BY <3>1, <3>2
    <2>4. OpTypes'
      BY <1>8, NilAssumption DEF Receive, LoopAt, Idle, TableTypes, RunTypes, LoopTypes, OpTypes,
         RunPC, LoopPC, OpPC, Events, JobInfo, SchedInfo
    <2>5. FiledUnderItsFile'
      BY <1>8, NilAssumption DEF Receive, LoopAt, Idle, TableTypes, RunTypes, LoopTypes, OpTypes,
         FiledUnderItsFile, RunPC, LoopPC, OpPC, Events, JobInfo, SchedInfo
    <2> QED
      BY <2>1, <2>2, <2>3, <2>4, <2>5
  <1>9. ASSUME ExitLoop PROVE TypeOK'
    <2>1. loop' = [loop EXCEPT !.pc = "exit"]
          /\ UNCHANGED <<tables, sched, config, runVars, op, onDisk, evicted>>
      BY <1>9 DEF ExitLoop, Goto
    <2>2. LoopTypes'
      BY <2>1 DEF LoopTypes, LoopPC
    <2> QED
      BY <2>1, <2>2 DEF TableTypes, RunTypes, OpTypes, FiledUnderItsFile
  <1>10. ASSUME RemoveIsRunning PROVE TypeOK'
    <2>1. TableTypes'
      BY <1>10, NilAssumption DEF RemoveIsRunning, LoopAt, TableTypes, RunTypes, LoopTypes,
         OpTypes, RunPC, LoopPC, OpPC, Events, JobInfo, SchedInfo
    <2>2. RunTypes'
      BY <1>10, NilAssumption DEF RemoveIsRunning, LoopAt, TableTypes, RunTypes, LoopTypes,
         OpTypes, RunPC, LoopPC, OpPC, Events, JobInfo, SchedInfo
    <2>3. LoopTypes'
      <3>1. loop.file \in Files /\ loop.pc = "isRunning"
        BY <1>10 DEF RemoveIsRunning, LoopAt, LoopTypes
      <3>2. CASE running[loop.file] = Nil
        <4>1. loop' = [loop EXCEPT !.pc = "isScheduled"]
          BY <1>10, <3>2 DEF RemoveIsRunning
        <4> QED
          BY <3>1, <4>1 DEF LoopTypes, LoopPC
      <3>3. CASE running[loop.file] # Nil
        <4>1. loop' = [loop EXCEPT !.pc = "removeRunning", !.run = running[loop.file]]
          BY <1>10, <3>3 DEF RemoveIsRunning
        <4>2. running[loop.file] \in Runs
          BY <3>1, <3>3 DEF TableTypes
        <4> QED
          BY <3>1, <4>1, <4>2 DEF LoopTypes, LoopPC
      <3> QED
        BY <3>2, <3>3
    <2>4. OpTypes'
      BY <1>10, NilAssumption DEF RemoveIsRunning, LoopAt, TableTypes, RunTypes, LoopTypes,
         OpTypes, RunPC, LoopPC, OpPC, Events, JobInfo, SchedInfo
    <2>5. FiledUnderItsFile'
      BY <1>10, NilAssumption DEF RemoveIsRunning, LoopAt, TableTypes, RunTypes, LoopTypes,
         OpTypes, FiledUnderItsFile, RunPC, LoopPC, OpPC, Events, JobInfo, SchedInfo
    <2> QED
      BY <2>1, <2>2, <2>3, <2>4, <2>5
  <1>11. ASSUME RemoveRemoveRunning PROVE TypeOK'
    <2>1. TableTypes'
      BY <1>11, NilAssumption DEF RemoveRemoveRunning, LoopAt, Goto, Evict, TableTypes, RunTypes,
         LoopTypes, OpTypes, RunPC, LoopPC, OpPC, Events, JobInfo, SchedInfo
    <2>2. RunTypes'
      BY <1>11, NilAssumption DEF RemoveRemoveRunning, LoopAt, Goto, Evict, TableTypes, RunTypes,
         LoopTypes, OpTypes, RunPC, LoopPC, OpPC, Events, JobInfo, SchedInfo
    <2>3. LoopTypes'
      BY <1>11, NilAssumption DEF RemoveRemoveRunning, LoopAt, Goto, Evict, TableTypes, RunTypes,
         LoopTypes, OpTypes, RunPC, LoopPC, OpPC, Events, JobInfo, SchedInfo
    <2>4. OpTypes'
      BY <1>11, NilAssumption DEF RemoveRemoveRunning, LoopAt, Goto, Evict, TableTypes, RunTypes,
         LoopTypes, OpTypes, RunPC, LoopPC, OpPC, Events, JobInfo, SchedInfo
    <2>5. FiledUnderItsFile'
      BY <1>11, NilAssumption DEF RemoveRemoveRunning, LoopAt, Goto, Evict, TableTypes, RunTypes,
         LoopTypes, OpTypes, FiledUnderItsFile, RunPC, LoopPC, OpPC, Events, JobInfo, SchedInfo
    <2> QED
      BY <2>1, <2>2, <2>3, <2>4, <2>5
  <1>12. ASSUME RemoveCancel PROVE TypeOK'
    <2>1. TableTypes'
      BY <1>12, NilAssumption DEF RemoveCancel, LoopAt, TableTypes, RunTypes, LoopTypes, OpTypes,
         RunPC, LoopPC, OpPC, Events, JobInfo, SchedInfo
    <2>2. RunTypes'
      BY <1>12, NilAssumption DEF RemoveCancel, LoopAt, TableTypes, RunTypes, LoopTypes, OpTypes,
         RunPC, LoopPC, OpPC, Events, JobInfo, SchedInfo
    <2>3. LoopTypes'
      BY <1>12, NilAssumption DEF RemoveCancel, LoopAt, TableTypes, RunTypes, LoopTypes, OpTypes,
         RunPC, LoopPC, OpPC, Events, JobInfo, SchedInfo
    <2>4. OpTypes'
      BY <1>12, NilAssumption DEF RemoveCancel, LoopAt, TableTypes, RunTypes, LoopTypes, OpTypes,
         RunPC, LoopPC, OpPC, Events, JobInfo, SchedInfo
    <2>5. FiledUnderItsFile'
      BY <1>12, NilAssumption DEF RemoveCancel, LoopAt, TableTypes, RunTypes, LoopTypes, OpTypes,
         FiledUnderItsFile, RunPC, LoopPC, OpPC, Events, JobInfo, SchedInfo
    <2> QED
      BY <2>1, <2>2, <2>3, <2>4, <2>5
  <1>13. ASSUME RemoveIsScheduled PROVE TypeOK'
    <2>1. TableTypes'
      BY <1>13, NilAssumption DEF RemoveIsScheduled, LoopAt, TableTypes, RunTypes, LoopTypes,
         OpTypes, RunPC, LoopPC, OpPC, Events, JobInfo, SchedInfo
    <2>2. RunTypes'
      BY <1>13, NilAssumption DEF RemoveIsScheduled, LoopAt, TableTypes, RunTypes, LoopTypes,
         OpTypes, RunPC, LoopPC, OpPC, Events, JobInfo, SchedInfo
    <2>3. LoopTypes'
      <3>1. loop.file \in Files
        BY <1>13 DEF RemoveIsScheduled, LoopAt, LoopTypes
      <3>2. CASE scheduled[loop.file] = Nil
        <4>1. loop' = [loop EXCEPT !.pc = "isInactive", !.info = Nil]
          BY <1>13, <3>2 DEF RemoveIsScheduled
        <4> QED
          BY <3>1, <4>1 DEF LoopTypes, LoopPC
      <3>3. CASE scheduled[loop.file] # Nil
        <4>1. loop' = [loop EXCEPT !.pc = "removeScheduled", !.info = scheduled[loop.file]]
          BY <1>13, <3>3 DEF RemoveIsScheduled
        <4>2. scheduled[loop.file] \in SchedInfo /\ scheduled[loop.file].j.file = loop.file
          BY <3>1, <3>3 DEF TableTypes, FiledUnderItsFile
        <4> QED
          BY <3>1, <4>1, <4>2 DEF LoopTypes, LoopPC
      <3> QED
        BY <3>2, <3>3
    <2>4. OpTypes'
      BY <1>13, NilAssumption DEF RemoveIsScheduled, LoopAt, TableTypes, RunTypes, LoopTypes,
         OpTypes, RunPC, LoopPC, OpPC, Events, JobInfo, SchedInfo
    <2>5. FiledUnderItsFile'
      BY <1>13, NilAssumption DEF RemoveIsScheduled, LoopAt, TableTypes, RunTypes, LoopTypes,
         OpTypes, FiledUnderItsFile, RunPC, LoopPC, OpPC, Events, JobInfo, SchedInfo
    <2> QED
      BY <2>1, <2>2, <2>3, <2>4, <2>5
  <1>14. ASSUME RemoveRemoveScheduled PROVE TypeOK'
    <2>1. TableTypes'
      BY <1>14, NilAssumption DEF RemoveRemoveScheduled, LoopAt, Goto, TableTypes, RunTypes,
         LoopTypes, OpTypes, RunPC, LoopPC, OpPC, Events, JobInfo, SchedInfo
    <2>2. RunTypes'
      BY <1>14, NilAssumption DEF RemoveRemoveScheduled, LoopAt, Goto, TableTypes, RunTypes,
         LoopTypes, OpTypes, RunPC, LoopPC, OpPC, Events, JobInfo, SchedInfo
    <2>3. LoopTypes'
      BY <1>14, NilAssumption DEF RemoveRemoveScheduled, LoopAt, Goto, TableTypes, RunTypes,
         LoopTypes, OpTypes, RunPC, LoopPC, OpPC, Events, JobInfo, SchedInfo
    <2>4. OpTypes'
      BY <1>14, NilAssumption DEF RemoveRemoveScheduled, LoopAt, Goto, TableTypes, RunTypes,
         LoopTypes, OpTypes, RunPC, LoopPC, OpPC, Events, JobInfo, SchedInfo
    <2>5. FiledUnderItsFile'
      BY <1>14, NilAssumption DEF RemoveRemoveScheduled, LoopAt, Goto, TableTypes, RunTypes,
         LoopTypes, OpTypes, FiledUnderItsFile, RunPC, LoopPC, OpPC, Events, JobInfo, SchedInfo
    <2> QED
      BY <2>1, <2>2, <2>3, <2>4, <2>5
  <1>15. ASSUME RemoveSnapshot PROVE TypeOK'
    BY <1>15, NilAssumption DEF RemoveSnapshot, LoopAt, Goto, TableTypes, RunTypes, LoopTypes,
       OpTypes, FiledUnderItsFile, RunPC, LoopPC, OpPC, Events, JobInfo, SchedInfo
  <1>16. ASSUME RemoveRm PROVE TypeOK'
    <2>1. TableTypes'
      BY <1>16, NilAssumption DEF RemoveRm, LoopAt, CronRm, CronRmNil, TableTypes, RunTypes,
         LoopTypes, OpTypes, RunPC, LoopPC, OpPC, Events, JobInfo, SchedInfo
    <2>2. RunTypes'
      BY <1>16, NilAssumption DEF RemoveRm, LoopAt, CronRm, CronRmNil, TableTypes, RunTypes,
         LoopTypes, OpTypes, RunPC, LoopPC, OpPC, Events, JobInfo, SchedInfo
    <2>3. LoopTypes'
      <3>1. loop.file \in Files /\ loop' = [loop EXCEPT !.pc = "isInactive", !.info = Nil]
        BY <1>16 DEF RemoveRm, LoopAt, LoopTypes
      <3> QED
        BY <3>1 DEF LoopTypes, LoopPC
    <2>4. OpTypes'
      BY <1>16, NilAssumption DEF RemoveRm, LoopAt, CronRm, CronRmNil, TableTypes, RunTypes,
         LoopTypes, OpTypes, RunPC, LoopPC, OpPC, Events, JobInfo, SchedInfo
    <2>5. FiledUnderItsFile'
      BY <1>16, NilAssumption DEF RemoveRm, LoopAt, CronRm, CronRmNil, TableTypes, RunTypes,
         LoopTypes, OpTypes, FiledUnderItsFile, RunPC, LoopPC, OpPC, Events, JobInfo, SchedInfo
    <2> QED
      BY <2>1, <2>2, <2>3, <2>4, <2>5
  <1>17. ASSUME RemoveIsInactive PROVE TypeOK'
    BY <1>17, NilAssumption DEF RemoveIsInactive, LoopAt, AfterRemove, Goto, Idle, TableTypes,
       RunTypes, LoopTypes, OpTypes, FiledUnderItsFile, RunPC, LoopPC, OpPC, Events, JobInfo,
       SchedInfo
  <1>18. ASSUME RemoveRemoveInactive PROVE TypeOK'
    BY <1>18, NilAssumption DEF RemoveRemoveInactive, LoopAt, AfterRemove, Goto, Idle,
       TableTypes, RunTypes, LoopTypes, OpTypes, FiledUnderItsFile, RunPC, LoopPC, OpPC, Events,
       JobInfo, SchedInfo
  <1>19. ASSUME Parse PROVE TypeOK'
    <2>1. TableTypes'
      BY <1>19, NilAssumption DEF Parse, LoopAt, Idle, TableTypes, RunTypes, LoopTypes, OpTypes,
         RunPC, LoopPC, OpPC, Events, JobInfo, SchedInfo
    <2>2. RunTypes'
      BY <1>19, NilAssumption DEF Parse, LoopAt, Idle, TableTypes, RunTypes, LoopTypes, OpTypes,
         RunPC, LoopPC, OpPC, Events, JobInfo, SchedInfo
    <2>3. LoopTypes'
      <3>1. CASE loop' = Idle
        BY <3>1 DEF Idle, LoopTypes, LoopPC, Events
      <3>2. ASSUME NEW j \in JobInfo, j.file = loop.file, loop' = [loop EXCEPT !.pc = "add", !.j = j]
            PROVE  LoopTypes'
        BY <1>19, <3>2 DEF Parse, LoopAt, LoopTypes, LoopPC
      <3> QED
        BY <1>19, <3>1, <3>2 DEF Parse
    <2>4. OpTypes'
      BY <1>19, NilAssumption DEF Parse, LoopAt, Idle, TableTypes, RunTypes, LoopTypes, OpTypes,
         RunPC, LoopPC, OpPC, Events, JobInfo, SchedInfo
    <2>5. FiledUnderItsFile'
      BY <1>19, NilAssumption DEF Parse, LoopAt, Idle, TableTypes, RunTypes, LoopTypes, OpTypes,
         FiledUnderItsFile, RunPC, LoopPC, OpPC, Events, JobInfo, SchedInfo
    <2> QED
      BY <2>1, <2>2, <2>3, <2>4, <2>5
  <1>20. ASSUME AddInactive PROVE TypeOK'
    BY <1>20, NilAssumption DEF AddInactive, LoopAt, LoopDone, Idle, TableTypes, RunTypes,
       LoopTypes, OpTypes, FiledUnderItsFile, RunPC, LoopPC, OpPC, Events, JobInfo, SchedInfo
  <1>21. ASSUME NEW id \in Ids, AddSchedule(id) PROVE TypeOK'
    <2>1. TableTypes'
      BY <1>21, NilAssumption DEF AddSchedule, LoopAt, Schedule, LoopDone, Idle, TableTypes,
         RunTypes, LoopTypes, OpTypes, RunPC, LoopPC, OpPC, Events, JobInfo, SchedInfo
    <2>2. RunTypes'
      BY <1>21, NilAssumption DEF AddSchedule, LoopAt, Schedule, LoopDone, Idle, TableTypes,
         RunTypes, LoopTypes, OpTypes, RunPC, LoopPC, OpPC, Events, JobInfo, SchedInfo
    <2>3. LoopTypes'
      <3>1. loop.file \in Files /\ loop.j \in JobInfo /\ loop.j.file = loop.file
        BY <1>21 DEF AddSchedule, LoopAt, LoopTypes
      <3>2. CASE loop.j.schedule = "invalid"
        <4>1. \E p \in {"idle", "exit"} : loop' = [Idle EXCEPT !.pc = p]
          BY <1>21, <3>2 DEF AddSchedule, LoopDone, Idle
        <4> QED
          BY <4>1 DEF Idle, LoopTypes, LoopPC, Events
      <3>3. CASE loop.j.schedule # "invalid"
        <4> DEFINE info == [id |-> id, j |-> loop.j]
        <4>1. loop' = [loop EXCEPT !.pc = "addScheduled", !.info = info]
          BY <1>21, <3>3 DEF AddSchedule
        <4>2. info \in SchedInfo /\ info.j.file = loop.file
          BY <1>21, <3>1 DEF SchedInfo
        <4> HIDE DEF info
        <4> QED
          BY <3>1, <4>1, <4>2 DEF LoopTypes, LoopPC
      <3> QED
        BY <3>2, <3>3
    <2>4. OpTypes'
      BY <1>21, NilAssumption DEF AddSchedule, LoopAt, Schedule, LoopDone, Idle, TableTypes,
         RunTypes, LoopTypes, OpTypes, RunPC, LoopPC, OpPC, Events, JobInfo, SchedInfo
    <2>5. FiledUnderItsFile'
      BY <1>21, NilAssumption DEF AddSchedule, LoopAt, Schedule, LoopDone, Idle, TableTypes,
         RunTypes, LoopTypes, OpTypes, FiledUnderItsFile, RunPC, LoopPC, OpPC, Events, JobInfo,
         SchedInfo
    <2> QED
      BY <2>1, <2>2, <2>3, <2>4, <2>5
  <1>22. ASSUME AddScheduled PROVE TypeOK'
    BY <1>22, NilAssumption DEF AddScheduled, LoopAt, LoopDone, Idle, TableTypes, RunTypes,
       LoopTypes, OpTypes, FiledUnderItsFile, RunPC, LoopPC, OpPC, Events, JobInfo, SchedInfo
  <1>23. ASSUME RunAdd PROVE TypeOK'
    BY <1>23, NilAssumption DEF RunAdd, LoopAt, Goto, TableTypes, RunTypes, LoopTypes, OpTypes,
       FiledUnderItsFile, RunPC, LoopPC, OpPC, Events, JobInfo, SchedInfo
  <1>24. ASSUME RunReturns PROVE TypeOK'
    BY <1>24, NilAssumption DEF RunReturns, LoopAt, LoopDone, Idle, TableTypes, RunTypes,
       LoopTypes, OpTypes, FiledUnderItsFile, RunPC, LoopPC, OpPC, Events, JobInfo, SchedInfo
  <1>25. ASSUME NEW p \in {"isInactive", "isScheduled"}, NEW f \in Files, Lookup(p, f) PROVE TypeOK'
    BY <1>25, NilAssumption DEF Lookup, TableTypes, RunTypes, LoopTypes, OpTypes,
       FiledUnderItsFile, RunPC, LoopPC, OpPC, Events, JobInfo, SchedInfo
  <1>26. ASSUME ActivateRemove PROVE TypeOK'
    BY <1>26, NilAssumption DEF ActivateRemove, OpAt, OpGoto, TableTypes, RunTypes, LoopTypes,
       OpTypes, FiledUnderItsFile, RunPC, LoopPC, OpPC, Events, JobInfo, SchedInfo
  <1>27. ASSUME NEW id \in Ids, ActivateSchedule(id) PROVE TypeOK'
    <2>1. TableTypes'
      BY <1>27, NilAssumption DEF ActivateSchedule, OpAt, OpGoto, Schedule, TableTypes, RunTypes,
         LoopTypes, OpTypes, RunPC, LoopPC, OpPC, Events, JobInfo, SchedInfo
    <2>2. RunTypes'
      BY <1>27, NilAssumption DEF ActivateSchedule, OpAt, OpGoto, Schedule, TableTypes, RunTypes,
         LoopTypes, OpTypes, RunPC, LoopPC, OpPC, Events, JobInfo, SchedInfo
    <2>3. LoopTypes'
      BY <1>27, NilAssumption DEF ActivateSchedule, OpAt, OpGoto, Schedule, TableTypes, RunTypes,
         LoopTypes, OpTypes, RunPC, LoopPC, OpPC, Events, JobInfo, SchedInfo
    <2>4. OpTypes'
      BY <1>27, NilAssumption DEF ActivateSchedule, OpAt, OpGoto, Schedule, TableTypes, RunTypes,
         LoopTypes, OpTypes, RunPC, LoopPC, OpPC, Events, JobInfo, SchedInfo
    <2>5. FiledUnderItsFile'
      BY <1>27, NilAssumption DEF ActivateSchedule, OpAt, OpGoto, Schedule, TableTypes, RunTypes,
         LoopTypes, OpTypes, FiledUnderItsFile, RunPC, LoopPC, OpPC, Events, JobInfo, SchedInfo
    <2> QED
      BY <2>1, <2>2, <2>3, <2>4, <2>5
  <1>28. ASSUME ActivateAdd PROVE TypeOK'
    BY <1>28, NilAssumption DEF ActivateAdd, OpAt, OpIdle, TableTypes, RunTypes, LoopTypes,
       OpTypes, FiledUnderItsFile, RunPC, LoopPC, OpPC, Events, JobInfo, SchedInfo
  <1>29. ASSUME DeactivateRemove PROVE TypeOK'
    BY <1>29, NilAssumption DEF DeactivateRemove, OpAt, OpGoto, TableTypes, RunTypes, LoopTypes,
       OpTypes, FiledUnderItsFile, RunPC, LoopPC, OpPC, Events, JobInfo, SchedInfo
  <1>30. ASSUME DeactivateSnapshot PROVE TypeOK'
    <2>1. op.pc = "snapshot" /\ \E p \in {"rm", "rmNil"} : op' = [op EXCEPT !.pc = p]
      BY <1>30 DEF DeactivateSnapshot, OpAt, OpGoto
    <2>2. OpTypes'
      BY <2>1 DEF OpTypes, OpPC
    <2>3. UNCHANGED <<tables, sched, config, runVars, loop, onDisk, evicted>>
      BY <1>30 DEF DeactivateSnapshot
    <2> QED
      BY <2>2, <2>3 DEF TableTypes, RunTypes, LoopTypes, FiledUnderItsFile
  <1>31. ASSUME DeactivateRm PROVE TypeOK'
    <2>1. TableTypes'
      BY <1>31, NilAssumption DEF DeactivateRm, OpAt, OpGoto, CronRm, CronRmNil, TableTypes,
         RunTypes, LoopTypes, OpTypes, RunPC, LoopPC, OpPC, Events, JobInfo, SchedInfo
    <2>2. RunTypes'
      BY <1>31, NilAssumption DEF DeactivateRm, OpAt, OpGoto, CronRm, CronRmNil, TableTypes,
         RunTypes, LoopTypes, OpTypes, RunPC, LoopPC, OpPC, Events, JobInfo, SchedInfo
    <2>3. LoopTypes'
      BY <1>31, NilAssumption DEF DeactivateRm, OpAt, OpGoto, CronRm, CronRmNil, TableTypes,
         RunTypes, LoopTypes, OpTypes, RunPC, LoopPC, OpPC, Events, JobInfo, SchedInfo
    <2>4. OpTypes'
      BY <1>31, NilAssumption DEF DeactivateRm, OpAt, OpGoto, CronRm, CronRmNil, TableTypes,
         RunTypes, LoopTypes, OpTypes, RunPC, LoopPC, OpPC, Events, JobInfo, SchedInfo
    <2>5. FiledUnderItsFile'
      BY <1>31, NilAssumption DEF DeactivateRm, OpAt, OpGoto, CronRm, CronRmNil, TableTypes,
         RunTypes, LoopTypes, OpTypes, FiledUnderItsFile, RunPC, LoopPC, OpPC, Events, JobInfo,
         SchedInfo
    <2> QED
      BY <2>1, <2>2, <2>3, <2>4, <2>5
  <1>32. ASSUME DeactivateAdd PROVE TypeOK'
    BY <1>32, NilAssumption DEF DeactivateAdd, OpAt, OpIdle, TableTypes, RunTypes, LoopTypes,
       OpTypes, FiledUnderItsFile, RunPC, LoopPC, OpPC, Events, JobInfo, SchedInfo
  <1>33. ASSUME Start PROVE TypeOK'
    BY <1>33, NilAssumption DEF Start, TableTypes, RunTypes, LoopTypes, OpTypes,
       FiledUnderItsFile, RunPC, LoopPC, OpPC, Events, JobInfo, SchedInfo
  <1>34. ASSUME Stop PROVE TypeOK'
    <2>1. TableTypes'
      BY <1>34, NilAssumption DEF Stop, TableTypes, RunTypes, LoopTypes, OpTypes, RunPC, LoopPC,
         OpPC, Events, JobInfo, SchedInfo
    <2>2. RunTypes'
      BY <1>34, NilAssumption DEF Stop, TableTypes, RunTypes, LoopTypes, OpTypes, RunPC, LoopPC,
         OpPC, Events, JobInfo, SchedInfo
    <2>3. LoopTypes'
      BY <1>34, NilAssumption DEF Stop, TableTypes, RunTypes, LoopTypes, OpTypes, RunPC, LoopPC,
         OpPC, Events, JobInfo, SchedInfo
    <2>4. OpTypes'
      BY <1>34, NilAssumption DEF Stop, TableTypes, RunTypes, LoopTypes, OpTypes, RunPC, LoopPC,
         OpPC, Events, JobInfo, SchedInfo
    <2>5. FiledUnderItsFile'
      BY <1>34, NilAssumption DEF Stop, TableTypes, RunTypes, LoopTypes, OpTypes,
         FiledUnderItsFile, RunPC, LoopPC, OpPC, Events, JobInfo, SchedInfo
    <2> QED
      BY <2>1, <2>2, <2>3, <2>4, <2>5
  <1>35. ASSUME Cancel PROVE TypeOK'
    BY <1>35, NilAssumption DEF Cancel, TableTypes, RunTypes, LoopTypes, OpTypes,
       FiledUnderItsFile, RunPC, LoopPC, OpPC, Events, JobInfo, SchedInfo
  <1>36. ASSUME NEW max \in Caps, SetMaxCompleted(max) PROVE TypeOK'
    BY <1>36, NilAssumption DEF SetMaxCompleted, TableTypes, RunTypes, LoopTypes, OpTypes,
       FiledUnderItsFile, RunPC, LoopPC, OpPC, Events, JobInfo, SchedInfo
  <1>37. ASSUME UNCHANGED vars PROVE TypeOK'
    BY <1>37 DEF vars, TableTypes, RunTypes, LoopTypes, OpTypes, FiledUnderItsFile
  <1> QED
    BY <1>1, <1>2, <1>3, <1>4, <1>5, <1>6, <1>7, <1>8, <1>9, <1>10, <1>11, <1>12, <1>13, <1>14,
       <1>15, <1>16, <1>17, <1>18, <1>19, <1>20, <1>21, <1>22, <1>23, <1>24, <1>25, <1>26, <1>27,
       <1>28, <1>29, <1>30, <1>31, <1>32, <1>33, <1>34, <1>35, <1>36, <1>37 DEF Next, RunStep,
       LoopStep, RemoveStep, AddStep, OpStep

\* Type correctness: no pointer that the executor dereferences without a test
\* is nil, whatever the interleaving of its critical sections.
THEOREM TypeCorrect == Spec => []TypeOK
  BY TypeInit, TypeNext, PTL DEF Spec

-----------------------------------------------------------------------------
(* Runs, the running table and the completed list.                         *)

\* A run in progress is in the table, unless a run of its file was evicted.
TrackedUnlessEvicted ==
    \A r \in Runs : Live(r) => running[FileOf(r)] = r \/ FileOf(r) \in evicted

\* The inductive invariant of the runs.  NoOverlapUnlessEvicted follows from its
\* last part: two runs of a file cannot both be the one the table names.
RunInv == RunningEntryLive /\ ReportedOnce /\ TrackedUnlessEvicted

\* Only these actions touch the runs and their tables.
LEMMA RunFrame ==
    ASSUME [Next]_vars
    PROVE  \/ \E r \in Runs : \/ AddRunning(r) \/ RemoveRunning(r) \/ AddComplete(r)
                              \/ Return(r)
                              \/ \E j : Spawn(r, j) /\ UNCHANGED <<running, completed, evicted>>
           \/ RemoveRemoveRunning
           \/ UNCHANGED <<running, completed, pc, jobOf, evicted>>
  <1> USE DEF tables, runVars
  <1>1. ASSUME NEW r \in Runs, AddOnce(r) \/ RunInPlace(r)
        PROVE  \E j : Spawn(r, j) /\ UNCHANGED <<running, completed, evicted>>
    BY <1>1 DEF AddOnce, RunInPlace
  <1>2. ASSUME NEW r \in Runs, NEW s \in entries, Wake(r, s)
        PROVE  \E j : Spawn(r, j) /\ UNCHANGED <<running, completed, evicted>>
    BY <1>2 DEF Wake
  <1>3. ASSUME RemoveStep
        PROVE  RemoveRemoveRunning \/ UNCHANGED <<running, completed, pc, jobOf, evicted>>
    BY <1>3 DEF RemoveStep, RemoveIsRunning, RemoveCancel, RemoveIsScheduled,
       RemoveRemoveScheduled, RemoveSnapshot, RemoveRm, RemoveIsInactive, RemoveRemoveInactive
  <1>4. ASSUME AddStep \/ Parse \/ RunReturns \/ RunAdd \/ ExitLoop
        PROVE  UNCHANGED <<running, completed, pc, jobOf, evicted>>
    BY <1>4 DEF AddStep, AddInactive, AddScheduled, AddSchedule, Parse, RunReturns, RunAdd, ExitLoop
  <1>5. ASSUME OpStep \/ Start \/ Stop \/ Cancel \/ \E max \in Caps : SetMaxCompleted(max)
        PROVE  UNCHANGED <<running, completed, pc, jobOf, evicted>>
    BY <1>5 DEF OpStep, ActivateRemove, ActivateAdd, DeactivateRemove, DeactivateSnapshot,
       DeactivateRm, DeactivateAdd, ActivateSchedule, Start, Stop, Cancel, SetMaxCompleted
  <1>6. ASSUME \/ \E e \in Events, f \in Files : Receive(e, f)
               \/ \E p \in {"isInactive", "isScheduled"}, f \in Files : Lookup(p, f)
        PROVE  UNCHANGED <<running, completed, pc, jobOf, evicted>>
    BY <1>6 DEF Receive, Lookup
  <1>7. ASSUME UNCHANGED vars
        PROVE  UNCHANGED <<running, completed, pc, jobOf, evicted>>
    BY <1>7 DEF vars
  <1> QED
    BY <1>1, <1>2, <1>3, <1>4, <1>5, <1>6, <1>7 DEF Next, RunStep, LoopStep

\* What trimming keeps: a suffix, so the last run stays last, the listed runs
\* were listed before, none twice if none was, and the limit is respected.
LEMMA NewestSuffix ==
    ASSUME TypeOK, NEW s \in Seq(Runs)
    PROVE  /\ Listed(Newest(s)) \subseteq Listed(s)
           /\ (\A i, k \in 1..Len(s) : s[i] = s[k] => i = k) =>
                \A i, k \in 1..Len(Newest(s)) : Newest(s)[i] = Newest(s)[k] => i = k
           /\ s # <<>> => Newest(s) # <<>> /\ Newest(s)[Len(Newest(s))] = s[Len(s)]
           /\ maxCompleted > 0 => Len(Newest(s)) <= maxCompleted
  <1>1. maxCompleted \in Nat /\ Len(s) \in Nat
    BY CapsAssumption DEF TypeOK, TableTypes
  <1>2. CASE maxCompleted > 0 /\ maxCompleted < Len(s)
    <2> DEFINE d == Len(s) - maxCompleted
    <2>1. /\ Newest(s) = SubSeq(s, d + 1, Len(s))
          /\ d \in Nat /\ d + 1 \in 1..Len(s)
      BY <1>1, <1>2 DEF Newest
    <2>2. /\ Len(Newest(s)) = maxCompleted
          /\ \A i \in 1..maxCompleted : Newest(s)[i] = s[d + i] /\ d + i \in 1..Len(s)
      BY <1>1, <1>2, <2>1
    <2> HIDE DEF d
    <2> QED
      <3>1. Listed(Newest(s)) \subseteq Listed(s)
        BY <2>2 DEF Listed
      <3>2. ASSUME \A i, k \in 1..Len(s) : s[i] = s[k] => i = k,
                   NEW i \in 1..Len(Newest(s)), NEW k \in 1..Len(Newest(s)),
                   Newest(s)[i] = Newest(s)[k]
            PROVE  i = k
        BY <1>1, <2>1, <2>2, <3>2
      <3>3. Newest(s) # <<>> /\ Newest(s)[Len(Newest(s))] = s[Len(s)]
        BY <1>1, <1>2, <2>2 DEF d
      <3> QED
        BY <2>2, <3>1, <3>2, <3>3, <1>1
  <1>3. CASE ~(maxCompleted > 0 /\ maxCompleted < Len(s))
    BY <1>1, <1>3 DEF Newest
  <1> QED
    BY <1>2, <1>3

LEMMA RunInit == Init => RunInv
  BY DEF Init, RunInv, RunningEntryLive, ReportedOnce, TrackedUnlessEvicted, Live, Listed

LEMMA RunNext == TypeOK /\ RunInv /\ [Next]_vars => RunInv'
  <1> SUFFICES ASSUME TypeOK, RunInv, [Next]_vars PROVE RunInv'
    OBVIOUS
  <1> USE NilAssumption DEF TypeOK, TableTypes, RunTypes, RunInv, RunOrNil, RunPC
  <1>1. ASSUME NEW r \in Runs, AddRunning(r) PROVE RunInv'
    <2>1. CASE running[FileOf(r)] = Nil
      BY <1>1, <2>1 DEF AddRunning, RunAt, RunningEntryLive, ReportedOnce,
         TrackedUnlessEvicted, Live, FileOf, Listed, JobInfo
    <2>2. CASE running[FileOf(r)] # Nil
      <3>1. /\ pc[r] = "woken" /\ pc' = [pc EXCEPT ![r] = "free"]
            /\ jobOf' = [jobOf EXCEPT ![r] = Nil]
            /\ UNCHANGED <<running, completed, evicted>>
        BY <1>1, <2>2 DEF AddRunning, RunAt, Release
      <3>2. RunningEntryLive'
        <4> SUFFICES ASSUME NEW f \in Files, running[f] # Nil
                     PROVE  Live(running[f])' /\ FileOf(running[f])' = f
          BY <3>1 DEF RunningEntryLive
        <4>1. running[f] \in Runs /\ Live(running[f]) /\ FileOf(running[f]) = f
          BY DEF RunningEntryLive
        <4> QED
          BY <3>1, <4>1 DEF Live, FileOf
      <3>3. TrackedUnlessEvicted'
        <4> SUFFICES ASSUME NEW q \in Runs, Live(q)'
                     PROVE  running'[FileOf(q)'] = q \/ FileOf(q)' \in evicted'
          BY DEF TrackedUnlessEvicted
        <4>1. q # r /\ Live(q) /\ jobOf'[q] = jobOf[q]
          BY <3>1 DEF Live
        <4>2. running[FileOf(q)] = q \/ FileOf(q) \in evicted
          BY <4>1 DEF TrackedUnlessEvicted
        <4> QED
          BY <3>1, <4>1, <4>2 DEF FileOf
      <3>4. ReportedOnce'
        <4>1. \A q \in Listed(completed) : pc[q] = "done" /\ q # r
          BY <3>1 DEF ReportedOnce
        <4>2. \A q \in Listed(completed) : q \in Runs
          BY DEF Listed
        <4>3. \A q \in Listed(completed) : pc'[q] = "done"
          BY <3>1, <4>1, <4>2
        <4>4. Listed(completed)' = Listed(completed)
          BY <3>1 DEF Listed
        <4> QED
          BY <3>1, <4>3, <4>4 DEF ReportedOnce
      <3> QED
        BY <3>2, <3>3, <3>4
    <2> QED
      BY <2>1, <2>2
  <1>2. ASSUME NEW r \in Runs, RemoveRunning(r) PROVE RunInv'
    BY <1>2 DEF RemoveRunning, RunAt, Evict, RunningEntryLive, ReportedOnce,
       TrackedUnlessEvicted, Live, FileOf, Listed, JobInfo
  <1>3. ASSUME NEW r \in Runs, AddComplete(r) PROVE RunInv'
    <2> DEFINE s == Append(completed, r)
               gone == (Listed(completed) \cup {r}) \ Listed(completed')
    <2>1. /\ s \in Seq(Runs) /\ completed' = Newest(s)
          /\ pc[r] = "removed" /\ UNCHANGED <<running, evicted>>
          /\ pc' = [q \in Runs |-> IF q \in gone THEN "free" ELSE IF q = r THEN "done" ELSE pc[q]]
          /\ jobOf' = [q \in Runs |-> IF q \in gone THEN Nil ELSE jobOf[q]]
      BY <1>3 DEF AddComplete, RunAt
    <2>2. /\ Listed(s) = Listed(completed) \cup {r}
          /\ Listed(completed) \subseteq Runs
          /\ \A q \in Listed(completed) : pc[q] = "done"
          /\ r \notin Listed(completed)
      <3>1. /\ completed \in Seq(Runs) /\ Len(completed) \in Nat /\ Len(s) = Len(completed) + 1
            /\ \A i \in 1..Len(completed) : s[i] = completed[i] /\ completed[i] \in Runs
            /\ s[Len(completed) + 1] = r
        OBVIOUS
      <3>2. Listed(s) = Listed(completed) \cup {r}
        BY <3>1 DEF Listed
      <3>3. Listed(completed) \subseteq Runs
        BY <3>1 DEF Listed
      <3>4. \A q \in Listed(completed) : pc[q] = "done"
        BY DEF ReportedOnce
      <3> QED
        BY <2>1, <3>2, <3>3, <3>4
    <2>3. \A i, k \in 1..Len(s) : s[i] = s[k] => i = k
      BY <2>2 DEF Listed, ReportedOnce
    <2>4. /\ Listed(completed') \subseteq Listed(completed) \cup {r}
          /\ \A i, k \in 1..Len(completed') : completed'[i] = completed'[k] => i = k
      <3>1. /\ Listed(Newest(s)) \subseteq Listed(s)
            /\ (\A i, k \in 1..Len(s) : s[i] = s[k] => i = k) =>
                 \A i, k \in 1..Len(Newest(s)) : Newest(s)[i] = Newest(s)[k] => i = k
        BY <2>1, NewestSuffix
      <3> HIDE DEF s
      <3> QED
        BY <2>1, <2>2, <2>3, <3>1
    <2>5. /\ \A q \in Runs : Live(q) => q \notin gone /\ q # r
          /\ \A q \in Runs : q \notin gone /\ q # r => pc'[q] = pc[q] /\ jobOf'[q] = jobOf[q]
          /\ \A q \in Runs : Live(q)' => Live(q)
      BY <2>1, <2>2 DEF Live
    <2> HIDE DEF gone
    <2>6. RunningEntryLive'
      BY <2>1, <2>5 DEF RunningEntryLive, Live, FileOf
    <2>7. \A q \in Listed(completed') : pc'[q] = "done"
      BY <2>1, <2>2, <2>4 DEF gone
    <2>8. ReportedOnce'
      BY <2>2, <2>4, <2>6, <2>7 DEF ReportedOnce, RunningEntryLive, Live
    <2>9. TrackedUnlessEvicted'
      BY <2>1, <2>5 DEF TrackedUnlessEvicted, Live, FileOf
    <2> QED
      BY <2>6, <2>8, <2>9
  <1>4. ASSUME NEW r \in Runs, Return(r) PROVE RunInv'
    BY <1>4 DEF Return, RunAt, tables, RunningEntryLive, ReportedOnce, TrackedUnlessEvicted,
       Live, FileOf, Listed
  <1>5. ASSUME NEW r \in Runs, NEW j, Spawn(r, j), UNCHANGED <<running, completed, evicted>>
        PROVE  RunInv'
    BY <1>5 DEF Spawn, RunningEntryLive, ReportedOnce, TrackedUnlessEvicted, Live, FileOf, Listed
  <1>6. ASSUME RemoveRemoveRunning PROVE RunInv'
    BY <1>6 DEF RemoveRemoveRunning, Evict, runVars, RunningEntryLive, ReportedOnce,
       TrackedUnlessEvicted, Live, FileOf, Listed, LoopAt, LoopTypes
  <1>7. ASSUME UNCHANGED <<running, completed, pc, jobOf, evicted>> PROVE RunInv'
    BY <1>7 DEF RunningEntryLive, ReportedOnce, TrackedUnlessEvicted, Live, FileOf, Listed
  <1> QED
    BY <1>1, <1>2, <1>3, <1>4, <1>5, <1>6, <1>7, RunFrame

LEMMA RunInvariant == Spec => [](TypeOK /\ RunInv)
  <1>1. TypeOK /\ RunInv /\ [Next]_vars => (TypeOK /\ RunInv)'
    BY TypeNext, RunNext
  <1> QED
    BY TypeInit, RunInit, <1>1, PTL DEF Spec

\* Although removeRunning deletes by file, the running table names only runs in
\* progress, each under its own file.
THEOREM RunningTableExact == Spec => []RunningEntryLive
  BY RunInvariant, PTL DEF RunInv

\* No run is reported twice, or both as running and as completed.
THEOREM RunsReportedOnce == Spec => []ReportedOnce
  BY RunInvariant, PTL DEF RunInv

\* addRunning excludes a second run of a file as long as nobody but the run
\* itself takes its entry out of the table.
THEOREM Exclusion == Spec => []NoOverlapUnlessEvicted
  <1>1. TypeOK /\ RunInv => NoOverlapUnlessEvicted
    BY DEF TypeOK, RunInv, TrackedUnlessEvicted, NoOverlapUnlessEvicted
  <1> QED
    BY <1>1, RunInvariant, PTL

\* A wake-up is turned away only while another run of its file is in progress.
THEOREM RejectionsJustified == Spec => RejectionJustified
  <1> DEFINE A == \A r \in Runs : pc[r] = "woken" /\ pc'[r] = "free" =>
                    \E q \in Runs \ {r} : Live(q) /\ FileOf(q) = FileOf(r)
  <1>1. ASSUME TypeOK, RunInv, [Next]_vars PROVE [A]_vars
    <2> SUFFICES ASSUME NEW r \in Runs, pc[r] = "woken", pc'[r] = "free"
                 PROVE  \E q \in Runs \ {r} : Live(q) /\ FileOf(q) = FileOf(r)
      OBVIOUS
    <2> USE NilAssumption, <1>1 DEF TypeOK, TableTypes, RunTypes, RunInv, RunOrNil, RunPC
    <2>1. ASSUME NEW q \in Runs, AddRunning(q) PROVE q = r /\ running[FileOf(r)] # Nil
      BY <2>1 DEF AddRunning, RunAt, Release
    <2>2. ASSUME NEW q \in Runs, RemoveRunning(q) \/ Return(q) PROVE FALSE
      BY <2>2 DEF RemoveRunning, Return, RunAt
    <2>3. ASSUME NEW q \in Runs, AddComplete(q) PROVE FALSE
      BY <2>3 DEF AddComplete, RunAt, ReportedOnce
    <2>4. ASSUME NEW q \in Runs, NEW j, Spawn(q, j) PROVE FALSE
      BY <2>4 DEF Spawn
    <2>5. ASSUME RemoveRemoveRunning \/ UNCHANGED pc PROVE FALSE
      BY <2>5 DEF RemoveRemoveRunning, runVars
    <2>6. running[FileOf(r)] # Nil
      BY <2>1, <2>2, <2>3, <2>4, <2>5, RunFrame
    <2> QED
      BY <2>6 DEF RunningEntryLive, Live, FileOf, JobInfo
  <1> QED
    BY <1>1, RunInvariant, PTL DEF Spec, RejectionJustified

\* A change of the completed list respects maxCompleted and ends in the run
\* that has just left the table.
THEOREM HistoryStaysCapped == Spec => HistoryCapped
  <1> DEFINE A == completed' # completed =>
                    /\ maxCompleted > 0 => Len(completed') <= maxCompleted
                    /\ pc[completed'[Len(completed')]] = "removed"
  <1>1. ASSUME TypeOK, [Next]_vars PROVE [A]_vars
    <2> SUFFICES ASSUME completed' # completed
                 PROVE  /\ maxCompleted > 0 => Len(completed') <= maxCompleted
                        /\ pc[completed'[Len(completed')]] = "removed"
      OBVIOUS
    <2>1. PICK r \in Runs : AddComplete(r)
      BY <1>1, RunFrame DEF AddRunning, RemoveRunning, Return, RemoveRemoveRunning, tables
    <2> DEFINE s == Append(completed, r)
    <2>2. s \in Seq(Runs) /\ s # <<>> /\ s[Len(s)] = r
      BY <1>1 DEF TypeOK, TableTypes
    <2>3. completed' = Newest(s) /\ pc[r] = "removed"
      BY <2>1 DEF AddComplete, RunAt
    <2>4. /\ maxCompleted > 0 => Len(Newest(s)) <= maxCompleted
          /\ Newest(s)[Len(Newest(s))] = r
      BY <1>1, <2>2, NewestSuffix
    <2> QED
      BY <2>3, <2>4
  <1> QED
    BY <1>1, TypeCorrect, PTL DEF Spec, HistoryCapped

-----------------------------------------------------------------------------
(* The scheduled table and the entries of cron, without manual activation. *)

\* Program counters at which the loop holds nothing of the scheduler.
Uninvolved == {"idle", "exit", "run", "runWait", "parse", "isRunning", "removeRunning",
               "cancel", "isScheduled", "isInactive", "removeInactive", "add"}

\* Every info that the table or the loop holds names an entry that cron has.
SchedInv ==
    /\ op.pc = "idle" /\ ~crashed
    /\ \A s, t \in entries : s.id = t.id => s = t
    /\ \A f \in Files : scheduled[f] # Nil => scheduled[f] \in entries
    /\ loop.pc \in {"removeScheduled", "snapshot", "rm", "addScheduled"} => loop.info \in entries
    /\ loop.pc = "removeScheduled" => loop.info = scheduled[loop.file]
    /\ loop.pc \in {"snapshot", "rm"} => scheduled[loop.file] = Nil
    /\ loop.pc # "rmNil"

\* Only these actions concern the scheduler when no job is activated by hand.
LEMMA SchedFrame ==
    ASSUME ~ManualActive, TypeOK, op.pc = "idle", [Next]_vars
    PROVE  \/ RemoveIsScheduled \/ RemoveRemoveScheduled \/ RemoveSnapshot \/ RemoveRm
           \/ (\E id \in Ids : AddSchedule(id)) \/ AddScheduled
           \/ /\ UNCHANGED <<scheduled, entries, crashed, op>>
              /\ loop' = loop \/ loop'.pc \in Uninvolved
  <1> DEFINE Quiet == /\ UNCHANGED <<scheduled, entries, crashed, op>>
                      /\ loop' = loop \/ loop'.pc \in Uninvolved
  <1> USE DEF tables, sched, TypeOK, LoopTypes
  <1>1. ASSUME NEW r \in Runs, AddOnce(r) \/ RunInPlace(r) PROVE Quiet
    <2>1. CASE AddOnce(r)
      BY <2>1 DEF AddOnce, LoopDone, Idle, Uninvolved
    <2>2. CASE RunInPlace(r)
      BY <2>2 DEF RunInPlace, Uninvolved
    <2> QED
      BY <1>1, <2>1, <2>2
  <1>2. ASSUME NEW r \in Runs, RunStep(r) \/ Return(r) \/ \E s \in entries : Wake(r, s)
        PROVE  Quiet
    BY <1>2 DEF RunStep, AddRunning, RemoveRunning, AddComplete, Return, Wake
  <1>3. ASSUME NEW e \in Events, NEW f \in Files, Receive(e, f) PROVE Quiet
    BY <1>3 DEF Receive, Idle, Uninvolved
  <1>4. ASSUME RemoveIsRunning \/ RemoveRemoveRunning \/ RemoveCancel PROVE Quiet
    <2>1. CASE RemoveIsRunning
      BY <2>1 DEF RemoveIsRunning, Uninvolved
    <2>2. CASE RemoveRemoveRunning \/ RemoveCancel
      BY <2>2 DEF RemoveRemoveRunning, RemoveCancel, Goto, Uninvolved
    <2> QED
      BY <1>4, <2>1, <2>2
  <1>5. ASSUME RemoveIsInactive \/ RemoveRemoveInactive PROVE Quiet
    <2>1. AfterRemove => loop'.pc \in {"parse", "idle"}
      BY DEF AfterRemove, Goto, Idle
    <2>2. CASE RemoveIsInactive
      BY <2>1, <2>2 DEF RemoveIsInactive, Goto, Uninvolved
    <2>3. CASE RemoveRemoveInactive
      BY <2>1, <2>3 DEF RemoveRemoveInactive, Uninvolved
    <2> QED
      BY <1>5, <2>2, <2>3
  <1>6. ASSUME Parse PROVE Quiet
    <2>1. loop' = Idle \/ \E j \in JobInfo : loop' = [loop EXCEPT !.pc = "add", !.j = j]
      BY <1>6 DEF Parse
    <2>2. loop'.pc \in {"idle", "add"}
      <3>1. CASE loop' = Idle
        BY <3>1 DEF Idle
      <3>2. ASSUME NEW j \in JobInfo, loop' = [loop EXCEPT !.pc = "add", !.j = j]
            PROVE  loop'.pc = "add"
        BY <3>2
      <3> QED
        BY <2>1, <3>1, <3>2
    <2> QED
      BY <1>6, <2>2 DEF Parse, Uninvolved
  <1>7. ASSUME RunAdd \/ ExitLoop \/ RunReturns PROVE Quiet
    BY <1>7 DEF RunAdd, ExitLoop, RunReturns, Goto, LoopDone, Idle, Uninvolved
  <1>8. ASSUME OpStep PROVE FALSE
    BY <1>8 DEF OpStep, OpAt, ActivateRemove, ActivateAdd, DeactivateRemove, DeactivateSnapshot,
       DeactivateRm, DeactivateAdd, ActivateSchedule
  <1>9. ASSUME AddInactive \/ \E p, f : Lookup(p, f) PROVE FALSE
    BY <1>9 DEF AddInactive, Lookup
  <1>10. ASSUME Start \/ Stop \/ Cancel \/ \E max \in Caps : SetMaxCompleted(max) PROVE Quiet
    BY <1>10 DEF Start, Stop, Cancel, SetMaxCompleted
  <1>11. ASSUME UNCHANGED vars PROVE Quiet
    BY <1>11 DEF vars
  <1> QED
    BY <1>1, <1>2, <1>3, <1>4, <1>5, <1>6, <1>7, <1>8, <1>9, <1>10, <1>11
       DEF Next, LoopStep, RemoveStep, AddStep

LEMMA SchedInit == Init => SchedInv
  <1> SUFFICES ASSUME Init PROVE SchedInv
    OBVIOUS
  <1>1. loop.pc \in {"idle", "run"}
    <2>1. ASSUME NEW j \in JobInfo,
                 loop = [Idle EXCEPT !.pc = "run", !.event = "Run", !.file = j.file, !.j = j]
          PROVE  loop.pc = "run"
      BY <2>1 DEF Idle
    <2>2. Idle.pc = "idle"
      BY DEF Idle
    <2> QED
      BY <2>1, <2>2 DEF Init, InitLoop
  <1> QED
    BY <1>1 DEF Init, SchedInv, OpIdle

LEMMA SchedNext ==
    ASSUME ~ManualActive, TypeOK, SchedInv, [Next]_vars
    PROVE  SchedInv'
  <1> USE NilAssumption DEF TypeOK, TableTypes, LoopTypes, FiledUnderItsFile, SchedOrNil
  <1>1. ASSUME RemoveIsScheduled PROVE SchedInv'
    BY <1>1 DEF RemoveIsScheduled, LoopAt, tables, sched, SchedInv
  <1>2. ASSUME RemoveRemoveScheduled PROVE SchedInv'
    BY <1>2 DEF RemoveRemoveScheduled, LoopAt, Goto, sched, SchedInv
  <1>3. ASSUME RemoveSnapshot PROVE SchedInv'
    BY <1>3 DEF RemoveSnapshot, LoopAt, Goto, Known, tables, sched, SchedInv
  <1>4. ASSUME RemoveRm PROVE SchedInv'
    <2>1. /\ loop.pc = "rm" /\ loop'.pc = "isInactive"
          /\ entries' = {s \in entries : s.id # loop.info.id}
          /\ UNCHANGED <<scheduled, crashed, op>>
      BY <1>4 DEF RemoveRm, LoopAt, CronRm, tables, SchedInv
    <2>2. ASSUME NEW f \in Files, scheduled[f] # Nil PROVE scheduled[f] \in entries'
      BY <2>1, <2>2 DEF SchedInv
    <2> QED
      BY <2>1, <2>2 DEF SchedInv
  <1>5. ASSUME NEW id \in Ids, AddSchedule(id) PROVE SchedInv'
    <2>1. CASE loop.j.schedule = "invalid"
      BY <1>5, <2>1 DEF AddSchedule, Schedule, LoopAt, LoopDone, Idle, tables, SchedInv
    <2>2. CASE loop.j.schedule # "invalid"
      <3> DEFINE new == [id |-> id, j |-> loop.j]
      <3>1. /\ entries' = entries \cup {new} /\ loop'.info = new /\ loop'.pc = "addScheduled"
            /\ UNCHANGED <<scheduled, crashed, op>>
        BY <1>5, <2>2 DEF AddSchedule, Schedule, LoopAt, tables
      <3>2. \A s \in entries : s.id # new.id
        BY <1>5 DEF AddSchedule, FreshId, Referred
      <3> QED
        BY <3>1, <3>2 DEF SchedInv
    <2> QED
      BY <2>1, <2>2
  <1>6. ASSUME AddScheduled PROVE SchedInv'
    BY <1>6 DEF AddScheduled, LoopAt, LoopDone, Idle, sched, SchedInv
  <1>7. ASSUME UNCHANGED <<scheduled, entries, crashed, op>>,
               loop' = loop \/ loop'.pc \in Uninvolved
        PROVE  SchedInv'
    BY <1>7 DEF SchedInv, Uninvolved
  <1> QED
    BY <1>1, <1>2, <1>3, <1>4, <1>5, <1>6, <1>7, SchedFrame DEF SchedInv

LEMMA SchedInvariant == ~ManualActive => (Spec => [](TypeOK /\ SchedInv))
  <1> SUFFICES ASSUME ~ManualActive PROVE Spec => [](TypeOK /\ SchedInv)
    OBVIOUS
  <1>1. TypeOK /\ SchedInv /\ [Next]_vars => (TypeOK /\ SchedInv)'
    BY TypeNext, SchedNext
  <1> QED
    BY TypeInit, SchedInit, <1>1, PTL DEF Spec

\* The cron goroutine never meets a nil entry: without manual activation every
\* ID that Remove looks up is that of an entry.
THEOREM CronNeverCrashes == Spec => []SchedulerSurvives
  <1>1. CASE ManualActive
    <2>1. SchedulerSurvives
      BY <1>1 DEF SchedulerSurvives
    <2> QED
      BY <2>1, PTL
  <1>2. CASE ~ManualActive
    <2>1. SchedInv => SchedulerSurvives
      BY DEF SchedInv, SchedulerSurvives
    <2> QED
      BY <1>2, <2>1, SchedInvariant, PTL
  <1> QED
    BY <1>1, <1>2

-----------------------------------------------------------------------------
(* No orphan entries: what Remove must take out of cron, it can find.      *)

\* Where the loop stands before, and after, it has emptied the file's place in
\* the scheduled table.
BeforeUnschedule == {"isRunning", "removeRunning", "cancel", "isScheduled", "removeScheduled"}
AfterUnschedule  == {"snapshot", "rm", "rmNil", "isInactive", "removeInactive", "parse",
                     "run", "add", "addScheduled"}

\* A file that does not exist is not scheduled, unless Remove is on its way; what
\* is about to be scheduled is not scheduled yet.
OrphanInv ==
    /\ NoOrphanEntry
    /\ loop.pc \in AfterUnschedule => scheduled[loop.file] = Nil
    /\ loop.pc # "exit" => \A f \in Files \ onDisk :
         scheduled[f] = Nil \/ (loop.file = f /\ loop.pc \in BeforeUnschedule)
    /\ loop.pc \notin {"idle", "exit"} =>
         loop.event \in {"Remove", "Run"} \/ loop.file \in onDisk
    /\ loop.event = "Remove" => loop.pc \notin {"parse", "add", "addScheduled", "run"}

LEMMA OrphanInit == Init => OrphanInv
  <1> SUFFICES ASSUME Init PROVE OrphanInv
    OBVIOUS
  <1>1. (loop.file \in Files /\ loop.pc = "run" /\ loop.event = "Run") \/ loop = Idle
    <2>1. ASSUME NEW j \in JobInfo,
                 loop = [Idle EXCEPT !.pc = "run", !.event = "Run", !.file = j.file, !.j = j]
          PROVE  loop.file \in Files /\ loop.pc = "run" /\ loop.event = "Run"
      BY <2>1 DEF Idle, JobInfo
    <2> QED
      BY <2>1 DEF Init, InitLoop
  <1> QED
    BY <1>1 DEF Init, OrphanInv, NoOrphanEntry, Idle, AfterUnschedule

\* Only these actions concern the scheduled table, its entries, the loop or the
\* files when no job is activated by hand.
LEMMA OrphanFrame ==
    ASSUME ~ManualActive, op.pc = "idle", [Next]_vars
    PROVE  \/ \E r \in Runs : AddOnce(r) \/ RunInPlace(r)
           \/ \E e \in Events, f \in Files : Receive(e, f)
           \/ RemoveStep \/ Parse \/ RunReturns \/ RunAdd \/ ExitLoop
           \/ (\E id \in Ids : AddSchedule(id)) \/ AddScheduled
           \/ UNCHANGED <<scheduled, entries, loop, onDisk>>
  <1> USE DEF tables, sched
  <1>1. ASSUME NEW r \in Runs, RunStep(r) \/ Return(r) \/ \E s \in entries : Wake(r, s)
        PROVE  UNCHANGED <<scheduled, entries, loop, onDisk>>
    BY <1>1 DEF RunStep, AddRunning, RemoveRunning, AddComplete, Return, Wake
  <1>2. ASSUME OpStep PROVE FALSE
    BY <1>2 DEF OpStep, OpAt, ActivateRemove, ActivateAdd, DeactivateRemove, DeactivateSnapshot,
       DeactivateRm, DeactivateAdd, ActivateSchedule
  <1>3. ASSUME AddInactive \/ \E p, f : Lookup(p, f) PROVE FALSE
    BY <1>3 DEF AddInactive, Lookup
  <1>4. ASSUME Start \/ Stop \/ Cancel \/ \E max \in Caps : SetMaxCompleted(max)
        PROVE  UNCHANGED <<scheduled, entries, loop, onDisk>>
    BY <1>4 DEF Start, Stop, Cancel, SetMaxCompleted
  <1>5. ASSUME UNCHANGED vars PROVE UNCHANGED <<scheduled, entries, loop, onDisk>>
    BY <1>5 DEF vars
  <1> QED
    BY <1>1, <1>2, <1>3, <1>4, <1>5 DEF Next, LoopStep, AddStep

LEMMA OrphanNext ==
    ASSUME ~ManualActive, ~Overwrites, TypeOK, SchedInv, OrphanInv, [Next]_vars
    PROVE  OrphanInv'
  <1> USE NilAssumption DEF TypeOK, TableTypes, LoopTypes, FiledUnderItsFile, SchedOrNil,
                            BeforeUnschedule, AfterUnschedule, tables, sched
  <1>1. ASSUME loop' = Idle, UNCHANGED <<scheduled, entries, onDisk>>,
               loop.pc \notin {"exit", "snapshot", "rm", "addScheduled"} \cup BeforeUnschedule
        PROVE  OrphanInv'
    BY <1>1 DEF OrphanInv, NoOrphanEntry, Idle
  <1>2. ASSUME loop'.pc = "exit", loop'.event # "Remove", UNCHANGED <<scheduled, entries>>,
               loop.pc \notin {"snapshot", "rm", "addScheduled"}
        PROVE  OrphanInv'
    BY <1>2 DEF OrphanInv, NoOrphanEntry
  <1>3. ASSUME NEW r \in Runs, AddOnce(r) PROVE OrphanInv'
    <2>1. LoopDone = Idle \/ (LoopDone.pc = "exit" /\ LoopDone.event # "Remove")
      BY DEF LoopDone, Idle
    <2> QED
      BY <1>1, <1>2, <1>3, <2>1 DEF AddOnce, LoopAt
  <1>4. ASSUME NEW r \in Runs, RunInPlace(r) PROVE OrphanInv'
    BY <1>4 DEF RunInPlace, LoopAt, OrphanInv, NoOrphanEntry
  <1>5. ASSUME NEW e \in Events, NEW f \in Files, Receive(e, f) PROVE OrphanInv'
    <2>1. CASE e = "Create"
      BY <1>5, <2>1 DEF Receive, LoopAt, Idle, OrphanInv, NoOrphanEntry
    <2>2. CASE e = "Write"
      BY <1>5, <2>2 DEF Receive, LoopAt, Idle, OrphanInv, NoOrphanEntry
    <2>3. CASE e \in {"Remove", "Rename"}
      <3>1. /\ loop'.pc = "isRunning" /\ loop'.event = "Remove" /\ loop'.file = f
            /\ onDisk' = onDisk \ {f} /\ loop.pc = "idle" /\ UNCHANGED <<scheduled, entries>>
        BY <1>5, <2>3 DEF Receive, LoopAt, Idle
      <3> QED
        BY <3>1 DEF OrphanInv, NoOrphanEntry
    <2> QED
      BY <2>1, <2>2, <2>3 DEF Events
  <1>6. ASSUME RemoveIsRunning \/ RemoveRemoveRunning \/ RemoveCancel PROVE OrphanInv'
    <2>1. /\ loop.pc \in BeforeUnschedule \ {"removeScheduled"} /\ loop'.pc \in BeforeUnschedule
          /\ loop'.event = loop.event /\ loop'.file = loop.file
          /\ UNCHANGED <<scheduled, entries, onDisk>>
      <3>1. CASE RemoveIsRunning
        BY <3>1 DEF RemoveIsRunning, LoopAt
      <3>2. CASE RemoveRemoveRunning
        BY <3>2 DEF RemoveRemoveRunning, LoopAt, Goto
      <3>3. CASE RemoveCancel
        BY <3>3 DEF RemoveCancel, LoopAt
      <3> QED
        BY <1>6, <3>1, <3>2, <3>3
    <2> QED
      BY <2>1 DEF OrphanInv, NoOrphanEntry
  <1>7. ASSUME RemoveIsScheduled PROVE OrphanInv'
    BY <1>7 DEF RemoveIsScheduled, LoopAt, OrphanInv, NoOrphanEntry
  <1>8. ASSUME RemoveRemoveScheduled PROVE OrphanInv'
    <2>1. /\ loop.pc = "removeScheduled" /\ loop.info = scheduled[loop.file]
          /\ loop' = [loop EXCEPT !.pc = "snapshot"]
          /\ scheduled' = [scheduled EXCEPT ![loop.file] = Nil]
          /\ UNCHANGED <<entries, onDisk>>
      BY <1>8 DEF RemoveRemoveScheduled, LoopAt, Goto, SchedInv
    <2> QED
      BY <2>1 DEF OrphanInv, NoOrphanEntry
  <1>9. ASSUME RemoveSnapshot PROVE OrphanInv'
    <2>1. /\ loop.pc = "snapshot" /\ loop' = [loop EXCEPT !.pc = "rm"]
          /\ UNCHANGED <<scheduled, entries, onDisk>>
      BY <1>9 DEF RemoveSnapshot, LoopAt, Goto, Known, SchedInv
    <2> QED
      BY <2>1 DEF OrphanInv, NoOrphanEntry
  <1>10. ASSUME RemoveRm PROVE OrphanInv'
    <2>1. /\ loop.pc = "rm" /\ loop' = [loop EXCEPT !.pc = "isInactive", !.info = Nil]
          /\ entries' = {s \in entries : s.id # loop.info.id}
          /\ UNCHANGED <<scheduled, onDisk>>
      BY <1>10 DEF RemoveRm, LoopAt, CronRm, SchedInv
    <2> QED
      BY <2>1 DEF OrphanInv, NoOrphanEntry
  <1>11. ASSUME RemoveIsInactive \/ RemoveRemoveInactive PROVE OrphanInv'
    <2>1. /\ loop.pc \in {"isInactive", "removeInactive"}
          /\ UNCHANGED <<scheduled, entries, onDisk>>
          /\ \/ loop' = Idle
             \/ loop.event = "Write" /\ loop' = [loop EXCEPT !.pc = "parse"]
             \/ loop' = [loop EXCEPT !.pc = "removeInactive"]
      BY <1>11 DEF RemoveIsInactive, RemoveRemoveInactive, LoopAt, AfterRemove, Goto
    <2>2. CASE loop.event = "Write" /\ loop' = [loop EXCEPT !.pc = "parse"]
      BY <2>1, <2>2 DEF OrphanInv, NoOrphanEntry
    <2>3. CASE loop' = [loop EXCEPT !.pc = "removeInactive"]
      BY <2>1, <2>3 DEF OrphanInv, NoOrphanEntry
    <2> QED
      BY <1>1, <2>1, <2>2, <2>3
  <1>12. ASSUME Parse PROVE OrphanInv'
    <2>1. ASSUME NEW j \in JobInfo, loop' = [loop EXCEPT !.pc = "add", !.j = j] PROVE OrphanInv'
      BY <1>12, <2>1 DEF Parse, LoopAt, OrphanInv, NoOrphanEntry
    <2> QED
      BY <1>1, <1>12, <2>1 DEF Parse, LoopAt
  <1>13. ASSUME RunReturns PROVE OrphanInv'
    <2>1. LoopDone = Idle \/ (LoopDone.pc = "exit" /\ LoopDone.event # "Remove")
      BY DEF LoopDone, Idle
    <2> QED
      BY <1>1, <1>2, <1>13, <2>1 DEF RunReturns, LoopAt
  <1>14. ASSUME RunAdd PROVE OrphanInv'
    BY <1>14 DEF RunAdd, LoopAt, Goto, OrphanInv, NoOrphanEntry
  <1>15. ASSUME ExitLoop PROVE OrphanInv'
    BY <1>15 DEF ExitLoop, LoopAt, Goto, OrphanInv, NoOrphanEntry
  <1>16. ASSUME NEW id \in Ids, AddSchedule(id) PROVE OrphanInv'
    <2>1. CASE loop.j.schedule = "invalid"
      <3>1. LoopDone = Idle \/ (LoopDone.pc = "exit" /\ LoopDone.event # "Remove")
        BY DEF LoopDone, Idle
      <3> QED
        BY <1>1, <1>2, <1>16, <2>1, <3>1 DEF AddSchedule, Schedule, LoopAt
    <2>2. CASE loop.j.schedule # "invalid"
      <3> DEFINE new == [id |-> id, j |-> loop.j]
      <3>1. /\ entries' = entries \cup {new} /\ loop.pc = "add"
            /\ loop' = [loop EXCEPT !.pc = "addScheduled", !.info = new]
            /\ UNCHANGED <<scheduled, onDisk>>
        BY <1>16, <2>2 DEF AddSchedule, Schedule, LoopAt
      <3> QED
        BY <3>1 DEF OrphanInv, NoOrphanEntry
    <2> QED
      BY <2>1, <2>2
  <1>17. ASSUME AddScheduled PROVE OrphanInv'
    <2>1. /\ loop.pc = "addScheduled" /\ scheduled[loop.file] = Nil
          /\ loop.info \in SchedInfo /\ loop.info.j.file = loop.file
          /\ scheduled' = [scheduled EXCEPT ![loop.file] = loop.info]
          /\ UNCHANGED <<entries, onDisk>>
      BY <1>17 DEF AddScheduled, LoopAt, OrphanInv
    <2>2. \A s \in entries : scheduled'[s.j.file] = s
      <3> SUFFICES ASSUME NEW s \in entries PROVE scheduled'[s.j.file] = s
        OBVIOUS
      <3>1. s \in SchedInfo /\ s # Nil /\ s.j.file \in Files
        BY DEF SchedInfo, JobInfo
      <3>2. scheduled[s.j.file] = s \/ loop.info = s
        BY DEF OrphanInv, NoOrphanEntry
      <3> QED
        BY <2>1, <3>1, <3>2
    <2>3. CASE loop.event = "Run"
      BY <1>17, <2>1, <2>2, <2>3 DEF AddScheduled, LoopDone, Idle, OrphanInv, NoOrphanEntry
    <2>4. CASE loop.event # "Run"
      BY <1>17, <2>1, <2>2, <2>4 DEF AddScheduled, LoopDone, Idle, OrphanInv, NoOrphanEntry
    <2> QED
      BY <2>3, <2>4
  <1>18. ASSUME UNCHANGED <<scheduled, entries, loop, onDisk>> PROVE OrphanInv'
    BY <1>18 DEF OrphanInv, NoOrphanEntry
  <1> QED
    BY <1>3, <1>4, <1>5, <1>6, <1>7, <1>8, <1>9, <1>10, <1>11, <1>12, <1>13, <1>14, <1>15, <1>16,
       <1>17, <1>18, OrphanFrame DEF RemoveStep, SchedInv

\* As long as no Create event names a file that is known already, an entry of
\* cron is always in the scheduled table or in the hands of the loop, so that
\* Remove finds it.
THEOREM NoOrphans == ~ManualActive /\ ~Overwrites => (Spec => []NoOrphanEntry)
  <1> SUFFICES ASSUME ~ManualActive, ~Overwrites PROVE Spec => []NoOrphanEntry
    OBVIOUS
  <1>1. TypeOK /\ SchedInv /\ OrphanInv /\ [Next]_vars => OrphanInv'
    BY OrphanNext
  <1>2. OrphanInv => NoOrphanEntry
    BY DEF OrphanInv
  <1> QED
    BY OrphanInit, SchedInvariant, <1>1, <1>2, PTL DEF Spec

=============================================================================
