------------------------------ MODULE Executor ------------------------------
(***************************************************************************)
(* The job executor: executor.go together with the event loop of xCUTEr.go *)
(* that drives it.  Each critical section of executor.go (one mutex per    *)
(* table) is one action; between two of them any other goroutine may run:  *)
(*                                                                         *)
(*   loop      the single goroutine that turns file events into parse,     *)
(*             Add and Remove (or, with -file, the goroutine that calls    *)
(*             Run once);                                                  *)
(*   runs      one goroutine per runInfo: a cron wake-up or a "once" job;  *)
(*   operator  a caller of Activate and Deactivate (ManualActive only);    *)
(*   control   Start, Stop, Cancel and SetMaxCompleted of the XCUTEr API.  *)
(*                                                                         *)
(* The cron scheduler appears as the set of its entries, as in module      *)
(* EntrySet.  Module Cron models the channels behind it.                   *)
(***************************************************************************)
EXTENDS Naturals, Sequences, FiniteSets

CONSTANTS
    Files,       \* job files, as the names the events carry
    Runs,        \* slots for runInfo objects: a bound on those alive at once
    Ids,         \* cron entry IDs: a bound on those in use at once
    Caps,        \* the values maxCompleted may be given, 0 for "no limit"
    ManualActive, \* executor.manualActive: whether jobs wait for Activate
    Overwrites,  \* whether a Create event may name a file that exists already
    Nil          \* the nil pointer, and the empty cron ID

ASSUME CapsAssumption == Caps \subseteq Nat /\ Caps # {}
ASSUME FlagsAssumption == ManualActive \in BOOLEAN /\ Overwrites \in BOOLEAN

JobInfo == [file : Files, schedule : {"once", "cron", "invalid"}]
SchedInfo == [id : Ids \cup {Nil}, j : JobInfo]

ASSUME NilAssumption ==
    Nil \notin Files \cup Runs \cup Ids \cup JobInfo \cup SchedInfo

VARIABLES
    maxCompleted,  \* executor.maxCompleted
    running,       \* executor.running: the run in progress of each file
    scheduled,     \* executor.scheduled: the schedInfo of each file
    inactive,      \* executor.inactive
    completed,     \* executor.completed, oldest first
    entries,       \* the entries of the cron scheduler
    cronUp,        \* whether the cron goroutine runs
    crashed,       \* whether a nil entry reached cron's rm: the process is gone
    mainDone,      \* whether mainCtx is cancelled
    pc,            \* where each run stands
    jobOf,         \* the job of each run
    cancelled,     \* whether the context of a run is cancelled
    loop,          \* program counter, operation and locals of the event loop
    op,            \* program counter and locals of the operator
    onDisk,        \* job files that exist, as told by the events so far
    evicted        \* history: files whose live run lost its table entry

tables  == <<running, scheduled, inactive, completed>>
sched   == <<entries, cronUp, crashed>>
config  == <<maxCompleted, mainDone>>
runVars == <<pc, jobOf, cancelled>>
vars    == <<tables, sched, config, runVars, loop, op, onDisk, evicted>>

-----------------------------------------------------------------------------
RunPC  == {"free", "woken", "running", "stopping", "removed", "done"}
LoopPC == {"idle", "exit", "run", "runWait", "parse", "isRunning", "removeRunning",
           "cancel", "isScheduled", "removeScheduled", "snapshot", "rm", "rmNil",
           "isInactive", "removeInactive", "add", "addScheduled"}
OpPC   == {"idle", "isInactive", "removeInactive", "schedule", "addScheduled",
           "isScheduled", "removeScheduled", "snapshot", "rm", "rmNil", "addInactive"}
Events == {"Create", "Write", "Remove", "Rename"}

\* A run whose job function may still be doing work.
Live(r) == pc[r] \in {"running", "stopping"}
FileOf(r) == jobOf[r].file

\* IDs are UUIDs: a new one is none of those still referred to.
Referred == {s.id : s \in entries}
            \cup {s.id : s \in {scheduled[f] : f \in Files} \ {Nil}}
            \cup {s.id : s \in {inactive[f] : f \in Files} \ {Nil}}
            \cup {s.id : s \in {loop.info, op.info} \ {Nil}}
FreshId(id) == id \in Ids \ Referred

\* The goroutine of a runInfo made for job j starts in slot r.
Spawn(r, j) ==
    /\ pc[r] = "free" /\ loop.run # r
    /\ pc' = [pc EXCEPT ![r] = "woken"]
    /\ jobOf' = [jobOf EXCEPT ![r] = j]
    /\ cancelled' = [cancelled EXCEPT ![r] = FALSE]

\* The runInfo in slot r becomes garbage.
Release(r) ==
    /\ pc' = [pc EXCEPT ![r] = "free"]
    /\ jobOf' = [jobOf EXCEPT ![r] = Nil]
    /\ cancelled' = [cancelled EXCEPT ![r] = FALSE]

\* cron.AddFunc: an invalid schedule adds nothing.
Schedule(j, id) ==
    entries' = IF j.schedule = "invalid" THEN entries ELSE entries \cup {[id |-> id, j |-> j]}

Known(id) == \E s \in entries : s.id = id

\* Mutant of CronRm: the entry is looked up and never taken out.
CronRmKeeps(id) == UNCHANGED <<entries, crashed>>

\* The entry that cron.Remove looked up reaches cron.rm.  Comparing with a nil
\* entry panics in the cron goroutine, unless there is nothing to compare.
CronRm(id) == /\ entries' = {s \in entries : s.id # id}
              /\ UNCHANGED crashed
CronRmNil  == /\ crashed' = (entries # {})
              /\ UNCHANGED entries

\* Mutant of Done: the context of a run is not derived from mainCtx.
DoneAlone(r) == cancelled[r]

\* The context of a run ends with mainCtx, or when it is cancelled itself.
Done(r) == cancelled[r] \/ mainDone

\* Where a goroutine stands.  After a crash none goes on.
RunAt(r, p) == ~crashed /\ pc[r] = p
LoopAt(p)   == ~crashed /\ loop.pc = p
OpAt(p)     == ~crashed /\ op.pc = p

Idle == [pc |-> "idle", event |-> "Create", file |-> Nil, run |-> Nil, info |-> Nil, j |-> Nil]
OpIdle == [pc |-> "idle", info |-> Nil]
LoopDone == IF loop.event = "Run" THEN [Idle EXCEPT !.pc = "exit"] ELSE Idle

-----------------------------------------------------------------------------
(* The goroutine of a run: runInfo.run.                                    *)

\* Mutant of AddRunning: no test for an instance in progress.
AddRunningUnchecked(r) ==
    /\ RunAt(r, "woken")
    /\ running' = [running EXCEPT ![FileOf(r)] = r]
    /\ pc' = [pc EXCEPT ![r] = "running"]
    /\ UNCHANGED <<scheduled, inactive, completed, sched, config, jobOf, cancelled,
                   loop, op, onDisk, evicted>>

AddRunning(r) ==
    /\ RunAt(r, "woken")
    /\ IF running[FileOf(r)] = Nil
         THEN /\ running' = [running EXCEPT ![FileOf(r)] = r]
              /\ pc' = [pc EXCEPT ![r] = "running"]
              /\ UNCHANGED <<jobOf, cancelled>>
         ELSE /\ Release(r)
              /\ UNCHANGED running
    /\ UNCHANGED <<scheduled, inactive, completed, sched, config, loop, op, onDisk, evicted>>

\* The job function returns and the deferred function cancels the context.
Return(r) ==
    /\ RunAt(r, "running")
    /\ pc' = [pc EXCEPT ![r] = "stopping"]
    /\ cancelled' = [cancelled EXCEPT ![r] = TRUE]
    /\ UNCHANGED <<tables, sched, config, jobOf, loop, op, onDisk, evicted>>

\* executor.removeRunning deletes the entry of the file, whichever run it names.
\* History: the run of the caller is not evicted, every other one is.
Evict(f, caller) ==
    /\ running' = [running EXCEPT ![f] = Nil]
    /\ evicted' = IF running[f] \in {Nil, caller} THEN evicted ELSE evicted \cup {f}

\* Mutant of RemoveRunning: the run ends without leaving the table.
RemoveRunningForgets(r) ==
    /\ RunAt(r, "stopping")
    /\ pc' = [pc EXCEPT ![r] = "removed"]
    /\ UNCHANGED <<tables, sched, config, jobOf, cancelled, loop, op, onDisk, evicted>>

RemoveRunning(r) ==
    /\ RunAt(r, "stopping")
    /\ pc' = [pc EXCEPT ![r] = "removed"]
    /\ Evict(FileOf(r), r)
    /\ UNCHANGED <<scheduled, inactive, completed, sched, config, jobOf, cancelled,
                   loop, op, onDisk>>

\* Mutant of Newest: off by one, trims one run too late.
NewestLate(s) == IF maxCompleted > 0 /\ maxCompleted + 1 < Len(s)
                   THEN SubSeq(s, Len(s) - maxCompleted, Len(s)) ELSE s

\* The newest maxCompleted runs of a list, all of them when maxCompleted is 0.
Newest(s) == IF maxCompleted > 0 /\ maxCompleted < Len(s)
               THEN SubSeq(s, Len(s) - maxCompleted + 1, Len(s)) ELSE s

Listed(s) == {s[i] : i \in 1..Len(s)}

\* Mutant of AddComplete: the run is listed before it leaves the table.
AddCompleteEarly(r) ==
    /\ RunAt(r, "stopping")
    /\ completed' = Newest(Append(completed, r))
    /\ LET gone == (Listed(completed) \cup {r}) \ Listed(completed')
       IN  /\ pc' = [q \in Runs |-> IF q \in gone THEN "free" ELSE IF q = r THEN "done" ELSE pc[q]]
           /\ jobOf' = [q \in Runs |-> IF q \in gone THEN Nil ELSE jobOf[q]]
           /\ cancelled' = [q \in Runs |-> q \notin gone /\ cancelled[q]]
    /\ UNCHANGED <<running, scheduled, inactive, sched, config, loop, op, onDisk, evicted>>

\* Runs that fall out of the list are garbage: their slots are free again.
AddComplete(r) ==
    /\ RunAt(r, "removed")
    /\ completed' = Newest(Append(completed, r))
    /\ LET gone == (Listed(completed) \cup {r}) \ Listed(completed')
       IN  /\ pc' = [q \in Runs |-> IF q \in gone THEN "free" ELSE IF q = r THEN "done" ELSE pc[q]]
           /\ jobOf' = [q \in Runs |-> IF q \in gone THEN Nil ELSE jobOf[q]]
           /\ cancelled' = [q \in Runs |-> q \notin gone /\ cancelled[q]]
    /\ UNCHANGED <<running, scheduled, inactive, sched, config, loop, op, onDisk, evicted>>

RunStep(r) == AddRunning(r) \/ RemoveRunning(r) \/ AddComplete(r)

\* The cron goroutine starts the job of an entry that is due.
Wake(r, s) ==
    /\ ~crashed /\ cronUp
    /\ s \in entries
    /\ Spawn(r, s.j)
    /\ UNCHANGED <<tables, sched, config, loop, op, onDisk, evicted>>

-----------------------------------------------------------------------------
(* The event loop of xCUTEr.New, with executor.Remove, parse and Add.      *)

Goto(p) == loop' = [loop EXCEPT !.pc = p]

\* What follows executor.Remove: a Write event goes on to parse the new file.
AfterRemove == IF loop.event = "Write" THEN Goto("parse") ELSE loop' = Idle

Receive(e, f) ==
    /\ LoopAt("idle")
    /\ e = "Create" => f \notin onDisk \/ Overwrites
    /\ e # "Create" => f \in onDisk
    /\ onDisk' = IF e \in {"Remove", "Rename"} THEN onDisk \ {f} ELSE onDisk \cup {f}
    /\ loop' = [Idle EXCEPT !.pc = IF e = "Create" THEN "parse" ELSE "isRunning",
                            !.event = IF e = "Rename" THEN "Remove" ELSE e, !.file = f]
    /\ UNCHANGED <<tables, sched, config, runVars, op, evicted>>

ExitLoop ==
    /\ LoopAt("idle") /\ mainDone
    /\ Goto("exit")
    /\ UNCHANGED <<tables, sched, config, runVars, op, onDisk, evicted>>

RemoveIsRunning ==
    /\ LoopAt("isRunning")
    /\ loop' = IF running[loop.file] = Nil THEN [loop EXCEPT !.pc = "isScheduled"]
               ELSE [loop EXCEPT !.pc = "removeRunning", !.run = running[loop.file]]
    /\ UNCHANGED <<tables, sched, config, runVars, op, onDisk, evicted>>

RemoveRemoveRunning ==
    /\ LoopAt("removeRunning")
    /\ Evict(loop.file, Nil)
    /\ Goto("cancel")
    /\ UNCHANGED <<scheduled, inactive, completed, sched, config, runVars, op, onDisk>>

\* Mutant of RemoveCancel: the run found in the table is not cancelled.
RemoveCancelForgets ==
    /\ LoopAt("cancel")
    /\ loop' = [loop EXCEPT !.pc = "isScheduled", !.run = Nil]
    /\ UNCHANGED <<tables, sched, config, runVars, op, onDisk, evicted>>

RemoveCancel ==
    /\ LoopAt("cancel")
    /\ cancelled' = [cancelled EXCEPT ![loop.run] = TRUE]
    /\ loop' = [loop EXCEPT !.pc = "isScheduled", !.run = Nil]
    /\ UNCHANGED <<tables, sched, config, pc, jobOf, op, onDisk, evicted>>

\* Mutant of RemoveIsScheduled: the result of the lookup is used untested.
RemoveIsScheduledUntested ==
    /\ LoopAt("isScheduled")
    /\ loop' = [loop EXCEPT !.pc = "removeScheduled", !.info = scheduled[loop.file]]
    /\ UNCHANGED <<tables, sched, config, runVars, op, onDisk, evicted>>

RemoveIsScheduled ==
    /\ LoopAt("isScheduled")
    /\ loop' = [loop EXCEPT !.pc = IF scheduled[loop.file] = Nil THEN "isInactive"
                                   ELSE "removeScheduled",
                            !.info = scheduled[loop.file]]
    /\ UNCHANGED <<tables, sched, config, runVars, op, onDisk, evicted>>

RemoveRemoveScheduled ==
    /\ LoopAt("removeScheduled")
    /\ scheduled' = [scheduled EXCEPT ![loop.file] = Nil]
    /\ Goto("snapshot")
    /\ UNCHANGED <<running, inactive, completed, sched, config, runVars, op, onDisk, evicted>>

\* cron.Remove looks the ID up in a snapshot of the entries ...
RemoveSnapshot ==
    /\ LoopAt("snapshot")
    /\ Goto(IF Known(loop.info.id) THEN "rm" ELSE "rmNil")
    /\ UNCHANGED <<tables, sched, config, runVars, op, onDisk, evicted>>

\* ... and hands the entry it found, or nil, to the cron goroutine.
RemoveRm ==
    /\ \/ LoopAt("rm") /\ CronRm(loop.info.id)
       \/ LoopAt("rmNil") /\ CronRmNil
    /\ loop' = [loop EXCEPT !.pc = "isInactive", !.info = Nil]
    /\ UNCHANGED <<tables, cronUp, config, runVars, op, onDisk, evicted>>

RemoveIsInactive ==
    /\ LoopAt("isInactive")
    /\ IF inactive[loop.file] = Nil THEN AfterRemove ELSE Goto("removeInactive")
    /\ UNCHANGED <<tables, sched, config, runVars, op, onDisk, evicted>>

RemoveRemoveInactive ==
    /\ LoopAt("removeInactive")
    /\ inactive' = [inactive EXCEPT ![loop.file] = Nil]
    /\ AfterRemove
    /\ UNCHANGED <<running, scheduled, completed, sched, config, runVars, op, onDisk, evicted>>

\* parse either fails, and the event is dropped, or yields a jobInfo.
Parse ==
    /\ LoopAt("parse")
    /\ \/ loop' = Idle
       \/ \E j \in JobInfo : /\ j.file = loop.file
                             /\ loop' = [loop EXCEPT !.pc = "add", !.j = j]
    /\ UNCHANGED <<tables, sched, config, runVars, op, onDisk, evicted>>

AddOnce(r) ==
    /\ LoopAt("add") /\ loop.j.schedule = "once"
    /\ Spawn(r, loop.j)
    /\ loop' = LoopDone
    /\ UNCHANGED <<tables, sched, config, op, onDisk, evicted>>

AddInactive ==
    /\ LoopAt("add") /\ loop.j.schedule # "once" /\ ManualActive
    /\ inactive' = [inactive EXCEPT ![loop.file] = [id |-> Nil, j |-> loop.j]]
    /\ loop' = LoopDone
    /\ UNCHANGED <<running, scheduled, completed, sched, config, runVars, op, onDisk, evicted>>

AddSchedule(id) ==
    /\ LoopAt("add") /\ loop.j.schedule # "once" /\ ~ManualActive
    /\ FreshId(id)
    /\ Schedule(loop.j, id)
    /\ loop' = IF loop.j.schedule = "invalid" THEN LoopDone
               ELSE [loop EXCEPT !.pc = "addScheduled", !.info = [id |-> id, j |-> loop.j]]
    /\ UNCHANGED <<tables, cronUp, crashed, config, runVars, op, onDisk, evicted>>

\* Mutant of AddScheduled: the ID of the cron entry is lost.
AddScheduledNoId ==
    /\ LoopAt("addScheduled")
    /\ scheduled' = [scheduled EXCEPT ![loop.file] = [id |-> Nil, j |-> loop.j]]
    /\ loop' = LoopDone
    /\ UNCHANGED <<running, inactive, completed, sched, config, runVars, op, onDisk, evicted>>

AddScheduled ==
    /\ LoopAt("addScheduled")
    /\ scheduled' = [scheduled EXCEPT ![loop.file] = loop.info]
    /\ loop' = LoopDone
    /\ UNCHANGED <<running, inactive, completed, sched, config, runVars, op, onDisk, evicted>>

\* With -file there is no event loop.  Run executes the job in place if it is
\* a "once" job or -once is given, and mainCtx is cancelled afterwards.
RunInPlace(r) ==
    /\ LoopAt("run")
    /\ Spawn(r, loop.j)
    /\ loop' = [loop EXCEPT !.pc = "runWait", !.run = r]
    /\ UNCHANGED <<tables, sched, config, op, onDisk, evicted>>

RunAdd ==
    /\ LoopAt("run") /\ loop.j.schedule # "once"
    /\ Goto("add")
    /\ UNCHANGED <<tables, sched, config, runVars, op, onDisk, evicted>>

RunReturns ==
    /\ LoopAt("runWait") /\ pc[loop.run] \in {"free", "done"}
    /\ mainDone' = TRUE
    /\ loop' = LoopDone
    /\ UNCHANGED <<tables, sched, maxCompleted, runVars, op, onDisk, evicted>>

RemoveStep == \/ RemoveIsRunning \/ RemoveRemoveRunning \/ RemoveCancel
              \/ RemoveIsScheduled \/ RemoveRemoveScheduled \/ RemoveSnapshot \/ RemoveRm
              \/ RemoveIsInactive \/ RemoveRemoveInactive

AddStep == AddInactive \/ AddScheduled \/ \E id \in Ids : AddSchedule(id)

-----------------------------------------------------------------------------
(* Activate and Deactivate.  The ID that e.schedule returns is dropped.    *)

OpGoto(p) == op' = [op EXCEPT !.pc = p]

\* Activate (p = "isInactive") or Deactivate (p = "isScheduled") looks f up.
Lookup(p, f) ==
    LET info == IF p = "isInactive" THEN inactive[f] ELSE scheduled[f]
    IN  /\ ManualActive /\ OpAt("idle")
        /\ info # Nil
        /\ op' = [pc |-> IF p = "isInactive" THEN "removeInactive" ELSE "removeScheduled",
                  info |-> info]
        /\ UNCHANGED <<tables, sched, config, runVars, loop, onDisk, evicted>>

ActivateRemove ==
    /\ OpAt("removeInactive")
    /\ inactive' = [inactive EXCEPT ![op.info.j.file] = Nil]
    /\ OpGoto("schedule")
    /\ UNCHANGED <<running, scheduled, completed, sched, config, runVars, loop, onDisk, evicted>>

ActivateSchedule(id) ==
    /\ OpAt("schedule")
    /\ FreshId(id)
    /\ Schedule(op.info.j, id)
    /\ OpGoto("addScheduled")
    /\ UNCHANGED <<tables, cronUp, crashed, config, runVars, loop, onDisk, evicted>>

ActivateAdd ==
    /\ OpAt("addScheduled")
    /\ scheduled' = [scheduled EXCEPT ![op.info.j.file] = op.info]
    /\ op' = OpIdle
    /\ UNCHANGED <<running, inactive, completed, sched, config, runVars, loop, onDisk, evicted>>

DeactivateRemove ==
    /\ OpAt("removeScheduled")
    /\ scheduled' = [scheduled EXCEPT ![op.info.j.file] = Nil]
    /\ OpGoto("snapshot")
    /\ UNCHANGED <<running, inactive, completed, sched, config, runVars, loop, onDisk, evicted>>

DeactivateSnapshot ==
    /\ OpAt("snapshot")
    /\ OpGoto(IF Known(op.info.id) THEN "rm" ELSE "rmNil")
    /\ UNCHANGED <<tables, sched, config, runVars, loop, onDisk, evicted>>

DeactivateRm ==
    /\ \/ OpAt("rm") /\ CronRm(op.info.id)
       \/ OpAt("rmNil") /\ CronRmNil
    /\ OpGoto("addInactive")
    /\ UNCHANGED <<tables, cronUp, config, runVars, loop, onDisk, evicted>>

DeactivateAdd ==
    /\ OpAt("addInactive")
    /\ inactive' = [inactive EXCEPT ![op.info.j.file] = op.info]
    /\ op' = OpIdle
    /\ UNCHANGED <<running, scheduled, completed, sched, config, runVars, loop, onDisk, evicted>>

OpStep == \/ ActivateRemove \/ ActivateAdd \/ DeactivateRemove
          \/ DeactivateSnapshot \/ DeactivateRm \/ DeactivateAdd
          \/ \E id \in Ids : ActivateSchedule(id)

-----------------------------------------------------------------------------
(* The XCUTEr API.                                                         *)

Start == /\ ~crashed /\ ~cronUp /\ cronUp' = TRUE
         /\ UNCHANGED <<tables, entries, crashed, config, runVars, loop, op, onDisk, evicted>>

Stop == /\ ~crashed /\ cronUp /\ cronUp' = FALSE
        /\ UNCHANGED <<tables, entries, crashed, config, runVars, loop, op, onDisk, evicted>>

Cancel == /\ ~crashed /\ ~mainDone /\ mainDone' = TRUE
          /\ UNCHANGED <<tables, sched, maxCompleted, runVars, loop, op,
                         onDisk, evicted>>

SetMaxCompleted(max) ==
    /\ ~crashed /\ maxCompleted # max
    /\ maxCompleted' = max
    /\ UNCHANGED <<tables, sched, mainDone, runVars, loop, op, onDisk, evicted>>

-----------------------------------------------------------------------------
\* With -file the job is parsed first and the loop starts at Run.
InitLoop == {Idle} \cup {[Idle EXCEPT !.pc = "run", !.event = "Run", !.file = j.file, !.j = j]
                          : j \in JobInfo}

Init ==
    /\ maxCompleted \in Caps /\ mainDone = FALSE
    /\ running   = [f \in Files |-> Nil]
    /\ scheduled = [f \in Files |-> Nil]
    /\ inactive  = [f \in Files |-> Nil]
    /\ completed = <<>>
    /\ entries = {} /\ cronUp = TRUE /\ crashed = FALSE
    /\ pc        = [r \in Runs |-> "free"]
    /\ jobOf     = [r \in Runs |-> Nil]
    /\ cancelled = [r \in Runs |-> FALSE]
    /\ loop \in InitLoop /\ op = OpIdle
    /\ onDisk = {} /\ evicted = {}

LoopStep == RemoveStep \/ AddStep \/ Parse \/ RunReturns

Next ==
    \/ \E r \in Runs : RunStep(r) \/ Return(r) \/ AddOnce(r) \/ RunInPlace(r)
    \/ \E r \in Runs, s \in entries : Wake(r, s)
    \/ \E e \in Events, f \in Files : Receive(e, f)
    \/ LoopStep \/ RunAdd \/ ExitLoop
    \/ \E p \in {"isInactive", "isScheduled"}, f \in Files : Lookup(p, f)
    \/ OpStep
    \/ Start \/ Stop \/ Cancel
    \/ \E max \in Caps : SetMaxCompleted(max)

\* Goroutines that can take a step do.  A job function returns once its
\* context is cancelled; nothing makes it return before.
Fairness ==
    /\ WF_vars(LoopStep)
    /\ \A r \in Runs : /\ WF_vars(RunStep(r))
                       /\ WF_vars(Done(r) /\ Return(r))

Spec == Init /\ [][Next]_vars
FairSpec == Spec /\ Fairness

-----------------------------------------------------------------------------
RunOrNil   == Runs \cup {Nil}
SchedOrNil == SchedInfo \cup {Nil}
JobOrNil   == JobInfo \cup {Nil}

\* The tables and the scheduler.
TableTypes ==
    /\ running \in [Files -> RunOrNil]
    /\ scheduled \in [Files -> SchedOrNil] /\ inactive \in [Files -> SchedOrNil]
    /\ completed \in Seq(Runs) /\ maxCompleted \in Caps
    /\ entries \subseteq [id : Ids, j : JobInfo]
    /\ cronUp \in BOOLEAN /\ crashed \in BOOLEAN /\ mainDone \in BOOLEAN
    /\ onDisk \subseteq Files /\ evicted \subseteq Files

\* A run has a job as long as its goroutine or a list refers to it.
RunTypes ==
    /\ pc \in [Runs -> RunPC] /\ cancelled \in [Runs -> BOOLEAN]
    /\ jobOf \in [Runs -> JobOrNil]
    /\ \A r \in Runs : pc[r] # "free" => jobOf[r] \in JobInfo

\* The locals of the loop hold what the code dereferences without a test.
LoopTypes ==
    /\ loop \in [pc : LoopPC, event : Events \cup {"Run"}, file : Files \cup {Nil},
                 run : RunOrNil, info : SchedOrNil, j : JobOrNil]
    /\ loop.pc \notin {"idle", "exit"} => loop.file \in Files
    /\ loop.pc \in {"removeRunning", "cancel", "runWait"} => loop.run \in Runs
    /\ loop.pc \in {"removeScheduled", "snapshot", "rm", "rmNil", "addScheduled"} =>
         loop.info \in SchedInfo /\ loop.info.j.file = loop.file
    /\ loop.pc \in {"add", "run"} => loop.j \in JobInfo /\ loop.j.file = loop.file

OpTypes == /\ op \in [pc : OpPC, info : SchedOrNil]
           /\ op.pc # "idle" => op.info \in SchedInfo

\* Each table lists an info under the file of its own job.
FiledUnderItsFile ==
    \A f \in Files : /\ scheduled[f] # Nil => scheduled[f].j.file = f
                     /\ inactive[f] # Nil => inactive[f].j.file = f

\* Every variable holds a value of its Go type, and a pointer the code
\* dereferences without a test (of a run, a schedInfo, a jobInfo) is not nil.
TypeOK == TableTypes /\ RunTypes /\ LoopTypes /\ OpTypes /\ FiledUnderItsFile

-----------------------------------------------------------------------------
(* Safety.                                                                 *)

\* GetRunning reports only runs in progress, each under its own file: although
\* removeRunning deletes by file, no entry outlives the run it names (a stale
\* one would keep the job from ever running again).
RunningEntryLive ==
    \A f \in Files : running[f] # Nil => Live(running[f]) /\ FileOf(running[f]) = f

\* The completed list names each run at most once, only runs that are over,
\* and none that GetRunning still reports.
ReportedOnce ==
    /\ \A r \in Listed(completed) : pc[r] = "done" /\ \A f \in Files : running[f] # r
    /\ \A i, k \in 1..Len(completed) : completed[i] = completed[k] => i = k

\* Two runs of a file overlap only after a run of that file lost its table
\* entry to somebody else: without that, addRunning is mutual exclusion.
NoOverlapUnlessEvicted ==
    \A q, r \in Runs :
        q # r /\ Live(q) /\ Live(r) /\ FileOf(q) = FileOf(r) => FileOf(q) \in evicted

\* Every cron entry can be found by Remove, or is in the hands of the loop: a
\* job cannot go on being woken after its file is gone.  Holds as long as no
\* Create event names a file that is already known.
NoOrphanEntry ==
    \A s \in entries :
        \/ scheduled[s.j.file] = s
        \/ loop.info = s /\ loop.pc \in {"snapshot", "rm", "addScheduled"}

\* As long as jobs are not activated by hand, every ID that is looked up in
\* cron is there, so that no nil entry reaches the cron goroutine.
SchedulerSurvives == ~ManualActive => ~crashed

\* Start's promise (executor.go:350): a run is turned away only while another
\* instance of the job is in progress.
RejectionJustified ==
    [][\A r \in Runs : pc[r] = "woken" /\ pc'[r] = "free" =>
         \E q \in Runs \ {r} : Live(q) /\ FileOf(q) = FileOf(r)]_vars

\* A change of the completed list leaves at most maxCompleted runs in it, the
\* newest at its end.
HistoryCapped ==
    [][completed' # completed =>
         /\ maxCompleted > 0 => Len(completed') <= maxCompleted
         /\ pc[completed'[Len(completed')]] = "removed"]_vars

-----------------------------------------------------------------------------
(* Liveness, under FairSpec.                                               *)

\* The run that Remove finds in the table comes to its end and leaves the
\* table, whatever the other goroutines do meanwhile.
FoundRunEnds ==
    \A r \in Runs : loop.pc = "removeRunning" /\ loop.run = r
                      ~> ~Live(r) /\ \A f \in Files : running[f] # r

\* Once cron is stopped, mainCtx cancelled and the event loop gone, every run
\* ends, leaves the table and reaches the completed list.
ShutdownDrains ==
    <>[](~cronUp /\ mainDone /\ loop.pc = "exit") =>
        <>[](/\ \A r \in Runs : pc[r] \in {"free", "done"}
             /\ \A f \in Files : running[f] = Nil)

-----------------------------------------------------------------------------
(* What the code does not provide: runs that TLC finds violated.           *)

\* At most one instance of a job runs (executor_test.go:133), the cancelled
\* ones that Remove has yet to see the end of aside.
OneInstance ==
    \A q, r \in Runs :
        q # r /\ Live(q) /\ Live(r) /\ FileOf(q) = FileOf(r) => cancelled[q] \/ cancelled[r]
                                                                \/ loop.pc = "cancel"

=============================================================================
