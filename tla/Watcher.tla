-------------------------------- MODULE Watcher --------------------------------
(***************************************************************************)
(* The watcher of the job directory (fs.go) and the event loop that takes  *)
(* its events (xCUTEr.go); done is mainCtx.  The executor is the set of    *)
(* the jobs it has been given: the content a job was parsed from, per name *)
(* of its file.  An event of fsnotify names a file with its directory, the *)
(* start-up scan without, so each file has two names.  All files end in    *)
(* ".job".                                                                 *)
(***************************************************************************)
EXTENDS Naturals, Sequences, SequencesExt, FiniteSets

CONSTANTS
    Files,
    InJobDir,   \* the working directory is the job directory: bare names can be opened
    MaxChanges  \* bound: the changes to the directory

VARIABLES
    done,      \* mainCtx has ended
    disk,      \* the content of each file: "absent", "partial" (no job yet), "old", "new"
    changes,
    added,     \* fsnotify watches the directory
    notified,  \* events of the kernel that watch has not taken
    watch,     \* "read", "add", "scan", "select", "ended"
    names,     \* files of the scan that are still to be sent
    sending,   \* the event watch sends, <<>> if none
    loop,      \* the event loop: "select", "parse", "add", "ended"
    event,     \* the event it handles, <<>> if none
    parsed,    \* what parse found
    jobs,      \* the jobs of the executor, per name
    absentAtAdd,   \* files that did not exist when the directory was added
    touched        \* files with an event since

Contents == {"absent", "partial", "old", "new"}
Bare(f) == <<"", f>>
InDir(f) == <<"jobs", f>>
JobNames == {Bare(f) : f \in Files} \cup {InDir(f) : f \in Files}

WatcherInit ==
    /\ disk \in [Files -> {"absent", "old"}]
    /\ changes = 0 /\ added = FALSE
    /\ notified = <<>> /\ names = <<>> /\ sending = <<>> /\ event = <<>>
    /\ watch = "read" /\ loop = "select"
    /\ parsed = "absent"
    /\ jobs = [n \in JobNames |-> "absent"]
    /\ absentAtAdd = {} /\ touched = {}

-----------------------------------------------------------------------------
(* The directory.  The kernel tells of changes once the directory is added. *)

Change(f, op, content) ==
    /\ changes < MaxChanges
    /\ changes' = changes + 1
    /\ disk' = [disk EXCEPT ![f] = content]
    /\ notified' = IF added THEN Append(notified, <<op, InDir(f)>>) ELSE notified
    /\ touched' = IF added THEN touched \cup {f} ELSE touched
    /\ UNCHANGED <<done, added, watch, names, sending, loop, event, parsed, jobs, absentAtAdd>>

Create(f) == disk[f] = "absent" /\ Change(f, "create", "partial")
MoveHere(f) == disk[f] = "absent" /\ Change(f, "create", "old")
Write(f) ==
    /\ disk[f] # "absent"
    /\ \E content \in Contents \ {"absent", disk[f]} : Change(f, "write", content)
Delete(f) ==
    /\ disk[f] # "absent"
    /\ \E op \in {"remove", "rename"} : Change(f, op, "absent")

-----------------------------------------------------------------------------
(* watch.                                                                   *)

ReadDir ==
    /\ watch = "read"
    /\ names' = SetToSeq({f \in Files : disk[f] # "absent"})
    /\ watch' = "add"
    /\ UNCHANGED <<done, disk, changes, added, notified, sending, loop, event, parsed, jobs,
                   absentAtAdd, touched>>

ReadDirFails ==
    /\ watch = "read"
    /\ watch' = "ended"
    /\ UNCHANGED <<done, disk, changes, added, notified, names, sending, loop, event, parsed, jobs,
                   absentAtAdd, touched>>

\* The error of Add is dropped: watch goes on, with nothing to tell it of changes.
AddDir ==
    /\ watch = "add"
    /\ watch' = "scan"
    /\ \/ added' = TRUE /\ absentAtAdd' = {f \in Files : disk[f] = "absent"}
       \/ UNCHANGED <<added, absentAtAdd>>
    /\ UNCHANGED <<done, disk, changes, notified, names, sending, loop, event, parsed, jobs, touched>>

\* Sends the files of the scan one by one, and does not look at the context.
Scan ==
    /\ watch = "scan" /\ sending = <<>>
    /\ IF names = <<>>
       THEN watch' = "select" /\ UNCHANGED <<names, sending>>
       ELSE /\ sending' = <<"create", Bare(Head(names))>>
            /\ names' = Tail(names) /\ UNCHANGED watch
    /\ UNCHANGED <<done, disk, changes, added, notified, loop, event, parsed, jobs, absentAtAdd,
                   touched>>

TakeNotified ==
    /\ watch = "select" /\ sending = <<>> /\ notified # <<>>
    /\ sending' = Head(notified) /\ notified' = Tail(notified)
    /\ UNCHANGED <<done, disk, changes, added, watch, names, loop, event, parsed, jobs, absentAtAdd,
                   touched>>

WatchDone ==
    /\ watch = "select" /\ sending = <<>> /\ done
    /\ watch' = "ended"
    /\ UNCHANGED <<done, disk, changes, added, notified, names, sending, loop, event, parsed, jobs,
                   absentAtAdd, touched>>

-----------------------------------------------------------------------------
(* The event loop: one event at a time.                                     *)

Receive ==
    /\ loop = "select" /\ sending # <<>>
    /\ event' = sending /\ sending' = <<>>
    /\ loop' = "parse"
    /\ UNCHANGED <<done, disk, changes, added, notified, watch, names, parsed, jobs, absentAtAdd,
                   touched>>

FileOf(name) == name[2]
CanOpen(name) == disk[FileOf(name)] # "absent" /\ (name[1] = "" => InJobDir)

\* Mutant of Handle: a changed file is parsed without its job being removed.
HandleKeeping ==
    /\ loop = "parse"
    /\ LET op == event[1]  name == event[2] IN
       /\ jobs' = IF op \in {"remove", "rename"} THEN [jobs EXCEPT ![name] = "absent"] ELSE jobs
       /\ IF op \in {"create", "write"} /\ CanOpen(name) /\ disk[FileOf(name)] # "partial"
          THEN loop' = "add" /\ parsed' = disk[FileOf(name)] /\ UNCHANGED event
          ELSE loop' = "select" /\ event' = <<>> /\ UNCHANGED parsed
    /\ UNCHANGED <<done, disk, changes, added, notified, watch, names, sending, absentAtAdd, touched>>

\* Remove of the old job, unless the file is new, then parse.
Handle ==
    /\ loop = "parse"
    /\ LET op == event[1]  name == event[2] IN
       /\ jobs' = IF op = "create" THEN jobs ELSE [jobs EXCEPT ![name] = "absent"]
       /\ IF op \in {"create", "write"} /\ CanOpen(name) /\ disk[FileOf(name)] # "partial"
          THEN loop' = "add" /\ parsed' = disk[FileOf(name)] /\ UNCHANGED event
          ELSE loop' = "select" /\ event' = <<>> /\ UNCHANGED parsed
    /\ UNCHANGED <<done, disk, changes, added, notified, watch, names, sending, absentAtAdd, touched>>

Add ==
    /\ loop = "add"
    /\ jobs' = [jobs EXCEPT ![event[2]] = parsed]
    /\ loop' = "select" /\ event' = <<>>
    /\ UNCHANGED <<done, disk, changes, added, notified, watch, names, sending, parsed, absentAtAdd,
                   touched>>

LoopDone ==
    /\ loop = "select" /\ done
    /\ loop' = "ended"
    /\ UNCHANGED <<done, disk, changes, added, notified, watch, names, sending, event, parsed, jobs,
                   absentAtAdd, touched>>

-----------------------------------------------------------------------------

Watch == ReadDir \/ AddDir \/ Scan \/ TakeNotified \/ WatchDone
Loop == Receive \/ Handle \/ Add \/ LoopDone
Directory == \E f \in Files : Create(f) \/ MoveHere(f) \/ Write(f) \/ Delete(f)

WatcherNext == Watch \/ ReadDirFails \/ Loop \/ Directory

=============================================================================
