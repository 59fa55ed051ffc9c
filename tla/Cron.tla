--------------------------------- MODULE Cron ---------------------------------
(***************************************************************************)
(* The cron scheduler (nwolber/cron, the repository's own fork): the       *)
(* goroutine behind Start, its channels, and the flag running that is read *)
(* without a lock.  All channels are unbuffered: to hand something over is *)
(* one step of both ends.                                                  *)
(*                                                                         *)
(* The calls come from one goroutine, the event loop of xCUTEr.go; Start   *)
(* is called before it exists, and Stop by main.go when a signal comes.    *)
(*                                                                         *)
(* Plan[id] are the times at which the schedule of an entry is due.  The   *)
(* scheduler is fast: time does not go on while its goroutine has          *)
(* something to do.                                                        *)
(***************************************************************************)
EXTENDS Integers

CONSTANTS
    Ids,      \* IDs of entries, a bound on those in use at once
    Plan,     \* for each ID, a set of times
    MaxTime,  \* bound of the clock
    NoCall

ASSUME PlanAssumption == Plan \in [Ids -> SUBSET (Nat \ {0})]
ASSUME MaxTimeAssumption == MaxTime \in Nat
Steps == {"add", "lookUp", "takeOut", "takeOutNil"}
ASSUME NoCallAssumption == NoCall \notin Steps \X Ids

VARIABLES
    clock,
    entries,   \* c.entries, as their IDs
    next,      \* entry.Next of each, 0 for the zero time
    running,   \* c.running
    cron,      \* the goroutine: "starting", "select", "snapshot", "ended"
    now,       \* its variable now
    timer,     \* when its timer fires
    setBy,     \* what it did before it set the timer
    woken,     \* the entries whose jobs it started last
    caller,    \* program counter of the caller
    id,        \* the ID its call is about
    entry,     \* whether Remove found an entry, or has nil
    stopper,   \* Stop: "idle", "sending", "sent", "returned"
    crashed    \* rm was called with nil

cronVars == <<now, timer, setBy>>
callVars == <<caller, id, entry>>
vars == <<clock, entries, next, running, cron, cronVars, woken, callVars, stopper, crashed>>

Never == 0

\* schedule.Next: the first time after t at which i is due, or the zero time.
IsNext(n, i, t) ==
    \/ /\ n \in Plan[i] /\ n > t
       /\ \A u \in Plan[i] : u > t => n <= u
    \/ n = 0 /\ \A u \in Plan[i] : u <= t

-----------------------------------------------------------------------------
(* The goroutine: run.                                                     *)

Timed(E, nxt) == {i \in E : nxt[i] # 0}

\* The timer for the first of the entries.  It is set relative to now.
SetTimer(E, nxt, from, by) ==
    /\ setBy' = by
    /\ now' = from
    /\ \/ Timed(E, nxt) = {} /\ timer' = Never
       \/ \E i \in Timed(E, nxt) :
            /\ \A j \in Timed(E, nxt) : nxt[i] <= nxt[j]
            /\ timer' = clock + nxt[i] - from

\* There are no entries yet when New calls Start.
Starts ==
    /\ cron = "starting"
    /\ cron' = "select"
    /\ now' = clock /\ timer' = Never /\ setBy' = "start"
    /\ UNCHANGED <<clock, entries, next, running, woken, callVars, stopper, crashed>>

Due == {i \in entries : next[i] # 0 /\ next[i] <= clock}

Wake ==
    /\ cron = "select"
    /\ timer # Never /\ timer <= clock
    /\ woken' = Due
    /\ \E nxt \in [Ids -> (UNION {Plan[i] : i \in Ids}) \cup {0}] :
         /\ \A i \in Ids : IF i \in Due THEN IsNext(nxt[i], i, clock) ELSE nxt[i] = next[i]
         /\ next' = nxt
         /\ SetTimer(entries, nxt, clock, "wake")
    /\ UNCHANGED <<clock, entries, running, cron, callVars, stopper, crashed>>

\* Mutant of ReceiveAdd: now is not read again.
ReceiveAddStale ==
    /\ cron = "select" /\ caller = "add"
    /\ entries' = entries \cup {id}
    /\ \E n \in Plan[id] \cup {0} :
         /\ IsNext(n, id, clock)
         /\ next' = [next EXCEPT ![id] = n]
         /\ SetTimer(entries \cup {id}, [next EXCEPT ![id] = n], now, "add")
    /\ caller' = "idle"
    /\ UNCHANGED <<clock, running, cron, woken, id, entry, stopper, crashed>>

ReceiveAdd ==
    /\ cron = "select" /\ caller = "add"
    /\ entries' = entries \cup {id}
    /\ \E n \in Plan[id] \cup {0} :
         /\ IsNext(n, id, clock)
         /\ next' = [next EXCEPT ![id] = n]
         /\ SetTimer(entries \cup {id}, [next EXCEPT ![id] = n], clock, "add")
    /\ caller' = "idle"
    /\ UNCHANGED <<clock, running, cron, woken, id, entry, stopper, crashed>>

\* rm, for the entry with the ID of the call or for nil.
Rm ==
    IF entry
    THEN entries' = entries \ {id} /\ UNCHANGED crashed
    ELSE crashed' = (entries # {}) /\ UNCHANGED entries

\* Mutant of ReceiveRemove: the entry is taken out only if it is the next one.
ReceiveRemoveFirst ==
    /\ cron = "select" /\ caller = "remove"
    /\ entries' = IF entry /\ timer = next[id] THEN entries \ {id} ELSE entries
    /\ crashed' = (~entry /\ entries # {})
    /\ SetTimer(entries', next, now, "remove")
    /\ caller' = "idle"
    /\ UNCHANGED <<clock, next, running, cron, woken, id, entry, stopper>>

\* The timer is set anew, relative to what now was before.
ReceiveRemove ==
    /\ cron = "select" /\ caller = "remove"
    /\ Rm
    /\ SetTimer(entries', next, now, "remove")
    /\ caller' = "idle"
    /\ UNCHANGED <<clock, next, running, cron, woken, id, entry, stopper>>

ReceiveSnapshot ==
    /\ cron = "select" /\ caller = "ask"
    /\ cron' = "snapshot" /\ caller' = "await"
    /\ UNCHANGED <<clock, entries, next, running, cronVars, woken, id, entry, stopper, crashed>>

SendSnapshot ==
    /\ cron = "snapshot" /\ caller = "await"
    /\ cron' = "select" /\ caller' = "found"
    /\ entry' = (id \in entries)
    /\ UNCHANGED <<clock, entries, next, running, cronVars, woken, id, stopper, crashed>>

ReceiveStop ==
    /\ cron = "select" /\ stopper = "sending"
    /\ cron' = "ended" /\ stopper' = "sent"
    /\ UNCHANGED <<clock, entries, next, running, cronVars, woken, callVars, crashed>>

Goroutine ==
    \/ Starts \/ Wake \/ ReceiveAdd \/ ReceiveRemove
    \/ ReceiveSnapshot \/ SendSnapshot \/ ReceiveStop

-----------------------------------------------------------------------------
(* AddFunc and Remove.  The flag is read once in the first and twice in the *)
(* second.                                                                  *)

AddFunc(i) ==
    /\ caller = "idle" /\ i \notin entries
    /\ caller' = IF running THEN "add" ELSE "append"
    /\ id' = i
    /\ UNCHANGED <<clock, entries, next, running, cron, cronVars, woken, entry, stopper, crashed>>

\* Without a goroutine nobody reads the schedule of a new entry.
AppendEntry ==
    /\ caller = "append"
    /\ entries' = entries \cup {id}
    /\ next' = [next EXCEPT ![id] = 0]
    /\ caller' = "idle"
    /\ UNCHANGED <<clock, running, cron, cronVars, woken, id, entry, stopper, crashed>>

Remove(i) ==
    /\ caller = "idle"
    /\ caller' = IF running THEN "ask" ELSE "copy"
    /\ id' = i
    /\ UNCHANGED <<clock, entries, next, running, cron, cronVars, woken, entry, stopper, crashed>>

CopyEntries ==
    /\ caller = "copy"
    /\ entry' = (id \in entries)
    /\ caller' = "found"
    /\ UNCHANGED <<clock, entries, next, running, cron, cronVars, woken, id, stopper, crashed>>

RemoveFound ==
    /\ caller = "found"
    /\ caller' = IF running THEN "remove" ELSE "rm"
    /\ UNCHANGED <<clock, entries, next, running, cron, cronVars, woken, id, entry, stopper, crashed>>

RemoveDirectly ==
    /\ caller = "rm"
    /\ Rm
    /\ caller' = "idle"
    /\ UNCHANGED <<clock, next, running, cron, cronVars, woken, id, entry, stopper>>

CallerProceeds == AppendEntry \/ CopyEntries \/ RemoveFound \/ RemoveDirectly

-----------------------------------------------------------------------------

Stop ==
    /\ stopper = "idle"
    /\ stopper' = IF running THEN "sending" ELSE "returned"
    /\ UNCHANGED <<clock, entries, next, running, cron, cronVars, woken, callVars, crashed>>

StopReturns ==
    /\ stopper = "sent"
    /\ running' = FALSE
    /\ stopper' = "returned"
    /\ UNCHANGED <<clock, entries, next, cron, cronVars, woken, callVars, crashed>>

Tick ==
    /\ clock < MaxTime
    /\ cron \in {"select", "ended"}
    /\ cron = "select" => timer = Never \/ clock < timer
    /\ clock' = clock + 1
    /\ UNCHANGED <<entries, next, running, cron, cronVars, woken, callVars, stopper, crashed>>

Init ==
    /\ clock = 0
    /\ entries = {} /\ next = [i \in Ids |-> 0]
    /\ running = TRUE /\ cron = "starting"
    /\ now = 0 /\ timer = Never /\ setBy = "start"
    /\ woken = {}
    /\ caller = "idle" /\ id \in Ids /\ entry = FALSE
    /\ stopper = "idle" /\ crashed = FALSE

\* A panic in the goroutine or in the caller ends the process.
Next ==
    /\ ~crashed
    /\ \/ Goroutine \/ CallerProceeds
       \/ \E i \in Ids : AddFunc(i) \/ Remove(i)
       \/ Stop \/ StopReturns
       \/ Tick

Spec == Init /\ [][Next]_vars

\* The goroutines go on when they can; select has no case it never takes.
FairSpec ==
    /\ Spec
    /\ WF_vars(~crashed /\ Goroutine)
    /\ WF_vars(~crashed /\ CallerProceeds)

-----------------------------------------------------------------------------
(* Properties.                                                             *)

\* The step of the call that is still to be taken.
Step ==
    IF caller \in {"add", "append"} THEN <<"add", id>>
    ELSE IF caller \in {"ask", "await", "copy"} THEN <<"lookUp", id>>
    ELSE IF caller \in {"found", "remove", "rm"}
         THEN <<IF entry THEN "takeOut" ELSE "takeOutNil", id>>
    ELSE NoCall

Entries == INSTANCE EntrySet WITH
    present <- entries, call <- Step, up <- cron # "ended"

\* The channels implement the set of entries that the executor relies on: an entry
\* is there from AddFunc to Remove, whichever way each call takes when Stop comes
\* in between, only entries that are there are woken, none is once Stop has
\* returned, and a call returns as long as the scheduler runs (a call that has
\* read the flag before Stop waits for ever).
EntriesSpec == Entries!FairSpec

\* While the scheduler runs, time does not go past an activation whose job has not
\* been started, except when the timer was last set for a Remove: it is then
\* relative to an older now, and late by as much ("The next time the job will
\* run", cron.go:39).
NoActivationMissed ==
    [][clock' # clock /\ cron = "select" /\ setBy # "remove" =>
         \A i \in entries : next[i] # 0 => clock < next[i]]_vars

=============================================================================
