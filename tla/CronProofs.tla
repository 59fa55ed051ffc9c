------------------------------ MODULE CronProofs ------------------------------
(***************************************************************************)
(* The goroutine, the flag and the channels of cron implement the set of   *)
(* entries, and time passes no activation, for every set of entries and    *)
(* schedules.                                                              *)
(***************************************************************************)
EXTENDS Cron, TLAPS

-----------------------------------------------------------------------------
(***************************************************************************)
(* The refinement.  A step of a call maps to a step of the set or, when it *)
(* only decides which way the call goes, to none.                          *)
(***************************************************************************)
IdInv == id \in Ids

LEMMA InitIdInv == Init => IdInv
BY DEF Init, IdInv

LEMMA NextIdInv == IdInv /\ [Next]_vars => IdInv'
<1> SUFFICES ASSUME IdInv, [Next]_vars
             PROVE  IdInv'
  OBVIOUS
<1>1. CASE Goroutine
  BY <1>1 DEF IdInv, Goroutine, Starts, Wake, ReceiveAdd, ReceiveRemove,
              ReceiveSnapshot, SendSnapshot, ReceiveStop, callVars
<1>2. CASE CallerProceeds
  BY <1>2 DEF IdInv, CallerProceeds, AppendEntry, CopyEntries, RemoveFound,
              RemoveDirectly
<1>3. ASSUME NEW i \in Ids, AddFunc(i) \/ Remove(i) PROVE IdInv'
  BY <1>3 DEF IdInv, AddFunc, Remove
<1>4. CASE Stop \/ StopReturns \/ Tick \/ UNCHANGED vars
  BY <1>4 DEF IdInv, Stop, StopReturns, Tick, vars, callVars
<1> QED
  BY <1>1, <1>2, <1>3, <1>4 DEF Next

LEMMA InitRefines == Init => Entries!Init
BY DEF Init, Entries!Init, Step

\* Taking an entry out, or nil, on either side of the channel.
LEMMA RmRefines ==
  ASSUME Rm, UNCHANGED <<woken, cron>>,
         Step = <<IF entry THEN "takeOut" ELSE "takeOutNil", id>>, Step' = NoCall
  PROVE  Entries!TakeOut(id)
<1>1. CASE entry
  BY <1>1 DEF Rm, Entries!TakeOut
<1>2. CASE ~entry
  BY <1>2 DEF Rm, Entries!TakeOut
<1> QED
  BY <1>1, <1>2

LEMMA GoroutineRefines ==
  ASSUME IdInv, ~crashed, Goroutine
  PROVE  [Entries!Next]_Entries!entryVars
<1>1. CASE Starts
  BY <1>1 DEF Starts, Step, callVars, Entries!entryVars
<1>2. CASE Wake
  <2>1. woken' \in SUBSET entries /\ cron # "ended" /\ cron' = cron
    BY <1>2 DEF Wake, Due
  <2>2. UNCHANGED <<entries, Step, crashed>>
    BY <1>2 DEF Wake, Step, callVars
  <2>3. Entries!Wake
    BY <2>1, <2>2 DEF Entries!Wake
  <2> QED
    BY <2>3 DEF Entries!Next
<1>3. CASE ReceiveAdd
  <2>1. Step = <<"add", id>> /\ Step' = NoCall
    BY <1>3 DEF ReceiveAdd, Step
  <2>2. entries' = entries \cup {id} /\ UNCHANGED <<woken, cron, crashed>>
    BY <1>3 DEF ReceiveAdd
  <2>3. Entries!Add(id)
    BY <2>1, <2>2 DEF Entries!Add
  <2> QED
    BY <2>3 DEF Entries!Next, Entries!Proceed, IdInv
<1>4. CASE ReceiveRemove
  <2>1. Step = <<IF entry THEN "takeOut" ELSE "takeOutNil", id>> /\ Step' = NoCall
    BY <1>4 DEF ReceiveRemove, Step
  <2>2. Rm /\ UNCHANGED <<woken, cron>>
    BY <1>4 DEF ReceiveRemove
  <2>3. Entries!TakeOut(id)
    BY <2>1, <2>2, RmRefines
  <2> QED
    BY <2>3 DEF Entries!Next, Entries!Proceed, IdInv
<1>5. CASE ReceiveSnapshot
  BY <1>5 DEF ReceiveSnapshot, Step, Entries!entryVars
<1>6. CASE SendSnapshot
  <2>1. Step = <<"lookUp", id>>
        /\ Step' = <<IF id \in entries THEN "takeOut" ELSE "takeOutNil", id>>
    BY <1>6 DEF SendSnapshot, Step
  <2>2. cron # "ended" /\ cron' # "ended" /\ UNCHANGED <<entries, woken, crashed>>
    BY <1>6 DEF SendSnapshot
  <2>3. Entries!LookUp(id)
    BY <2>1, <2>2 DEF Entries!LookUp
  <2> QED
    BY <2>3 DEF Entries!Next, Entries!Proceed, IdInv
<1>7. CASE ReceiveStop
  <2>1. cron # "ended" /\ cron' = "ended"
    BY <1>7 DEF ReceiveStop
  <2>2. UNCHANGED <<entries, Step, woken, crashed>>
    BY <1>7 DEF ReceiveStop, Step, callVars
  <2>3. Entries!Stop
    BY <2>1, <2>2 DEF Entries!Stop
  <2> QED
    BY <2>3 DEF Entries!Next
<1> QED
  BY <1>1, <1>2, <1>3, <1>4, <1>5, <1>6, <1>7 DEF Goroutine

LEMMA CallerRefines ==
  ASSUME IdInv, ~crashed, CallerProceeds
  PROVE  [Entries!Next]_Entries!entryVars
<1>1. CASE AppendEntry
  <2>1. Step = <<"add", id>> /\ Step' = NoCall
    BY <1>1 DEF AppendEntry, Step
  <2>2. entries' = entries \cup {id} /\ UNCHANGED <<woken, cron, crashed>>
    BY <1>1 DEF AppendEntry
  <2>3. Entries!Add(id)
    BY <2>1, <2>2 DEF Entries!Add
  <2> QED
    BY <2>3 DEF Entries!Next, Entries!Proceed, IdInv
<1>2. CASE CopyEntries
  <2>1. Step = <<"lookUp", id>>
        /\ Step' = <<IF id \in entries THEN "takeOut" ELSE "takeOutNil", id>>
    BY <1>2 DEF CopyEntries, Step
  <2>2. UNCHANGED <<entries, woken, cron, crashed>>
    BY <1>2 DEF CopyEntries
  <2>3. Entries!LookUp(id)
    BY <2>1, <2>2 DEF Entries!LookUp
  <2> QED
    BY <2>3 DEF Entries!Next, Entries!Proceed, IdInv
<1>3. CASE RemoveFound
  BY <1>3 DEF RemoveFound, Step, Entries!entryVars
<1>4. CASE RemoveDirectly
  <2>1. Step = <<IF entry THEN "takeOut" ELSE "takeOutNil", id>> /\ Step' = NoCall
    BY <1>4 DEF RemoveDirectly, Step
  <2>2. Rm /\ UNCHANGED <<woken, cron>>
    BY <1>4 DEF RemoveDirectly
  <2>3. Entries!TakeOut(id)
    BY <2>1, <2>2, RmRefines
  <2> QED
    BY <2>3 DEF Entries!Next, Entries!Proceed, IdInv
<1> QED
  BY <1>1, <1>2, <1>3, <1>4 DEF CallerProceeds

LEMMA BeginRefines ==
  ASSUME ~crashed, NEW i \in Ids, AddFunc(i) \/ Remove(i)
  PROVE  Entries!Next
<1>1. CASE AddFunc(i)
  <2>1. Step = NoCall /\ Step' = <<"add", i>>
    BY <1>1 DEF AddFunc, Step
  <2>2. i \notin entries /\ UNCHANGED <<entries, woken, cron, crashed>>
    BY <1>1 DEF AddFunc
  <2>3. Entries!Begin("add", i)
    BY <2>1, <2>2 DEF Entries!Begin
  <2> QED
    BY <2>3 DEF Entries!Next
<1>2. CASE Remove(i)
  <2>1. Step = NoCall /\ Step' = <<"lookUp", i>>
    BY <1>2 DEF Remove, Step
  <2>2. UNCHANGED <<entries, woken, cron, crashed>>
    BY <1>2 DEF Remove
  <2>3. Entries!Begin("lookUp", i)
    BY <2>1, <2>2 DEF Entries!Begin
  <2> QED
    BY <2>3 DEF Entries!Next
<1> QED
  BY <1>1, <1>2

LEMMA NextRefines == IdInv /\ [Next]_vars => [Entries!Next]_Entries!entryVars
<1> SUFFICES ASSUME IdInv, [Next]_vars
             PROVE  [Entries!Next]_Entries!entryVars
  OBVIOUS
<1>1. CASE Next /\ Goroutine
  BY <1>1, GoroutineRefines DEF Next
<1>2. CASE Next /\ CallerProceeds
  BY <1>2, CallerRefines DEF Next
<1>3. ASSUME Next, NEW i \in Ids, AddFunc(i) \/ Remove(i)
      PROVE  Entries!Next
  BY <1>3, BeginRefines DEF Next
<1>4. CASE Stop \/ StopReturns \/ Tick \/ UNCHANGED vars
  BY <1>4 DEF Stop, StopReturns, Tick, vars, callVars, Step, Entries!entryVars
<1> QED
  BY <1>1, <1>2, <1>3, <1>4 DEF Next

\* Whichever way a call takes and whenever Stop comes, the scheduler behaves as the
\* set of entries that module Executor takes it for (cron.go: Schedule, Remove, run).
THEOREM ImplementsEntries == Spec => Entries!Spec
<1>1. Init => IdInv /\ Entries!Init
  BY InitIdInv, InitRefines
<1>2. IdInv /\ [Next]_vars => IdInv' /\ [Entries!Next]_Entries!entryVars
  BY NextIdInv, NextRefines
<1> QED
  BY <1>1, <1>2, PTL DEF Spec, Entries!Spec

-----------------------------------------------------------------------------
(***************************************************************************)
(* Time passes no activation.  The timer fires no later than the first of  *)
(* the entries is due when it was set relative to the clock; after a       *)
(* Remove it may have been set relative to an earlier time.                *)
(***************************************************************************)
ClockTypes ==
  /\ clock \in Nat /\ now \in Nat /\ timer \in Nat
  /\ now <= clock
  /\ entries \subseteq Ids /\ next \in [Ids -> Nat]

\* An entry is appended behind the back of the goroutine only when it has ended.
FlagInv ==
  /\ id \in Ids
  /\ caller = "append" => ~running
  /\ ~running \/ stopper = "sent" => cron = "ended"
  /\ cron = "starting" => entries = {}

TimerInv ==
  cron # "ended" /\ setBy # "remove" =>
    \A i \in Timed(entries, next) : timer # Never /\ timer <= next[i]

MissInv == ClockTypes /\ FlagInv /\ TimerInv

LEMMA InitMissInv == Init => MissInv
BY DEF Init, MissInv, ClockTypes, FlagInv, TimerInv, Timed, Never

\* The timer that is set relative to the clock.
LEMMA SetTimerInTime ==
  ASSUME NEW E, NEW nxt \in [Ids -> Nat], E \subseteq Ids, NEW by,
         clock \in Nat, SetTimer(E, nxt, clock, by)
  PROVE  /\ timer' \in Nat /\ now' \in Nat
         /\ \A i \in Timed(E, nxt) : timer' # Never /\ timer' <= nxt[i]
<1>1. CASE Timed(E, nxt) = {} /\ timer' = Never
  BY <1>1 DEF SetTimer, Never
<1>2. CASE \E i \in Timed(E, nxt) :
             /\ \A j \in Timed(E, nxt) : nxt[i] <= nxt[j]
             /\ timer' = clock + nxt[i] - clock
  <2>1. PICK i \in Timed(E, nxt) :
             /\ \A j \in Timed(E, nxt) : nxt[i] <= nxt[j]
             /\ timer' = clock + nxt[i] - clock
    BY <1>2
  <2>2. nxt[i] \in Nat /\ nxt[i] # 0
    BY DEF Timed
  <2>3. timer' = nxt[i]
    BY <2>1, <2>2
  <2> QED
    BY <2>1, <2>2, <2>3 DEF SetTimer, Never
<1> QED
  BY <1>1, <1>2 DEF SetTimer

\* The timer that is set after a Remove, whose now is not later than the clock.
LEMMA SetTimerTypes ==
  ASSUME NEW E, NEW nxt \in [Ids -> Nat], E \subseteq Ids, NEW by,
         clock \in Nat, now \in Nat, now <= clock, SetTimer(E, nxt, now, by)
  PROVE  timer' \in Nat /\ now' \in Nat
<1>1. CASE Timed(E, nxt) = {} /\ timer' = Never
  BY <1>1 DEF SetTimer, Never
<1>2. CASE \E i \in Timed(E, nxt) : timer' = clock + nxt[i] - now
  <2>1. PICK i \in Timed(E, nxt) : timer' = clock + nxt[i] - now
    BY <1>2
  <2>2. nxt[i] \in Nat
    BY DEF Timed
  <2> QED
    BY <2>1, <2>2 DEF SetTimer
<1> QED
  BY <1>1, <1>2 DEF SetTimer

LEMMA GoroutineMissInv ==
  ASSUME MissInv, Goroutine
  PROVE  MissInv'
<1>1. CASE Starts
  <2>1. entries' = {} /\ next' = next /\ cron' = "select"
    BY <1>1 DEF Starts, MissInv, FlagInv
  <2>2. Timed(entries, next)' = {}
    BY <2>1 DEF Timed
  <2> QED
    BY <1>1, <2>1, <2>2 DEF Starts, MissInv, ClockTypes, FlagInv, TimerInv, callVars, Never
<1>2. CASE Wake
  <2>1. PICK nxt \in [Ids -> (UNION {Plan[i] : i \in Ids}) \cup {0}] :
             next' = nxt /\ SetTimer(entries, nxt, clock, "wake")
    BY <1>2 DEF Wake
  <2>2. nxt \in [Ids -> Nat]
    <3>1. UNION {Plan[i] : i \in Ids} \subseteq Nat
      BY PlanAssumption
    <3> QED
      BY <3>1
  <2>3. /\ timer' \in Nat /\ now' \in Nat
        /\ \A i \in Timed(entries, nxt) : timer' # Never /\ timer' <= nxt[i]
    BY <2>1, <2>2, SetTimerInTime DEF MissInv, ClockTypes
  <2>4. UNCHANGED <<clock, entries, running, cron, callVars, stopper>> /\ now' = clock
    BY <1>2, <2>1 DEF Wake, SetTimer
  <2>5. ClockTypes'
    BY <2>1, <2>2, <2>3, <2>4 DEF MissInv, ClockTypes
  <2>6. FlagInv'
    BY <2>4 DEF MissInv, FlagInv, callVars
  <2>7. TimerInv'
    BY <2>1, <2>3, <2>4 DEF TimerInv
  <2> QED
    BY <2>5, <2>6, <2>7 DEF MissInv
<1>3. CASE ReceiveAdd
  <2> DEFINE E == entries \cup {id}
  <2>1. PICK n \in Plan[id] \cup {0} :
             /\ next' = [next EXCEPT ![id] = n]
             /\ SetTimer(E, [next EXCEPT ![id] = n], clock, "add")
    BY <1>3 DEF ReceiveAdd
  <2> DEFINE nxt == [next EXCEPT ![id] = n]
  <2>2. nxt \in [Ids -> Nat] /\ E \subseteq Ids
    BY PlanAssumption DEF MissInv, ClockTypes, FlagInv
  <2>3. /\ timer' \in Nat /\ now' \in Nat
        /\ \A i \in Timed(E, nxt) : timer' # Never /\ timer' <= nxt[i]
    <3> HIDE DEF E, nxt
    <3>1. SetTimer(E, nxt, clock, "add")
      BY <2>1 DEF nxt
    <3> QED
      BY <2>2, <3>1, SetTimerInTime DEF MissInv, ClockTypes
  <2>4. /\ UNCHANGED <<clock, running, cron, id, stopper>> /\ now' = clock
        /\ entries' = E /\ cron = "select" /\ caller' = "idle"
    BY <1>3, <2>1 DEF ReceiveAdd, SetTimer
  <2>5. ClockTypes'
    BY <2>1, <2>2, <2>3, <2>4 DEF MissInv, ClockTypes
  <2>6. FlagInv'
    BY <2>4 DEF MissInv, FlagInv
  <2>7. TimerInv'
    BY <2>1, <2>3, <2>4 DEF TimerInv
  <2> QED
    BY <2>5, <2>6, <2>7 DEF MissInv
<1>4. CASE ReceiveRemove
  <2>1. /\ entries' \subseteq entries /\ UNCHANGED <<clock, next, running, cron, id, stopper>>
        /\ cron = "select" /\ caller' = "idle" /\ setBy' = "remove" /\ now' = now
    BY <1>4 DEF ReceiveRemove, Rm, SetTimer
  <2>2. timer' \in Nat
    BY <1>4, <2>1, SetTimerTypes DEF ReceiveRemove, MissInv, ClockTypes
  <2> QED
    BY <2>1, <2>2 DEF MissInv, ClockTypes, FlagInv, TimerInv
<1>5. CASE ReceiveSnapshot \/ SendSnapshot \/ ReceiveStop
  <2>1. UNCHANGED <<clock, entries, next, running, cronVars, id>>
    BY <1>5 DEF ReceiveSnapshot, SendSnapshot, ReceiveStop, callVars
  <2>2. /\ cron # "ended" /\ cron # "starting" /\ cron' # "starting"
        /\ caller' = "append" => caller = "append"
        /\ cron' # "ended" => stopper' = stopper
    BY <1>5 DEF ReceiveSnapshot, SendSnapshot, ReceiveStop, callVars
  <2> QED
    BY <2>1, <2>2 DEF MissInv, ClockTypes, FlagInv, TimerInv, cronVars
<1> QED
  BY <1>1, <1>2, <1>3, <1>4, <1>5 DEF Goroutine

LEMMA OthersMissInv ==
  ASSUME MissInv, Next, ~Goroutine
  PROVE  MissInv'
<1>1. CASE AppendEntry
  <2>1. cron = "ended" /\ cron' = cron
    BY <1>1 DEF AppendEntry, MissInv, FlagInv
  <2>2. entries' \subseteq Ids /\ next' \in [Ids -> Nat]
    BY <1>1 DEF AppendEntry, MissInv, ClockTypes, FlagInv
  <2> QED
    BY <1>1, <2>1, <2>2 DEF AppendEntry, MissInv, ClockTypes, FlagInv, TimerInv, cronVars
<1>2. CASE RemoveDirectly
  <2>1. entries' \subseteq entries
    BY <1>2 DEF RemoveDirectly, Rm
  <2> QED
    BY <1>2, <2>1 DEF RemoveDirectly, MissInv, ClockTypes, FlagInv, TimerInv, cronVars, Timed
<1>3. CASE CopyEntries \/ RemoveFound
  BY <1>3 DEF CopyEntries, RemoveFound, MissInv, ClockTypes, FlagInv, TimerInv, cronVars
<1>4. ASSUME NEW i \in Ids, AddFunc(i) \/ Remove(i) PROVE MissInv'
  BY <1>4 DEF AddFunc, Remove, MissInv, ClockTypes, FlagInv, TimerInv, cronVars
<1>5. CASE Stop
  BY <1>5 DEF Stop, MissInv, ClockTypes, FlagInv, TimerInv, cronVars, callVars
<1>6. CASE StopReturns
  BY <1>6 DEF StopReturns, MissInv, ClockTypes, FlagInv, TimerInv, cronVars, callVars
<1>7. CASE Tick
  BY <1>7 DEF Tick, MissInv, ClockTypes, FlagInv, TimerInv, cronVars, callVars
<1> QED
  BY <1>1, <1>2, <1>3, <1>4, <1>5, <1>6, <1>7 DEF Next, CallerProceeds

LEMMA NextMissInv == MissInv /\ [Next]_vars => MissInv'
<1>1. ASSUME MissInv, Next PROVE MissInv'
  BY <1>1, GoroutineMissInv, OthersMissInv DEF Next
<1>2. ASSUME MissInv, UNCHANGED vars PROVE MissInv'
  BY <1>2 DEF vars, cronVars, callVars, MissInv, ClockTypes, FlagInv, TimerInv
<1> QED
  BY <1>1, <1>2

LEMMA ClockStands ==
  ASSUME Next, clock' # clock
  PROVE  Tick
<1>1. ~Goroutine
  BY DEF Goroutine, Starts, Wake, ReceiveAdd, ReceiveRemove, ReceiveSnapshot,
         SendSnapshot, ReceiveStop
<1>2. ~CallerProceeds /\ ~Stop /\ ~StopReturns
  BY DEF CallerProceeds, AppendEntry, CopyEntries, RemoveFound, RemoveDirectly, Stop,
         StopReturns
<1>3. \A i \in Ids : ~AddFunc(i) /\ ~Remove(i)
  BY DEF AddFunc, Remove
<1> QED
  BY <1>1, <1>2, <1>3 DEF Next

\* Time passes no activation of an entry before its job is started, unless the timer
\* was last set for a Remove (cron.go: run).
THEOREM ActivationsMet == Spec => NoActivationMissed
<1> DEFINE Met == clock' # clock /\ cron = "select" /\ setBy # "remove" =>
                    \A i \in entries : next[i] # 0 => clock < next[i]
<1>1. MissInv /\ Next => Met
  <2> SUFFICES ASSUME MissInv, Next, clock' # clock, cron = "select", setBy # "remove",
                      NEW i \in entries, next[i] # 0
               PROVE  clock < next[i]
    OBVIOUS
  <2>1. timer = Never \/ clock < timer
    BY ClockStands DEF Tick
  <2>2. timer # Never /\ timer <= next[i]
    BY DEF MissInv, TimerInv, Timed
  <2>3. clock \in Nat /\ timer \in Nat /\ next[i] \in Nat
    BY DEF MissInv, ClockTypes
  <2> QED
    BY <2>1, <2>2, <2>3
<1>2. MissInv /\ [Next]_vars => [Met]_vars
  BY <1>1
<1> QED
  BY <1>2, InitMissInv, NextMissInv, PTL DEF Spec, NoActivationMissed

=============================================================================
