------------------------------- MODULE EntrySet -------------------------------
(***************************************************************************)
(* What the executor takes the cron scheduler for: a set of entries.  A    *)
(* call of AddFunc puts one in; a call of Remove looks one up and takes it *)
(* out in a second step; the scheduler may start the job of any entry that *)
(* is in the set until it is stopped.  Module Executor uses it in this     *)
(* form, module Cron implements it.                                        *)
(***************************************************************************)
CONSTANTS Ids, NoCall

VARIABLES
    present,   \* the IDs of the entries
    call,      \* the call in progress: its next step and the ID it is about
    woken,     \* the entries whose jobs were started last
    up,        \* whether the scheduler runs
    crashed    \* whether a nil entry was to be taken out

entryVars == <<present, call, woken, up, crashed>>

Init ==
    /\ present = {} /\ call = NoCall /\ woken = {}
    /\ up = TRUE /\ crashed = FALSE

Begin(step, id) ==
    /\ call = NoCall
    /\ step = "add" => id \notin present
    /\ call' = <<step, id>>
    /\ UNCHANGED <<present, woken, up, crashed>>

Add(id) ==
    /\ call = <<"add", id>>
    /\ present' = present \cup {id}
    /\ call' = NoCall
    /\ UNCHANGED <<woken, up, crashed>>

LookUp(id) ==
    /\ call = <<"lookUp", id>>
    /\ call' = <<IF id \in present THEN "takeOut" ELSE "takeOutNil", id>>
    /\ UNCHANGED <<present, woken, up, crashed>>

\* A nil entry can be compared with no other.
TakeOut(id) ==
    /\ \/ call = <<"takeOut", id>> /\ present' = present \ {id} /\ UNCHANGED crashed
       \/ call = <<"takeOutNil", id>> /\ crashed' = (present # {}) /\ UNCHANGED present
    /\ call' = NoCall
    /\ UNCHANGED <<woken, up>>

Wake ==
    /\ up
    /\ woken' \in SUBSET present
    /\ UNCHANGED <<present, call, up, crashed>>

Stop ==
    /\ up
    /\ up' = FALSE
    /\ UNCHANGED <<present, call, woken, crashed>>

Proceed == \E id \in Ids : Add(id) \/ LookUp(id) \/ TakeOut(id)

Next ==
    /\ ~crashed
    /\ \/ \E step \in {"add", "lookUp"}, id \in Ids : Begin(step, id)
       \/ Proceed \/ Wake \/ Stop

Spec == Init /\ [][Next]_entryVars

\* A call comes to its end as long as the scheduler runs.
FairSpec == Spec /\ WF_entryVars(up /\ ~crashed /\ Proceed)

=============================================================================
