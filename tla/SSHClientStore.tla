--------------------------- MODULE SSHClientStore ---------------------------
(***************************************************************************)
(* The store of SSH connections: job/client.go.  A caller (a host node of  *)
(* an execution tree) asks newSSHClient for a connection and gives it back *)
(* when its context ends.  The store's mutex is held only inside an        *)
(* action, so what a caller read in one action may be stale in the next:   *)
(*                                                                         *)
(*   callers  newSSHClient and the goroutine that waits for ctx.Done;      *)
(*   waiters  one goroutine per connection, which takes it out of the      *)
(*            store once the connection is closed;                         *)
(*   janitor  closes what has been unused for longer than the TTL;         *)
(*   network  closes a connection at any time.                             *)
(*                                                                         *)
(* A store element is identified with its client: each element is made     *)
(* with one client and keeps it.  Keep-alive requests change no state.     *)
(***************************************************************************)
EXTENDS Integers, FiniteSets

CONSTANTS
    Keys,      \* "user@addr"
    Clients,   \* slots for SSH clients: a bound on those that exist at once
    Callers,   \* goroutines that ask for a connection
    Nil

ASSUME NilAssumption == Nil \notin Keys \cup Clients
ASSUME CallersAssumption == IsFiniteSet(Callers)

VARIABLES
    clients,   \* sshClientStore.clients: the element of each key
    ref,       \* storeElement.ref
    expired,   \* whether lastUsed is longer ago than the TTL
    conn,      \* state of the SSH connection
    waiter,    \* the goroutine that waits for the end of the connection
    keyOf,     \* the key that the waiter of a client deletes
    pc, key, elem,  \* program counter and locals of each caller
    displaced  \* history: keys whose element was dropped with its connection open

storeVars  == <<clients, ref, expired>>
clientVars == <<conn, waiter, keyOf>>
callerVars == <<pc, key, elem>>
vars == <<storeVars, clientVars, callerVars, displaced>>

CallerPC == {"idle", "lookup", "dial", "insert", "reuse", "using", "release"}

Stored(c) == \E k \in Keys : clients[k] = c
Holds(p, c) == elem[p] = c
Users(c) == {p \in Callers : Holds(p, c) /\ pc[p] \in {"using", "release"}}

Put(k, c) == clients' = [clients EXCEPT ![k] = c]

\* History: an open connection leaves the store other than by the janitor.
Displace(k) == displaced' = IF clients[k] # Nil /\ conn[clients[k]] = "open"
                              THEN displaced \cup {k} ELSE displaced

-----------------------------------------------------------------------------
(* Callers: newSSHClient.                                                  *)

Request(p, k) ==
    /\ pc[p] = "idle"
    /\ pc' = [pc EXCEPT ![p] = "lookup"]
    /\ key' = [key EXCEPT ![p] = k]
    /\ UNCHANGED <<storeVars, clientVars, elem, displaced>>

\* Mutant of Lookup: a missing element is taken for one that exists.
LookupUntested(p) ==
    /\ pc[p] = "lookup"
    /\ elem' = [elem EXCEPT ![p] = clients[key[p]]]
    /\ pc' = [pc EXCEPT ![p] = "reuse"]
    /\ UNCHANGED <<storeVars, clientVars, key, displaced>>

\* The first critical section: is there an element?
Lookup(p) ==
    /\ pc[p] = "lookup"
    /\ elem' = [elem EXCEPT ![p] = clients[key[p]]]
    /\ pc' = [pc EXCEPT ![p] = IF clients[key[p]] = Nil THEN "dial" ELSE "reuse"]
    /\ UNCHANGED <<storeVars, clientVars, key, displaced>>

\* A slot nothing refers to: its client is garbage or was never made.
Unused(c) ==
    /\ conn[c] # "open" /\ waiter[c] = "none"
    /\ ~Stored(c) /\ \A p \in Callers : ~Holds(p, c)

\* createClient succeeds, and a waiter for the new connection starts.
Dial(p, c) ==
    /\ pc[p] = "dial" /\ Unused(c)
    /\ conn' = [conn EXCEPT ![c] = "open"]
    /\ waiter' = [waiter EXCEPT ![c] = "waiting"]
    /\ keyOf' = [keyOf EXCEPT ![c] = key[p]]
    /\ ref' = [ref EXCEPT ![c] = 0]
    /\ expired' = [expired EXCEPT ![c] = FALSE]
    /\ elem' = [elem EXCEPT ![p] = c]
    /\ pc' = [pc EXCEPT ![p] = "insert"]
    /\ UNCHANGED <<clients, key, displaced>>

DialFails(p) ==
    /\ pc[p] = "dial"
    /\ pc' = [pc EXCEPT ![p] = "idle"]
    /\ key' = [key EXCEPT ![p] = Nil]
    /\ UNCHANGED <<storeVars, clientVars, elem, displaced>>

\* Takes a reference on behalf of p to the element p holds.
Acquire(p) ==
    /\ ref' = [ref EXCEPT ![elem[p]] = @ + 1]
    /\ expired' = [expired EXCEPT ![elem[p]] = FALSE]
    /\ pc' = [pc EXCEPT ![p] = "using"]

\* Mutant of Insert: the element of a new client is born with a reference.
InsertTwice(p) ==
    /\ pc[p] = "insert"
    /\ Displace(key[p])
    /\ Put(key[p], elem[p])
    /\ ref' = [ref EXCEPT ![elem[p]] = @ + 2]
    /\ expired' = [expired EXCEPT ![elem[p]] = FALSE]
    /\ pc' = [pc EXCEPT ![p] = "using"]
    /\ UNCHANGED <<clientVars, key, elem>>

\* The second critical section after a miss: the element is stored, whatever
\* another caller has stored meanwhile.
Insert(p) ==
    /\ pc[p] = "insert"
    /\ Displace(key[p])
    /\ Put(key[p], elem[p])
    /\ Acquire(p)
    /\ UNCHANGED <<clientVars, key, elem>>

\* The second critical section after a hit: the element found before is used,
\* stored still or not.
Reuse(p) ==
    /\ pc[p] = "reuse"
    /\ Acquire(p)
    /\ UNCHANGED <<clients, clientVars, key, elem, displaced>>

\* The caller's context ends: from here on it does not use the client.
CtxDone(p) ==
    /\ pc[p] = "using"
    /\ pc' = [pc EXCEPT ![p] = "release"]
    /\ UNCHANGED <<storeVars, clientVars, key, elem, displaced>>

\* Mutant of Release: the reference is never given back.
ReleaseForgets(p) ==
    /\ pc[p] = "release"
    /\ pc' = [pc EXCEPT ![p] = "idle"]
    /\ key' = [key EXCEPT ![p] = Nil]
    /\ elem' = [elem EXCEPT ![p] = Nil]
    /\ UNCHANGED <<storeVars, clientVars, displaced>>

\* The goroutine behind ctx.Done: counts down whichever element is stored.
Release(p) ==
    /\ pc[p] = "release"
    /\ LET c == clients[key[p]]
       IN  IF c = Nil THEN UNCHANGED <<ref, expired>>
           ELSE /\ ref' = [ref EXCEPT ![c] = @ - 1]
                /\ expired' = [expired EXCEPT ![c] = FALSE]
    /\ pc' = [pc EXCEPT ![p] = "idle"]
    /\ key' = [key EXCEPT ![p] = Nil]
    /\ elem' = [elem EXCEPT ![p] = Nil]
    /\ UNCHANGED <<clients, clientVars, displaced>>

-----------------------------------------------------------------------------
(* Waiters, the janitor and the network.                                   *)

\* The other side, or the network, ends the connection.
Disconnect(c) ==
    /\ conn[c] = "open"
    /\ conn' = [conn EXCEPT ![c] = "closed"]
    /\ UNCHANGED <<storeVars, waiter, keyOf, callerVars, displaced>>

\* client.Wait returns.
WaiterWakes(c) ==
    /\ waiter[c] = "waiting" /\ conn[c] = "closed"
    /\ waiter' = [waiter EXCEPT ![c] = "closing"]
    /\ UNCHANGED <<storeVars, conn, keyOf, callerVars, displaced>>

\* The waiter deletes the element of its key, whichever client that holds.
WaiterDeletes(c) ==
    /\ waiter[c] = "closing"
    /\ Displace(keyOf[c])
    /\ Put(keyOf[c], Nil)
    /\ waiter' = [waiter EXCEPT ![c] = "none"]
    /\ UNCHANGED <<ref, expired, conn, keyOf, callerVars>>

\* Time passes: a stored element was last used longer ago than the TTL.
Expire(c) ==
    /\ Stored(c) /\ ~expired[c]
    /\ expired' = [expired EXCEPT ![c] = TRUE]
    /\ UNCHANGED <<clients, ref, clientVars, callerVars, displaced>>

\* The elements the janitor finds unused for longer than the TTL.
Due == {k \in Keys : clients[k] # Nil /\ ref[clients[k]] <= 0 /\ expired[clients[k]]}

\* Mutant of Janitor: takes what is due out of the store and leaves it open.
JanitorForgets ==
    /\ Due # {}
    /\ clients' = [k \in Keys |-> IF k \in Due THEN Nil ELSE clients[k]]
    /\ UNCHANGED <<ref, expired, clientVars, callerVars, displaced>>

Janitor ==
    /\ Due # {}
    /\ conn' = [c \in Clients |-> IF \E k \in Due : clients[k] = c THEN "closed" ELSE conn[c]]
    /\ clients' = [k \in Keys |-> IF k \in Due THEN Nil ELSE clients[k]]
    /\ UNCHANGED <<ref, expired, waiter, keyOf, callerVars, displaced>>

-----------------------------------------------------------------------------
Init ==
    /\ clients = [k \in Keys |-> Nil]
    /\ ref     = [c \in Clients |-> 0]
    /\ expired = [c \in Clients |-> FALSE]
    /\ conn    = [c \in Clients |-> "none"]
    /\ waiter  = [c \in Clients |-> "none"]
    /\ keyOf   = [c \in Clients |-> Nil]
    /\ pc      = [p \in Callers |-> "idle"]
    /\ key     = [p \in Callers |-> Nil]
    /\ elem    = [p \in Callers |-> Nil]
    /\ displaced = {}

CallerStep(p) == Lookup(p) \/ Insert(p) \/ Reuse(p) \/ Release(p)
WaiterStep(c) == WaiterWakes(c) \/ WaiterDeletes(c)

Next ==
    \/ \E p \in Callers, k \in Keys : Request(p, k)
    \/ \E p \in Callers, c \in Clients : Dial(p, c)
    \/ \E p \in Callers : CallerStep(p) \/ DialFails(p) \/ CtxDone(p)
    \/ \E c \in Clients : WaiterStep(c) \/ Disconnect(c) \/ Expire(c)
    \/ Janitor

\* Goroutines run and time passes.  A dial may take for ever, a context may
\* last for ever, and a connection need not be closed by the network.
Fairness ==
    /\ \A p \in Callers : WF_vars(CallerStep(p))
    /\ \A c \in Clients : WF_vars(WaiterStep(c)) /\ WF_vars(Expire(c))
    /\ WF_vars(Janitor)

Spec == Init /\ [][Next]_vars
FairSpec == Spec /\ Fairness

-----------------------------------------------------------------------------
\* Every variable holds a value of its Go type; a caller has a key while it is
\* busy and an element from the time it has found or made one.
TypeOK ==
    /\ clients \in [Keys -> Clients \cup {Nil}]
    /\ ref \in [Clients -> Int] /\ expired \in [Clients -> BOOLEAN]
    /\ conn \in [Clients -> {"none", "open", "closed"}]
    /\ waiter \in [Clients -> {"none", "waiting", "closing"}]
    /\ keyOf \in [Clients -> Keys \cup {Nil}]
    /\ pc \in [Callers -> CallerPC]
    /\ key \in [Callers -> Keys \cup {Nil}] /\ elem \in [Callers -> Clients \cup {Nil}]
    /\ displaced \subseteq Keys
    /\ \A p \in Callers : /\ pc[p] # "idle" => key[p] \in Keys
                          /\ pc[p] \in {"insert", "reuse", "using", "release"}
                               => elem[p] \in Clients
    /\ \A c \in Clients : waiter[c] # "none" \/ conn[c] = "open" => keyOf[c] \in Keys
    /\ \A k \in Keys : clients[k] # Nil => conn[clients[k]] # "none"

\* The reference count of a stored element never exceeds the callers that hold
\* it: although counts go up by element and down by key, a client nobody uses
\* cannot be kept by a reference that was lost.  (It may well be lower: then
\* the janitor closes a client that is in use.)
RefNeverTooHigh ==
    \A k \in Keys : clients[k] # Nil => ref[clients[k]] <= Cardinality(Users(clients[k]))

\* An open connection is in the store, or about to be, or its key was displaced:
\* a second caller stored its own client over it, or a late waiter deleted it.
NoLeakUnlessDisplaced ==
    \A c \in Clients : conn[c] = "open" =>
        \/ Stored(c)
        \/ \E p \in Callers : pc[p] = "insert" /\ elem[p] = c
        \/ keyOf[c] \in displaced

\* README.md:17: once all callers are done for good, the TTL empties the store.
UnusedAreClosed ==
    <>[](\A p \in Callers : pc[p] = "idle") => <>[](\A k \in Keys : clients[k] = Nil)

\* README.md:17 speaks of unused connections: the janitor closes none that a
\* caller has got from newSSHClient and still uses.
OnlyUnusedClosed ==
    [][\A k \in Keys : clients[k] # Nil /\ conn[clients[k]] = "open" /\ clients'[k] = Nil
                         /\ conn'[clients[k]] = "closed" => Users(clients[k]) = {}]_vars

=============================================================================
