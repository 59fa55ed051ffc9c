------------------------ MODULE SSHClientStoreProofs ------------------------
(***************************************************************************)
(* Theorems about SSHClientStore, for any number of keys, clients and      *)
(* callers.                                                                *)
(***************************************************************************)
EXTENDS SSHClientStore, FiniteSetTheorems, TLAPS

\* What a caller has in hand was made for the key it asked for.
HeldUnderItsKey ==
    \A p \in Callers :
        IF elem[p] = Nil THEN TRUE
        ELSE conn[elem[p]] # "none" /\ keyOf[elem[p]] = key[p]

\* A stored client was made for the key it is stored under, so that no client
\* is stored twice and its own waiter deletes it.
StoredUnderItsKey == \A k \in Keys : clients[k] # Nil => keyOf[clients[k]] = k

\* A client that is about to be stored is known to its caller only.
InsertedOnce ==
    \A p \in Callers : pc[p] = "insert" =>
        /\ ref[elem[p]] = 0 /\ ~Stored(elem[p])
        /\ \A q \in Callers \ {p} : elem[q] # elem[p]

NothingInHand == \A p \in Callers : pc[p] \in {"idle", "lookup", "dial"} => elem[p] = Nil

\* The inductive invariant on which everything rests.  TypeOK alone is not
\* inductive: that a stored client exists follows from the other parts.
BaseInv == TypeOK /\ HeldUnderItsKey /\ StoredUnderItsKey /\ InsertedOnce /\ NothingInHand

LEMMA BaseInit == Init => BaseInv
  BY NilAssumption DEF Init, BaseInv, TypeOK, HeldUnderItsKey, StoredUnderItsKey, InsertedOnce,
     NothingInHand, CallerPC

LEMMA BaseNext == BaseInv /\ [Next]_vars => BaseInv'
  <1> SUFFICES ASSUME BaseInv, [Next]_vars PROVE BaseInv'
    OBVIOUS
  <1> USE NilAssumption
      DEF BaseInv, TypeOK, HeldUnderItsKey, StoredUnderItsKey, InsertedOnce, NothingInHand,
          CallerPC, Stored, storeVars, clientVars, callerVars
  <1>1. ASSUME NEW p \in Callers, NEW k \in Keys, Request(p, k) PROVE BaseInv'
    BY <1>1 DEF Request
  <1>2. ASSUME NEW p \in Callers, Lookup(p) PROVE BaseInv'
    BY <1>2 DEF Lookup
  <1>3. ASSUME NEW p \in Callers, NEW c \in Clients, Dial(p, c) PROVE BaseInv'
    BY <1>3 DEF Dial, Unused, Holds
  <1>4. ASSUME NEW p \in Callers, DialFails(p) PROVE BaseInv'
    BY <1>4 DEF DialFails
  <1>5. ASSUME NEW p \in Callers, Insert(p) PROVE BaseInv'
    BY <1>5 DEF Insert, Displace, Put, Acquire
  <1>6. ASSUME NEW p \in Callers, Reuse(p) PROVE BaseInv'
    BY <1>6 DEF Reuse, Acquire
  <1>7. ASSUME NEW p \in Callers, CtxDone(p) PROVE BaseInv'
    BY <1>7 DEF CtxDone
  <1>8. ASSUME NEW p \in Callers, Release(p) PROVE BaseInv'
    <2> DEFINE c == clients[key[p]]
    <2>1. /\ pc[p] = "release" /\ key[p] \in Keys
          /\ pc' = [pc EXCEPT ![p] = "idle"]
          /\ key' = [key EXCEPT ![p] = Nil] /\ elem' = [elem EXCEPT ![p] = Nil]
          /\ UNCHANGED <<clients, conn, waiter, keyOf, displaced>>
      BY <1>8 DEF Release
    <2>2. /\ ref' \in [Clients -> Int] /\ expired' \in [Clients -> BOOLEAN]
          /\ \A d \in Clients : d # c => ref'[d] = ref[d]
      <3>1. CASE c = Nil
        BY <1>8, <3>1 DEF Release
      <3>2. CASE c # Nil
        <4>1. /\ ref' = [ref EXCEPT ![c] = @ - 1] /\ expired' = [expired EXCEPT ![c] = FALSE]
              /\ c \in Clients
          BY <1>8, <2>1, <3>2 DEF Release
        <4> QED
          BY <4>1
      <3> QED
        BY <3>1, <3>2
    <2>3. ASSUME NEW q \in Callers, pc'[q] = "insert"
          PROVE  ref'[elem'[q]] = 0 /\ q # p /\ elem'[q] = elem[q]
      BY <2>1, <2>2, <2>3
    <2> HIDE DEF c
    <2>4. InsertedOnce'
      BY <2>1, <2>3
    <2>5. TypeOK' /\ HeldUnderItsKey' /\ StoredUnderItsKey' /\ NothingInHand'
      BY <2>1, <2>2
    <2> QED
      BY <2>4, <2>5
  <1>9. ASSUME NEW c \in Clients, Disconnect(c) PROVE BaseInv'
    BY <1>9 DEF Disconnect
  <1>10. ASSUME NEW c \in Clients, WaiterWakes(c) PROVE BaseInv'
    BY <1>10 DEF WaiterWakes
  <1>11. ASSUME NEW c \in Clients, WaiterDeletes(c) PROVE BaseInv'
    BY <1>11 DEF WaiterDeletes, Displace, Put
  <1>12. ASSUME NEW c \in Clients, Expire(c) PROVE BaseInv'
    BY <1>12 DEF Expire
  <1>13. ASSUME Janitor PROVE BaseInv'
    BY <1>13 DEF Janitor, Due
  <1>14. ASSUME UNCHANGED vars PROVE BaseInv'
    BY <1>14 DEF vars
  <1> QED
    BY <1>1, <1>2, <1>3, <1>4, <1>5, <1>6, <1>7, <1>8, <1>9, <1>10, <1>11, <1>12, <1>13, <1>14
       DEF Next, CallerStep, WaiterStep

\* A stored client exists, no caller uses a client without a key, and no pointer
\* that newSSHClient follows without a test is nil.
THEOREM TypeCorrect == Spec => []TypeOK
  <1>1. BaseInv => TypeOK
    BY DEF BaseInv
  <1> QED
    BY BaseInit, BaseNext, <1>1, PTL DEF Spec

-----------------------------------------------------------------------------
(* Open connections.                                                       *)

LEMMA LeakNext ==
    ASSUME BaseInv, NoLeakUnlessDisplaced, [Next]_vars
    PROVE  NoLeakUnlessDisplaced'
  <1> USE NilAssumption
      DEF BaseInv, TypeOK, HeldUnderItsKey, StoredUnderItsKey, InsertedOnce, NothingInHand,
          NoLeakUnlessDisplaced, Stored, storeVars, clientVars, callerVars
  <1>1. ASSUME NEW p \in Callers, NEW k \in Keys, Request(p, k) PROVE NoLeakUnlessDisplaced'
    BY <1>1 DEF Request
  <1>2. ASSUME NEW p \in Callers, Lookup(p) PROVE NoLeakUnlessDisplaced'
    BY <1>2 DEF Lookup
  <1>3. ASSUME NEW p \in Callers, NEW c \in Clients, Dial(p, c) PROVE NoLeakUnlessDisplaced'
    BY <1>3 DEF Dial, Unused, Holds
  <1>4. ASSUME NEW p \in Callers, DialFails(p) PROVE NoLeakUnlessDisplaced'
    BY <1>4 DEF DialFails
  <1>5. ASSUME NEW p \in Callers, Insert(p) PROVE NoLeakUnlessDisplaced'
    BY <1>5 DEF Insert, Displace, Put, Acquire
  <1>6. ASSUME NEW p \in Callers, Reuse(p) PROVE NoLeakUnlessDisplaced'
    BY <1>6 DEF Reuse, Acquire
  <1>7. ASSUME NEW p \in Callers, CtxDone(p) PROVE NoLeakUnlessDisplaced'
    BY <1>7 DEF CtxDone
  <1>8. ASSUME NEW p \in Callers, Release(p) PROVE NoLeakUnlessDisplaced'
    BY <1>8 DEF Release
  <1>9. ASSUME NEW c \in Clients, Disconnect(c) PROVE NoLeakUnlessDisplaced'
    BY <1>9 DEF Disconnect
  <1>10. ASSUME NEW c \in Clients, WaiterWakes(c) PROVE NoLeakUnlessDisplaced'
    BY <1>10 DEF WaiterWakes
  <1>11. ASSUME NEW c \in Clients, WaiterDeletes(c) PROVE NoLeakUnlessDisplaced'
    BY <1>11 DEF WaiterDeletes, Displace, Put
  <1>12. ASSUME NEW c \in Clients, Expire(c) PROVE NoLeakUnlessDisplaced'
    BY <1>12 DEF Expire
  <1>13. ASSUME Janitor PROVE NoLeakUnlessDisplaced'
    BY <1>13 DEF Janitor, Due
  <1>14. ASSUME UNCHANGED vars PROVE NoLeakUnlessDisplaced'
    BY <1>14 DEF vars
  <1> QED
    BY <1>1, <1>2, <1>3, <1>4, <1>5, <1>6, <1>7, <1>8, <1>9, <1>10, <1>11, <1>12, <1>13, <1>14
       DEF Next, CallerStep, WaiterStep

\* Only a second client stored for its key, or a late waiter, puts an open
\* connection out of reach of the TTL.
THEOREM OnlyDisplacementLeaks == Spec => []NoLeakUnlessDisplaced
  <1>1. Init => NoLeakUnlessDisplaced
    BY DEF Init, NoLeakUnlessDisplaced
  <1>2. BaseInv /\ NoLeakUnlessDisplaced /\ [Next]_vars => NoLeakUnlessDisplaced'
    BY LeakNext
  <1> QED
    BY BaseInit, BaseNext, <1>1, <1>2, PTL DEF Spec

-----------------------------------------------------------------------------
(* Reference counts.                                                       *)

LEMMA UsersFinite ==
    ASSUME NEW c
    PROVE  /\ IsFiniteSet(Users(c)) /\ Cardinality(Users(c)) \in Nat
           /\ IsFiniteSet(Users(c)') /\ Cardinality(Users(c)') \in Nat
  <1>1. Users(c) \subseteq Callers /\ Users(c)' \subseteq Callers
    BY DEF Users
  <1> QED
    BY <1>1, CallersAssumption, FS_Subset, FS_CardinalityType

\* The invariant after a step, of one stored client.
LEMMA RefGoal ==
    ASSUME BaseInv', \A k \in Keys, c \in Clients :
              clients'[k] = c => ref'[c] <= Cardinality(Users(c)')
    PROVE  RefNeverTooHigh'
  <1> SUFFICES ASSUME NEW k \in Keys, clients'[k] # Nil
               PROVE  ref'[clients'[k]] <= Cardinality(Users(clients[k])')
    BY DEF RefNeverTooHigh
  <1>1. PICK c \in Clients : clients'[k] = c
    BY DEF BaseInv, TypeOK
  <1>2. Users(clients[k])' = Users(c)'
    BY <1>1 DEF Users, Holds
  <1> QED
    BY <1>1, <1>2

\* Most actions neither store a client nor raise a count, and leave the users of
\* what is stored alone.
LEMMA RefFrame ==
    ASSUME BaseInv, BaseInv', RefNeverTooHigh,
           \A k \in Keys : clients'[k] \in {clients[k], Nil},
           \A c \in Clients : Stored(c) => ref'[c] = ref[c] /\ Users(c)' = Users(c)
    PROVE  RefNeverTooHigh'
  <1>1. ASSUME NEW k \in Keys, NEW c \in Clients, clients'[k] = c
        PROVE  ref'[c] <= Cardinality(Users(c)')
    <2>1. clients[k] = c /\ Stored(c)
      BY <1>1, NilAssumption DEF Stored
    <2>2. ref[c] <= Cardinality(Users(c))
      BY <2>1, NilAssumption DEF RefNeverTooHigh
    <2> QED
      BY <2>1, <2>2
  <1> QED
    BY <1>1, RefGoal

LEMMA RefNext ==
    ASSUME BaseInv, RefNeverTooHigh, [Next]_vars
    PROVE  RefNeverTooHigh'
  <1>0. BaseInv'
    BY BaseNext
  <1> USE NilAssumption DEF storeVars, clientVars, callerVars
  <1>1. ASSUME \/ \E p \in Callers, k \in Keys : Request(p, k)
               \/ \E p \in Callers : Lookup(p) \/ DialFails(p) \/ CtxDone(p)
        PROVE  RefNeverTooHigh'
    <2>1. UNCHANGED <<clients, ref>>
      BY <1>1 DEF Request, Lookup, DialFails, CtxDone
    <2>2. ASSUME NEW c \in Clients PROVE Users(c)' = Users(c)
      BY <1>1 DEF BaseInv, TypeOK, Users, Holds, Request, Lookup, DialFails, CtxDone
    <2> QED
      BY <1>0, <2>1, <2>2, RefFrame
  <1>2. ASSUME NEW p \in Callers, NEW d \in Clients, Dial(p, d) PROVE RefNeverTooHigh'
    <2>1. UNCHANGED clients /\ ~Stored(d)
      BY <1>2 DEF Dial, Unused
    <2>2. ASSUME NEW c \in Clients, Stored(c) PROVE ref'[c] = ref[c] /\ Users(c)' = Users(c)
      <3>1. c # d
        BY <2>1, <2>2
      <3> QED
        BY <1>2, <3>1 DEF Dial, Users, Holds, BaseInv, TypeOK, NothingInHand
    <2> QED
      BY <1>0, <2>1, <2>2, RefFrame
  <1>3. ASSUME NEW p \in Callers, Insert(p) PROVE RefNeverTooHigh'
    <2>1. PICK d \in Clients : elem[p] = d
      BY <1>3 DEF Insert, BaseInv, TypeOK
    <2>2. ref'[d] = 1 /\ p \in Users(d)'
      BY <1>3, <2>1 DEF Insert, Acquire, Users, Holds, BaseInv, TypeOK, InsertedOnce
    <2>3. 1 <= Cardinality(Users(d)')
      BY <2>2, UsersFinite, FS_EmptySet
    <2>4. ASSUME NEW k \in Keys, NEW c \in Clients, clients'[k] = c
          PROVE  ref'[c] <= Cardinality(Users(c)')
      <3>1. CASE c = d
        BY <2>2, <2>3, <3>1
      <3>2. CASE c # d
        <4>1. ref'[c] = ref[c] /\ Users(c)' = Users(c)
          BY <1>3, <2>1, <3>2 DEF Insert, Acquire, Users, Holds, BaseInv, TypeOK
        <4>2. clients[k] = c
          BY <1>3, <2>1, <2>4, <3>2 DEF Insert, Put, BaseInv, TypeOK
        <4>3. ref[c] <= Cardinality(Users(c))
          BY <4>2 DEF RefNeverTooHigh
        <4> QED
          BY <4>1, <4>3
      <3> QED
        BY <3>1, <3>2
    <2> QED
      BY <1>0, <2>4, RefGoal
  <1>4. ASSUME NEW p \in Callers, Reuse(p) PROVE RefNeverTooHigh'
    <2>1. PICK d \in Clients : elem[p] = d
      BY <1>4 DEF Reuse, BaseInv, TypeOK
    <2>2. ASSUME NEW k \in Keys, NEW c \in Clients, clients'[k] = c
          PROVE  ref'[c] <= Cardinality(Users(c)')
      <3>1. clients[k] = c /\ ref[c] <= Cardinality(Users(c)) /\ ref[c] \in Int
        BY <1>4, <2>2 DEF Reuse, RefNeverTooHigh, BaseInv, TypeOK
      <3>2. CASE c = d
        <4>1. ref'[c] = ref[c] + 1
          BY <1>4, <2>1, <3>2 DEF Reuse, Acquire, BaseInv, TypeOK
        <4>2. p \notin Users(c) /\ Users(c)' = Users(c) \cup {p}
          BY <1>4, <2>1, <3>2 DEF Reuse, Acquire, Users, Holds, BaseInv, TypeOK
        <4>3. Cardinality(Users(c)') = Cardinality(Users(c)) + 1
          BY <4>2, UsersFinite, FS_AddElement
        <4> QED
          BY <3>1, <4>1, <4>3, UsersFinite
      <3>3. CASE c # d
        <4>1. ref'[c] = ref[c] /\ Users(c)' = Users(c)
          BY <1>4, <2>1, <3>3 DEF Reuse, Acquire, Users, Holds, BaseInv, TypeOK
        <4> QED
          BY <3>1, <4>1
      <3> QED
        BY <3>2, <3>3
    <2> QED
      BY <1>0, <2>2, RefGoal
  <1>5. ASSUME NEW p \in Callers, Release(p) PROVE RefNeverTooHigh'
    <2>1. /\ pc[p] = "release" /\ key[p] \in Keys /\ elem[p] \in Clients
          /\ pc' = [pc EXCEPT ![p] = "idle"] /\ elem' = [elem EXCEPT ![p] = Nil]
          /\ UNCHANGED clients
      BY <1>5 DEF Release, BaseInv, TypeOK
    <2>2. ASSUME NEW k \in Keys, NEW c \in Clients, clients'[k] = c
          PROVE  ref'[c] <= Cardinality(Users(c)')
      <3>1. clients[k] = c /\ ref[c] <= Cardinality(Users(c)) /\ ref[c] \in Int
        BY <2>1, <2>2 DEF RefNeverTooHigh, BaseInv, TypeOK
      <3>2. CASE k = key[p]
        <4>1. ref'[c] = ref[c] - 1
          BY <1>5, <3>1, <3>2 DEF Release, BaseInv, TypeOK
        <4>2. Users(c)' = Users(c) \ {p}
          BY <2>1 DEF Users, Holds, BaseInv, TypeOK
        <4>3. Cardinality(Users(c)) - 1 <= Cardinality(Users(c)')
          BY <4>2, UsersFinite, FS_RemoveElement
        <4> QED
          BY <3>1, <4>1, <4>3, UsersFinite
      <3>3. CASE k # key[p]
        <4>1. keyOf[c] = k /\ keyOf[elem[p]] = key[p]
          BY <2>1, <3>1 DEF BaseInv, StoredUnderItsKey, HeldUnderItsKey
        <4>2. c # elem[p] /\ c # clients[key[p]]
          BY <2>1, <3>1, <3>3, <4>1 DEF BaseInv, StoredUnderItsKey
        <4>3. Users(c)' = Users(c)
          BY <2>1, <4>2 DEF Users, Holds, BaseInv, TypeOK
        <4>4. ref'[c] = ref[c]
          BY <1>5, <4>2 DEF Release, BaseInv, TypeOK
        <4> QED
          BY <3>1, <4>3, <4>4
      <3> QED
        BY <3>2, <3>3
    <2> QED
      BY <1>0, <2>2, RefGoal
  <1>6. ASSUME \/ \E c \in Clients : WaiterStep(c) \/ Disconnect(c) \/ Expire(c)
               \/ Janitor \/ UNCHANGED vars
        PROVE  RefNeverTooHigh'
    <2>1. UNCHANGED <<ref, pc, elem>> /\ \A k \in Keys : clients'[k] \in {clients[k], Nil}
      BY <1>6 DEF WaiterStep, WaiterWakes, WaiterDeletes, Put, Disconnect, Expire, Janitor, vars,
         BaseInv, TypeOK
    <2>2. ASSUME NEW c \in Clients PROVE Users(c)' = Users(c)
      BY <2>1 DEF Users, Holds
    <2> QED
      BY <1>0, <2>1, <2>2, RefFrame
  <1> QED
    BY <1>1, <1>2, <1>3, <1>4, <1>5, <1>6 DEF Next, CallerStep

\* Although counts go up by element and down by key, the count of a stored
\* client is at most the number of callers that use it: no lost reference keeps
\* an unused connection open.
THEOREM CountsAreBounded == Spec => []RefNeverTooHigh
  <1>1. Init => RefNeverTooHigh
    BY DEF Init, RefNeverTooHigh
  <1>2. BaseInv /\ RefNeverTooHigh /\ [Next]_vars => RefNeverTooHigh'
    BY RefNext
  <1> QED
    BY BaseInit, BaseNext, <1>1, <1>2, PTL DEF Spec

=============================================================================
