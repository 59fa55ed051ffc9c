------------------------- MODULE ExecutionTreeProofs -------------------------
(***************************************************************************)
(* What holds of the run of every tree: the types, that a call that        *)
(* outlives the call that made it is cancelled, what holds between a call  *)
(* and all the calls that enclose it, and what a call reports, told from   *)
(* what its children reported.                                             *)
(***************************************************************************)
EXTENDS ExecutionTree, TLAPS, FiniteSetTheorems, WellFoundedInduction

-----------------------------------------------------------------------------
(* The inductive invariant.                                                *)

\* A context that a call returns derives from the one it got.
RetDerived == \A n \in Nodes : ret[n] # {} => (Returned(n) /\ ctx[n] \subseteq ret[n])

\* A call runs under a context derived from that of its parent.
CtxDerived == \A n \in Nodes : \A c \in ChildrenOf(n) : status[c] = "running" =>
    /\ ctx[n] \subseteq ctx[c]
    /\ Kind[n] = "parallel" => n \in ctx[c]

\* Only a Parallel, which cancels them, returns before its children.
Awaited == \A n \in Nodes : \A c \in ChildrenOf(n) : status[c] = "running" =>
    \/ status[n] = "running"
    \/ Kind[n] = "parallel" /\ n \in cancelled

\* Any other runs one child at a time, the current one.
InTurn == \A n \in Nodes : \A c \in ChildrenOf(n) :
    (status[n] = "running" /\ status[c] = "running" /\ Kind[n] # "parallel") =>
        (at[n] > 0 /\ c = Current(n))

\* The current child got a context derived from the variable ctx of its parent.
CurrentDerived == \A n \in Nodes :
    (status[n] = "running" /\ Kind[n] # "parallel" /\ at[n] > 0) => ctx[n] \subseteq ctx[Current(n)]

\* What was not called is idle.
Fresh == \A n \in Nodes :
    /\ status[n] = "idle" => at[n] = 0
    /\ status[n] = "running" => \A i \in DOMAIN Children[n] :
         (i > at[n] /\ (Kind[n] # "parallel" \/ at[n] = 0)) => status[Children[n][i]] = "idle"

IInv == TypeOK /\ RetDerived /\ CtxDerived /\ Awaited /\ InTurn /\ CurrentDerived /\ Fresh

\* The children of a node are nodes, and no node is the child of two.
LEMMA Forest ==
    /\ \A n \in Nodes : ChildrenOf(n) \subseteq Nodes
    /\ \A n \in Nodes : Len(Children[n]) \in Nat /\ DOMAIN Children[n] = 1..Len(Children[n])
    /\ \A n \in Nodes : \A i \in DOMAIN Children[n] :
          Children[n][i] \in Nodes /\ Children[n][i] \in ChildrenOf(n)
    /\ \A m, n \in Nodes : \A c \in ChildrenOf(m) : c \in ChildrenOf(n) => m = n
<1>1. \A n \in Nodes : Children[n] \in Seq(Nodes)
  BY ForestAssumption
<1>2. \A n \in Nodes : Len(Children[n]) \in Nat /\ DOMAIN Children[n] = 1..Len(Children[n])
  BY <1>1
<1>3. \A n \in Nodes : \A i \in DOMAIN Children[n] : Children[n][i] \in Nodes
  BY <1>1, <1>2
<1>4. \A m, n \in Nodes : \A c \in ChildrenOf(m) : c \in ChildrenOf(n) => m = n
  BY ForestAssumption DEF ChildrenOf
<1>. QED
  BY <1>2, <1>3, <1>4 DEF ChildrenOf

LEMMA InitIInv == Init => IInv
<1>. SUFFICES ASSUME Init PROVE IInv
  OBVIOUS
<1>1. root \in Nodes /\ \A n \in Nodes : root \notin ChildrenOf(n)
  BY ForestAssumption DEF Init
<1>2. \A n \in Nodes : \A c \in ChildrenOf(n) : c \in Nodes /\ status[c] = "idle"
  BY <1>1, Forest DEF Init
<1>3. TypeOK
  BY <1>1, <1>2, Forest DEF TypeOK, Init, Contexts, NoCtx
<1>4. RetDerived
  BY DEF RetDerived, Init, NoCtx
<1>5. CtxDerived /\ Awaited /\ InTurn
  BY <1>2 DEF CtxDerived, Awaited, InTurn
<1>6. CurrentDerived /\ Fresh
  <2>1. \A n \in Nodes : at[n] = 0
    BY DEF Init
  <2>2. \A n \in Nodes : \A i \in DOMAIN Children[n] : status[Children[n][i]] = "idle"
    BY <1>2, Forest
  <2>. QED
    BY <2>1, <2>2 DEF CurrentDerived, Fresh
<1>. QED
  BY <1>3, <1>4, <1>5, <1>6 DEF IInv

-----------------------------------------------------------------------------
(* The kinds of change a step makes to the calls.                          *)

RestTyped ==
    /\ root \in Roots
    /\ exec \in [Nodes -> {"idle", "starting", "running", "succeeded", "failed", "left"}]
    /\ taken \in SUBSET Nodes /\ dropped \in SUBSET Nodes
    /\ cancelled \in Contexts

\* No call changes.
Quiet == UNCHANGED callVars /\ RestTyped' /\ cancelled \subseteq cancelled'

\* The sources a call knows of: those of its context, and of the context that its
\* current child returned, unless it keeps that to itself.
Known(n) == ctx[n] \cup (IF at[n] > 0 /\ Kind[n] # "bounds" THEN ret[Current(n)] ELSE {})

\* Call n returns: its children have, or it is a Parallel that cancels them.
Returns(n, r, x) ==
    /\ status[n] = "running" /\ Return(n, r, x)
    /\ x # {} => /\ r = "ok" /\ Kind[n] \notin {"bounds", "parallel"}
                 /\ ctx[n] \subseteq x /\ x \subseteq Known(n) \cup {n}
    /\ (Kind[n] = "setup" /\ r = "ok") => x = ctx[n]
    /\ RestTyped' /\ cancelled \subseteq cancelled'
    /\ \A c \in ChildrenOf(n) :
           status[c] = "running" => (Kind[n] = "parallel" /\ n \in cancelled')

\* Call n, which is not a Parallel, calls its next child.
Calls(n, x, y) ==
    /\ status[n] = "running" /\ Kind[n] # "parallel" /\ More(n)
    /\ at[n] > 0 => Returned(Current(n))
    /\ Call(n, x, y)
    /\ ctx[n] \subseteq x /\ x \subseteq Known(n) /\ x \subseteq y /\ y \subseteq x \cup {n}
    /\ Kind[n] = "sequential" => x = Absorbed(n)
    /\ (Kind[n] = "retry" /\ at[n] > 0) => status[Current(n)] = "err"
    /\ UNCHANGED <<root, exec, taken, dropped, cancelled>>

Change ==
    \/ Quiet
    \/ \E n \in Nodes, r \in {"ok", "err"}, x \in Contexts : Returns(n, r, x)
    \/ \E n \in Nodes, x \in Contexts, y \in Contexts : Calls(n, x, y)
    \/ \E n \in Nodes : ParallelStarts(n)

\* The invariant survives each of them: no call changes...
LEMMA Frame ==
    ASSUME IInv, UNCHANGED callVars, RestTyped', cancelled \subseteq cancelled'
    PROVE  IInv'
<1>. USE DEF callVars
<1>1. TypeOK'
  BY DEF IInv, TypeOK, RestTyped, Contexts
<1>2. RetDerived' /\ CtxDerived' /\ Awaited'
  BY DEF IInv, RetDerived, CtxDerived, Awaited, Returned
<1>3. InTurn' /\ CurrentDerived' /\ Fresh'
  BY DEF IInv, InTurn, CurrentDerived, Fresh, Current
<1>. QED
  BY <1>1, <1>2, <1>3 DEF IInv

\* ...a call returns...
LEMMA Returning ==
    ASSUME IInv, NEW n \in Nodes, status[n] = "running",
           NEW r \in {"ok", "err"}, NEW x \in Contexts, Return(n, r, x),
           x # {} => (r = "ok" /\ ctx[n] \subseteq x),
           RestTyped', cancelled \subseteq cancelled',
           \A c \in ChildrenOf(n) :
               status[c] = "running" => (Kind[n] = "parallel" /\ n \in cancelled')
    PROVE  IInv'
<1>. USE DEF Return
<1>1. /\ status \in [Nodes -> {"idle", "running", "ok", "err"}]
      /\ ret \in [Nodes -> Contexts] /\ ctx \in [Nodes -> Contexts]
  BY DEF IInv, TypeOK
<1>2. \A m \in Nodes : status'[m] = (IF m = n THEN r ELSE status[m])
  BY <1>1
<1>3. \A m \in Nodes : ret'[m] = (IF m = n THEN x ELSE ret[m])
  BY <1>1
<1>4. TypeOK'
  <2>1. status' \in [Nodes -> {"idle", "running", "ok", "err"}] /\ ret' \in [Nodes -> Contexts]
    BY <1>1
  <2>2. \A m \in Nodes : status'[m] = "err" => ret'[m] = {}
    BY <1>2, <1>3 DEF IInv, TypeOK, NoCtx
  <2>3. \A m \in Nodes : \A c \in ChildrenOf(m) : status'[m] = "idle" => status'[c] = "idle"
    BY <1>2, Forest DEF IInv, TypeOK
  <2>. QED
    BY <2>1, <2>2, <2>3 DEF IInv, TypeOK, RestTyped, Contexts, NoCtx
<1>5. RetDerived'
  BY <1>2, <1>3 DEF IInv, RetDerived, Returned
<1>6. CtxDerived'
  BY <1>2, Forest DEF IInv, CtxDerived
<1>7. Awaited'
  BY <1>2, Forest DEF IInv, Awaited
<1>8. InTurn' /\ CurrentDerived'
  BY <1>2, Forest DEF IInv, InTurn, CurrentDerived, Current
<1>9. Fresh'
  BY <1>2, Forest DEF IInv, Fresh
<1>. QED
  BY <1>4, <1>5, <1>6, <1>7, <1>8, <1>9 DEF IInv

\* ...a call other than a Parallel calls its next child...
LEMMA Calling ==
    ASSUME IInv, NEW n \in Nodes, status[n] = "running", Kind[n] # "parallel", More(n),
           at[n] > 0 => Returned(Current(n)),
           NEW x \in Contexts, NEW y \in Contexts, Call(n, x, y),
           ctx[n] \subseteq x, x \subseteq y,
           UNCHANGED <<root, exec, taken, dropped, cancelled>>
    PROVE  IInv'
<1>. DEFINE c == Children[n][at[n] + 1]
<1>1. /\ status \in [Nodes -> {"idle", "running", "ok", "err"}]
      /\ ret \in [Nodes -> Contexts] /\ ctx \in [Nodes -> Contexts]
      /\ at \in [Nodes -> Nat]
  BY DEF IInv, TypeOK
<1>2. at[n] + 1 \in DOMAIN Children[n] /\ c \in Nodes /\ c \in ChildrenOf(n)
  BY <1>1, Forest DEF More
<1>3. status[c] = "idle"
  BY <1>1, <1>2 DEF IInv, Fresh
<1>4. c # n
  BY <1>3
<1>5. \A d \in ChildrenOf(n) : status[d] # "running"
  BY DEF IInv, InTurn, Returned
<1>6. \A d \in ChildrenOf(c) : status[d] = "idle" /\ d # n /\ d # c
  BY <1>2, <1>3, <1>4, Forest DEF IInv, TypeOK
<1>7. /\ \A m \in Nodes : status'[m] = (IF m = c THEN "running" ELSE status[m])
      /\ \A m \in Nodes : at'[m] = (IF m = n THEN at[n] + 1 ELSE at[m])
      /\ \A m \in Nodes : ctx'[m] = (IF m = c THEN y ELSE IF m = n THEN x ELSE ctx[m])
      /\ ret' = ret /\ cancelled' = cancelled
  BY <1>1, <1>2, <1>4 DEF Call
<1>8. TypeOK'
  <2>1. /\ status' \in [Nodes -> {"idle", "running", "ok", "err"}]
        /\ ctx' \in [Nodes -> Contexts] /\ at' \in [Nodes -> Nat]
    <3>1. /\ status' = [status EXCEPT ![c] = "running"]
          /\ ctx' = [ctx EXCEPT ![n] = x, ![c] = y]
          /\ at' = [at EXCEPT ![n] = at[n] + 1]
      BY DEF Call
    <3>2. ctx' \in [Nodes -> Contexts]
      BY <3>1, <1>1, <1>2
    <3>3. at' \in [Nodes -> Nat]
      BY <3>1, <1>1
    <3>. QED
      BY <3>1, <3>2, <3>3, <1>1, <1>2
  <2>2. \A m \in Nodes : Kind[m] # "parallel" => at'[m] <= Len(Children[m])
    BY <1>1, <1>7, Forest DEF IInv, TypeOK, More
  <2>3. \A m \in Nodes : \A d \in ChildrenOf(m) : status'[m] = "idle" => status'[d] = "idle"
    BY <1>2, <1>7, Forest DEF IInv, TypeOK
  <2>4. \A m \in Nodes : status'[m] = "err" => ret'[m] = {}
    BY <1>7 DEF IInv, TypeOK, NoCtx
  <2>. QED
    BY <2>1, <2>2, <2>3, <2>4, <1>7 DEF IInv, TypeOK, Contexts, NoCtx, Call
<1>9. RetDerived'
  BY <1>3, <1>7 DEF IInv, RetDerived, Returned
<1>10. CtxDerived'
  <2>. SUFFICES ASSUME NEW m \in Nodes, NEW d \in ChildrenOf(m), status'[d] = "running"
                PROVE  ctx'[m] \subseteq ctx'[d] /\ (Kind[m] = "parallel" => m \in ctx'[d])
    BY DEF CtxDerived
  <2>1. d \in Nodes
    BY Forest
  <2>2. CASE d = c
    <3>1. m = n
      BY <2>2, <1>2, Forest
    <3>. QED
      BY <3>1, <2>2, <1>4, <1>7, <2>1
  <2>3. CASE d # c
    <3>1. status[d] = "running" /\ m # n /\ m # c
      BY <2>1, <2>3, <1>5, <1>6, <1>7
    <3>2. ctx[m] \subseteq ctx[d] /\ (Kind[m] = "parallel" => m \in ctx[d])
      BY <3>1 DEF IInv, CtxDerived
    <3>. QED
      BY <2>1, <2>3, <3>1, <3>2, <1>7
  <2>. QED
    BY <2>2, <2>3
<1>11. Awaited'
  BY <1>2, <1>4, <1>7, Forest DEF IInv, Awaited
<1>12. \A m \in Nodes : m # n => Current(m)' = Current(m)
  BY <1>7 DEF Current
<1>13. Current(n)' = c
  BY <1>7 DEF Current
<1>14. InTurn'
  <2>. SUFFICES ASSUME NEW m \in Nodes, NEW d \in ChildrenOf(m), status'[m] = "running",
                       status'[d] = "running", Kind[m] # "parallel"
                PROVE  at'[m] > 0 /\ d = Current(m)'
    BY DEF InTurn
  <2>1. d \in Nodes
    BY Forest
  <2>2. CASE m = n
    <3>1. d = c
      BY <2>1, <2>2, <1>5, <1>7
    <3>. QED
      BY <2>2, <3>1, <1>1, <1>7, <1>13
  <2>3. CASE m # n
    <3>1. d # c
      BY <2>3, <1>2, Forest
    <3>2. m # c
      BY <2>1, <3>1, <1>6, <1>7
    <3>. QED
      BY <2>1, <2>3, <3>1, <3>2, <1>7, <1>12 DEF IInv, InTurn
  <2>. QED
    BY <2>2, <2>3
<1>15. CurrentDerived'
  <2>. SUFFICES ASSUME NEW m \in Nodes, status'[m] = "running", Kind[m] # "parallel", at'[m] > 0
                PROVE  ctx'[m] \subseteq ctx'[Current(m)']
    BY DEF CurrentDerived
  <2>1. CASE m = n
    BY <2>1, <1>2, <1>4, <1>7, <1>13
  <2>2. CASE m = c
    BY <2>2, <1>2, <1>3, <1>4, <1>7 DEF IInv, Fresh
  <2>3. CASE m # n /\ m # c
    <3>1. ctx[m] \subseteq ctx[Current(m)] /\ at[m] > 0
      BY <2>3, <1>7 DEF IInv, CurrentDerived
    <3>2. Current(m) \in Nodes /\ Current(m) \in ChildrenOf(m)
      BY <3>1, <1>1, Forest DEF IInv, TypeOK, Current
    <3>3. Current(m) # c
      BY <2>3, <3>2, <1>2, Forest
    <3>4. ctx[Current(m)] \subseteq ctx'[Current(m)]
      BY <3>2, <3>3, <1>7
    <3>. QED
      BY <2>3, <3>1, <3>4, <1>7, <1>12
  <2>. QED
    BY <2>1, <2>2, <2>3
<1>16. Fresh'
  <2>1. \A m \in Nodes : status'[m] = "idle" => at'[m] = 0
    BY <1>7 DEF IInv, Fresh
  <2>2. ASSUME NEW m \in Nodes, status'[m] = "running", NEW i \in DOMAIN Children[m],
               i > at'[m], Kind[m] # "parallel" \/ at'[m] = 0
        PROVE  status'[Children[m][i]] = "idle"
    <3>1. Children[m][i] \in Nodes /\ Children[m][i] \in ChildrenOf(m)
      BY Forest
    <3>2. CASE m = c
      BY <3>1, <3>2, <1>6, <1>7
    <3>3. CASE m = n
      <4>1. i > at[n] + 1 /\ i > at[n]
        BY <2>2, <3>3, <1>1, <1>7, Forest
      <4>2. Children[m][i] # c
        BY <3>3, <4>1, <1>1, <1>2, ForestAssumption
      <4>3. status[Children[m][i]] = "idle"
        BY <3>3, <4>1 DEF IInv, Fresh
      <4>. QED
        BY <3>1, <4>2, <4>3, <1>7
    <3>4. CASE m # c /\ m # n
      <4>1. Children[m][i] # c
        BY <3>1, <3>4, <1>2, Forest
      <4>2. status[Children[m][i]] = "idle"
        BY <2>2, <3>4, <1>7 DEF IInv, Fresh
      <4>. QED
        BY <3>1, <4>1, <4>2, <1>7
    <3>. QED
      BY <3>2, <3>3, <3>4
  <2>. QED
    BY <2>1, <2>2 DEF Fresh
<1>. QED
  BY <1>8, <1>9, <1>10, <1>11, <1>14, <1>15, <1>16 DEF IInv

\* ...a Parallel starts its children.
LEMMA Starting == ASSUME IInv, NEW n \in Nodes, ParallelStarts(n) PROVE IInv'
<1>1. /\ status \in [Nodes -> {"idle", "running", "ok", "err"}]
      /\ ret \in [Nodes -> Contexts] /\ ctx \in [Nodes -> Contexts]
      /\ at \in [Nodes -> Nat]
  BY DEF IInv, TypeOK
<1>2. status[n] = "running" /\ Kind[n] = "parallel" /\ at[n] = 0
  BY DEF ParallelStarts, Runs
<1>3. \A c \in ChildrenOf(n) : c \in Nodes /\ status[c] = "idle" /\ c # n
  <2>1. \A i \in DOMAIN Children[n] : status[Children[n][i]] = "idle"
    BY <1>2, Forest DEF IInv, Fresh
  <2>. QED
    BY <2>1, <1>2, Forest DEF ChildrenOf
<1>4. \A c \in ChildrenOf(n) : \A d \in ChildrenOf(c) :
         d \in Nodes /\ status[d] = "idle" /\ d \notin ChildrenOf(n)
  BY <1>3, Forest DEF IInv, TypeOK
<1>5. /\ \A m \in Nodes : status'[m] = (IF m \in ChildrenOf(n) THEN "running" ELSE status[m])
      /\ \A m \in Nodes : ctx'[m] = (IF m \in ChildrenOf(n) THEN ctx[n] \cup {n} ELSE ctx[m])
      /\ \A m \in Nodes : at'[m] = (IF m = n THEN 1 ELSE at[m])
      /\ UNCHANGED <<root, ret, exec, taken, dropped, cancelled>>
  BY <1>1 DEF ParallelStarts
<1>6. \A m \in Nodes : m # n => \A d \in ChildrenOf(m) : d \in Nodes /\ d \notin ChildrenOf(n)
  BY Forest
<1>7. TypeOK'
  <2>1. status' \in [Nodes -> {"idle", "running", "ok", "err"}]
    BY <1>1 DEF ParallelStarts
  <2>2. ctx' \in [Nodes -> Contexts]
    BY <1>1 DEF ParallelStarts, Contexts
  <2>3. at' \in [Nodes -> Nat]
    BY <1>1 DEF ParallelStarts
  <2>4. \A m \in Nodes : Kind[m] # "parallel" => at'[m] <= Len(Children[m])
    BY <1>2, <1>5 DEF IInv, TypeOK
  <2>5. \A m \in Nodes : \A d \in ChildrenOf(m) : status'[m] = "idle" => status'[d] = "idle"
    BY <1>2, <1>3, <1>5, <1>6 DEF IInv, TypeOK
  <2>6. \A m \in Nodes : status'[m] = "err" => ret'[m] = {}
    BY <1>5 DEF IInv, TypeOK, NoCtx
  <2>. QED
    BY <2>1, <2>2, <2>3, <2>4, <2>5, <2>6, <1>5 DEF IInv, TypeOK, Contexts, NoCtx
<1>8. RetDerived'
  BY <1>3, <1>5 DEF IInv, RetDerived, Returned
<1>9. CtxDerived'
  <2>. SUFFICES ASSUME NEW m \in Nodes, NEW d \in ChildrenOf(m), status'[d] = "running"
                PROVE  ctx'[m] \subseteq ctx'[d] /\ (Kind[m] = "parallel" => m \in ctx'[d])
    BY DEF CtxDerived
  <2>1. d \in Nodes
    BY Forest
  <2>2. CASE m = n
    <3>1. n \notin ChildrenOf(n)
      BY <1>3
    <3>. QED
      BY <2>1, <2>2, <3>1, <1>5
  <2>3. CASE m # n
    <3>1. d \notin ChildrenOf(n) /\ status[d] = "running"
      BY <2>1, <2>3, <1>5, <1>6
    <3>2. m \notin ChildrenOf(n)
      BY <3>1, <1>4
    <3>. QED
      BY <2>1, <3>1, <3>2, <1>5 DEF IInv, CtxDerived
  <2>. QED
    BY <2>2, <2>3
<1>10. Awaited'
  BY <1>2, <1>3, <1>5, <1>6 DEF IInv, Awaited
<1>11. \A m \in Nodes : m # n => Current(m)' = Current(m)
  BY <1>5 DEF Current
<1>12. InTurn'
  BY <1>2, <1>3, <1>4, <1>5, <1>6, <1>11 DEF IInv, InTurn
<1>13. CurrentDerived'
  <2>. SUFFICES ASSUME NEW m \in Nodes, status'[m] = "running", Kind[m] # "parallel", at'[m] > 0
                PROVE  ctx'[m] \subseteq ctx'[Current(m)']
    BY DEF CurrentDerived
  <2>1. m # n /\ at[m] > 0 /\ Current(m)' = Current(m)
    BY <1>2, <1>5, <1>11
  <2>2. m \notin ChildrenOf(n)
    BY <2>1, <1>3 DEF IInv, Fresh
  <2>3. Current(m) \in Nodes /\ Current(m) \in ChildrenOf(m)
    BY <2>1, <1>1, Forest DEF IInv, TypeOK, Current
  <2>4. Current(m) \notin ChildrenOf(n)
    BY <2>1, <2>3, <1>6
  <2>. QED
    BY <2>1, <2>2, <2>3, <2>4, <1>5 DEF IInv, CurrentDerived
<1>14. Fresh'
  <2>1. \A m \in Nodes : status'[m] = "idle" => at'[m] = 0
    BY <1>2, <1>3, <1>5 DEF IInv, Fresh
  <2>2. ASSUME NEW m \in Nodes, status'[m] = "running", NEW i \in DOMAIN Children[m],
               i > at'[m], Kind[m] # "parallel" \/ at'[m] = 0
        PROVE  status'[Children[m][i]] = "idle"
    <3>1. Children[m][i] \in Nodes /\ Children[m][i] \in ChildrenOf(m) /\ m # n
      BY <2>2, <1>2, <1>5, Forest
    <3>2. Children[m][i] \notin ChildrenOf(n) /\ at'[m] = at[m]
      BY <3>1, <1>5, <1>6
    <3>3. CASE m \in ChildrenOf(n)
      BY <3>1, <3>2, <3>3, <1>4, <1>5
    <3>4. CASE m \notin ChildrenOf(n)
      BY <2>2, <3>1, <3>2, <3>4, <1>5 DEF IInv, Fresh
    <3>. QED
      BY <3>3, <3>4
  <2>. QED
    BY <2>1, <2>2 DEF Fresh
<1>. QED
  BY <1>7, <1>8, <1>9, <1>10, <1>12, <1>13, <1>14 DEF IInv

-----------------------------------------------------------------------------
(* Facts the steps share.                                                  *)

LEMMA RestIsTyped == IInv => RestTyped
BY DEF IInv, TypeOK, RestTyped

\* While it acts itself, a call other than a Parallel has no running child.
LEMMA NoneRunning ==
    ASSUME IInv, NEW n \in Nodes, status[n] = "running", Kind[n] # "parallel",
           at[n] > 0 => Returned(Current(n))
    PROVE  \A c \in ChildrenOf(n) : status[c] # "running"
BY DEF IInv, InTurn, Returned

LEMMA LeafCallsNone ==
    ASSUME NEW n \in Nodes, Kind[n] \in Leaves
    PROVE  ChildrenOf(n) = {}
BY ArityAssumption DEF ChildrenOf

\* What the current child returned, if anything, derives from the variable ctx.
LEMMA CurrentRet ==
    ASSUME IInv, NEW n \in Nodes, status[n] = "running", Kind[n] # "parallel", at[n] > 0
    PROVE  /\ Current(n) \in Nodes /\ Current(n) \in ChildrenOf(n)
           /\ ret[Current(n)] \in Contexts
           /\ ret[Current(n)] # {} => (status[Current(n)] = "ok" /\ ctx[n] \subseteq ret[Current(n)])
<1>1. Current(n) \in Nodes /\ Current(n) \in ChildrenOf(n)
  BY Forest DEF IInv, TypeOK, Current
<1>2. ret[Current(n)] \in Contexts /\ (status[Current(n)] = "err" => ret[Current(n)] = {})
  BY <1>1 DEF IInv, TypeOK, NoCtx
<1>3. ctx[n] \subseteq ctx[Current(n)]
  BY DEF IInv, CurrentDerived
<1>. QED
  BY <1>1, <1>2, <1>3 DEF IInv, RetDerived, Returned

LEMMA AbsorbedDerived ==
    ASSUME IInv, NEW n \in Nodes, status[n] = "running", Kind[n] = "sequential"
    PROVE  /\ Absorbed(n) \in Contexts
           /\ ctx[n] \subseteq Absorbed(n) /\ Absorbed(n) \subseteq Known(n)
<1>1. ctx[n] \in Contexts /\ at[n] \in Nat
  BY DEF IInv, TypeOK
<1>. QED
  BY <1>1, CurrentRet DEF Absorbed, NoCtx, Known

\* A return with no context, from a call that has no running child to leave behind.
LEMMA ReturnsBare ==
    ASSUME NEW n \in Nodes, status[n] = "running",
           NEW r \in {"ok", "err"}, Return(n, r, NoCtx), Kind[n] = "setup" => r = "err",
           RestTyped', cancelled \subseteq cancelled',
           \A c \in ChildrenOf(n) :
               status[c] = "running" => (Kind[n] = "parallel" /\ n \in cancelled')
    PROVE  Change
<1>1. {} \in Contexts
  BY DEF Contexts
<1>2. Returns(n, r, {})
  BY DEF Returns, NoCtx
<1>. QED
  BY <1>1, <1>2 DEF Change

\* A return that hands on context x.
LEMMA ReturnsContext ==
    ASSUME NEW n \in Nodes, status[n] = "running", Kind[n] \notin {"bounds", "parallel"},
           NEW r \in {"ok", "err"}, NEW x \in Contexts, Return(n, r, x),
           x # {} => (r = "ok" /\ ctx[n] \subseteq x /\ x \subseteq Known(n) \cup {n}),
           (Kind[n] = "setup" /\ r = "ok") => x = ctx[n],
           RestTyped', cancelled \subseteq cancelled',
           \A c \in ChildrenOf(n) : status[c] # "running"
    PROVE  Change
BY DEF Returns, Change

-----------------------------------------------------------------------------
(* The steps: each is one of the kinds of change.                          *)

LEMMA SequentialStep ==
    ASSUME IInv, NEW n \in Nodes,
           \/ SequentialCalls(n) \/ SequentialCancelled(n)
           \/ SequentialFails(n) \/ SequentialEnds(n)
    PROVE  Change
<1>1. status[n] = "running" /\ Kind[n] = "sequential"
  BY DEF SequentialCalls, SequentialCancelled, SequentialFails, SequentialEnds, Runs
<1>2. at[n] > 0 => Returned(Current(n))
  BY DEF SequentialCalls, SequentialCancelled, SequentialFails, SequentialEnds, Proceeds, Returned
<1>3. /\ Absorbed(n) \in Contexts
      /\ ctx[n] \subseteq Absorbed(n) /\ Absorbed(n) \subseteq Known(n)
  BY <1>1, AbsorbedDerived
<1>4. \A c \in ChildrenOf(n) : status[c] # "running"
  BY <1>1, <1>2, NoneRunning
<1>5. RestTyped
  BY RestIsTyped
<1>6. CASE SequentialCalls(n)
  <2>1. Calls(n, Absorbed(n), Absorbed(n))
    BY <1>1, <1>2, <1>3, <1>6 DEF SequentialCalls, Calls
  <2>. QED
    BY <1>3, <2>1 DEF Change
<1>7. CASE SequentialCancelled(n)
  <2>1. Return(n, "err", NoCtx) /\ RestTyped' /\ cancelled' = cancelled
    BY <1>5, <1>7 DEF SequentialCancelled, RestTyped, Contexts
  <2>. QED
    BY <1>1, <1>4, <2>1, ReturnsBare
<1>8. CASE SequentialFails(n)
  <2>1. Return(n, "err", NoCtx) /\ RestTyped' /\ cancelled' = cancelled
    BY <1>5, <1>8 DEF SequentialFails, RestTyped, Contexts
  <2>. QED
    BY <1>1, <1>4, <2>1, ReturnsBare
<1>9. CASE SequentialEnds(n)
  <2>1. Return(n, "ok", Absorbed(n)) /\ RestTyped' /\ cancelled' = cancelled
    BY <1>5, <1>9 DEF SequentialEnds, RestTyped, Contexts
  <2>. QED
    BY <1>1, <1>3, <1>4, <2>1, ReturnsContext
<1>. QED
  BY <1>6, <1>7, <1>8, <1>9

LEMMA ParallelStep ==
    ASSUME IInv, NEW n \in Nodes,
           \/ ParallelSkips(n) \/ ParallelStarts(n) \/ ParallelCancelled(n) \/ ParallelEnds(n)
           \/ \E c \in ChildrenOf(n) : ParallelTakes(n, c) \/ ParallelFails(n, c)
    PROVE  Change
<1>1. status[n] = "running" /\ Kind[n] = "parallel"
  BY DEF ParallelSkips, ParallelStarts, ParallelCancelled, ParallelEnds, ParallelTakes,
         ParallelFails, Waits, Runs
<1>2. RestTyped
  BY RestIsTyped
<1>3. CASE ParallelSkips(n)
  <2>1. Return(n, "ok", NoCtx) /\ RestTyped' /\ cancelled' = cancelled
    BY <1>2, <1>3 DEF ParallelSkips, RestTyped, Contexts
  <2>2. \A c \in ChildrenOf(n) : status[c] # "running"
    <3>1. \A i \in DOMAIN Children[n] : status[Children[n][i]] = "idle"
      BY <1>1, <1>3, Forest DEF ParallelSkips, IInv, Fresh
    <3>. QED
      BY <3>1 DEF ChildrenOf
  <2>. QED
    BY <1>1, <2>1, <2>2, ReturnsBare
<1>4. CASE ParallelStarts(n)
  BY <1>4 DEF Change
<1>5. CASE ParallelCancelled(n)
  <2>1. Return(n, "err", NoCtx) /\ RestTyped' /\ cancelled' = cancelled \cup {n}
    BY <1>2, <1>5 DEF ParallelCancelled, Cancel, RestTyped, Contexts
  <2>. QED
    BY <1>1, <2>1, ReturnsBare
<1>6. CASE ParallelEnds(n)
  <2>1. Return(n, "ok", NoCtx) /\ RestTyped' /\ cancelled' = cancelled \cup {n}
    BY <1>2, <1>6 DEF ParallelEnds, Cancel, RestTyped, Contexts
  <2>. QED
    BY <1>1, <2>1, ReturnsBare
<1>7. ASSUME NEW c \in ChildrenOf(n), ParallelTakes(n, c) PROVE Change
  <2>1. UNCHANGED callVars /\ RestTyped' /\ cancelled' = cancelled
    BY <1>2, <1>7, Forest DEF ParallelTakes, RestTyped, Contexts
  <2>. QED
    BY <2>1 DEF Change, Quiet
<1>8. ASSUME NEW c \in ChildrenOf(n), ParallelFails(n, c) PROVE Change
  <2>1. Return(n, "err", NoCtx) /\ RestTyped' /\ cancelled' = cancelled \cup {n}
    BY <1>2, <1>8, Forest DEF ParallelFails, Cancel, RestTyped, Contexts
  <2>. QED
    BY <1>1, <2>1, ReturnsBare
<1>. QED
  BY <1>3, <1>4, <1>5, <1>6, <1>7, <1>8

LEMMA WrapperStep ==
    ASSUME IInv, NEW n \in Nodes,
           \/ SafeguardCalls(n) \/ SafeguardReturns(n)
           \/ BoundsCalls(n) \/ BoundsReturns(n)
           \/ RetryCalls(n) \/ RetryReturns(n)
    PROVE  Change
<1>1. status[n] = "running" /\ Kind[n] \in {"safeguard", "bounds", "retry"}
  BY DEF SafeguardCalls, SafeguardReturns, BoundsCalls, BoundsReturns, RetryCalls,
         RetryReturns, Runs
<1>2. at[n] > 0 => Returned(Current(n))
  BY DEF SafeguardCalls, SafeguardReturns, BoundsCalls, BoundsReturns, RetryCalls,
         RetryReturns, Returned
<1>3. \A c \in ChildrenOf(n) : status[c] # "running"
  BY <1>1, <1>2, NoneRunning
<1>4. RestTyped
  BY RestIsTyped
<1>5. ctx[n] \in Contexts /\ ctx[n] \cup {n} \in Contexts /\ ctx[n] \subseteq Known(n)
  BY DEF IInv, TypeOK, Contexts, Known
<1>6. CASE SafeguardCalls(n)
  <2>1. Call(n, ctx[n], ctx[n]) /\ UNCHANGED <<root, exec, taken, dropped, cancelled>>
    BY <1>6 DEF SafeguardCalls
  <2>2. Kind[n] = "safeguard" /\ at[n] = 0
    BY <1>6 DEF SafeguardCalls, Runs
  <2>3. More(n)
    <3>1. Len(Children[n]) = 1
      BY <2>2, ArityAssumption
    <3>. QED
      BY <2>2, <3>1 DEF More
  <2>4. Calls(n, ctx[n], ctx[n])
    BY <1>1, <1>2, <1>5, <2>1, <2>2, <2>3 DEF Calls
  <2>. QED
    BY <1>5, <2>4 DEF Change
<1>7. CASE SafeguardReturns(n)
  <2>. DEFINE x == IF status[Current(n)] = "ok" THEN ret[Current(n)] ELSE NoCtx
  <2>1. Return(n, "ok", x) /\ RestTyped' /\ cancelled' = cancelled
    BY <1>4, <1>7 DEF SafeguardReturns, RestTyped, Contexts
  <2>2. Kind[n] = "safeguard" /\ at[n] > 0
    BY <1>7 DEF SafeguardReturns, Runs
  <2>3. x \in Contexts /\ (x # {} => (ctx[n] \subseteq x /\ x \subseteq Known(n)))
    BY <1>1, <2>2, CurrentRet DEF NoCtx, Contexts, Known
  <2>. QED
    BY <1>1, <1>3, <2>1, <2>2, <2>3, ReturnsContext
<1>8. CASE BoundsCalls(n)
  <2>1. Call(n, ctx[n], ctx[n] \cup {n}) /\ UNCHANGED <<root, exec, taken, dropped, cancelled>>
    BY <1>8 DEF BoundsCalls
  <2>2. Kind[n] = "bounds" /\ at[n] = 0
    BY <1>8 DEF BoundsCalls, Runs
  <2>3. More(n)
    <3>1. Len(Children[n]) = 1
      BY <2>2, ArityAssumption
    <3>. QED
      BY <2>2, <3>1 DEF More
  <2>4. Calls(n, ctx[n], ctx[n] \cup {n})
    BY <1>1, <1>2, <1>5, <2>1, <2>2, <2>3 DEF Calls
  <2>. QED
    BY <1>5, <2>4 DEF Change
<1>9. CASE BoundsReturns(n)
  <2>. DEFINE r == status[Current(n)]
  <2>1. Return(n, r, NoCtx) /\ RestTyped' /\ cancelled' = cancelled \cup {n}
    BY <1>4, <1>9 DEF BoundsReturns, Cancel, RestTyped, Contexts
  <2>2. r \in {"ok", "err"}
    BY <1>9 DEF BoundsReturns, Returned
  <2>. QED
    BY <1>1, <1>3, <2>1, <2>2, ReturnsBare
<1>10. CASE RetryCalls(n)
  <2>1. Call(n, ctx[n], ctx[n]) /\ UNCHANGED <<root, exec, taken, dropped, cancelled>> /\ More(n)
    BY <1>10 DEF RetryCalls
  <2>2. Kind[n] = "retry" /\ (at[n] > 0 => status[Current(n)] = "err")
    BY <1>10 DEF RetryCalls, Runs
  <2>3. Calls(n, ctx[n], ctx[n])
    BY <1>1, <1>2, <1>5, <2>1, <2>2 DEF Calls
  <2>. QED
    BY <1>5, <2>3 DEF Change
<1>11. CASE RetryReturns(n)
  <2>. DEFINE r == status[Current(n)]  x == ret[Current(n)]
  <2>1. Return(n, r, x) /\ RestTyped' /\ cancelled' = cancelled
    BY <1>4, <1>11 DEF RetryReturns, RestTyped, Contexts
  <2>2. Kind[n] = "retry" /\ at[n] > 0 /\ r \in {"ok", "err"}
    BY <1>11 DEF RetryReturns, Runs
  <2>3. x \in Contexts /\ (x # {} => (r = "ok" /\ ctx[n] \subseteq x /\ x \subseteq Known(n)))
    BY <1>1, <2>2, CurrentRet DEF Known
  <2>. QED
    BY <1>1, <1>3, <2>1, <2>2, <2>3, ReturnsContext
<1>. QED
  BY <1>6, <1>7, <1>8, <1>9, <1>10, <1>11

LEMMA LeafStep ==
    ASSUME IInv, NEW n \in Nodes,
           \/ Timeout(n) \/ Setup(n)
           \/ CommandSkips(n) \/ CommandPasses(n) \/ CommandStarts(n)
           \/ CommandLeft(n) \/ CommandEnds(n)
           \/ LocalStarts(n) \/ LocalKilled(n)
    PROVE  Change
<1>1. status[n] = "running" /\ Kind[n] \in Leaves
  BY DEF Timeout, Setup, CommandSkips, CommandPasses, CommandStarts, CommandLeft, CommandEnds,
         LocalStarts, LocalKilled, Runs, Leaves
<1>2. \A c \in ChildrenOf(n) : status[c] # "running"
  BY <1>1, LeafCallsNone
<1>3. RestTyped /\ exec \in [Nodes -> {"idle", "starting", "running", "succeeded", "failed", "left"}]
  BY RestIsTyped DEF RestTyped
<1>4. /\ ctx[n] \in Contexts /\ ctx[n] \cup {n} \in Contexts
      /\ ctx[n] \subseteq Known(n) /\ ctx[n] \cup {n} \subseteq Known(n) \cup {n}
  BY DEF IInv, TypeOK, Contexts, Known
<1>5. ASSUME NEW e \in {"idle", "starting", "running", "succeeded", "failed", "left"}, Exec(n, e),
             UNCHANGED <<root, taken, dropped, cancelled>>
      PROVE  RestTyped' /\ cancelled' = cancelled
  BY <1>3, <1>5 DEF Exec, RestTyped, Contexts
<1>6. ASSUME UNCHANGED <<root, exec, taken, dropped, cancelled>>
      PROVE  RestTyped' /\ cancelled' = cancelled
  BY <1>3, <1>6 DEF RestTyped, Contexts
<1>7. ASSUME NEW r \in {"ok", "err"}, Return(n, r, NoCtx), Kind[n] = "setup" => r = "err",
             RestTyped', cancelled' = cancelled
      PROVE  Change
  BY <1>1, <1>2, <1>7, ReturnsBare
<1>8. ASSUME UNCHANGED callVars, RestTyped', cancelled' = cancelled
      PROVE  Change
  BY <1>8 DEF Change, Quiet
<1>9. CASE Timeout(n)
  <2>1. Return(n, "ok", ctx[n] \cup {n}) /\ Kind[n] = "timeout" /\ RestTyped' /\ cancelled' = cancelled
    BY <1>6, <1>9 DEF Timeout, Runs
  <2>. QED
    BY <1>1, <1>2, <1>4, <2>1, ReturnsContext
<1>10. CASE Setup(n)
  <2>1. Kind[n] = "setup" /\ RestTyped' /\ cancelled' = cancelled
    BY <1>6, <1>10 DEF Setup, Runs
  <2>2. CASE Return(n, "ok", ctx[n])
    BY <1>1, <1>2, <1>4, <2>1, <2>2, ReturnsContext
  <2>3. CASE Return(n, "err", NoCtx)
    BY <1>7, <2>1, <2>3
  <2>. QED
    BY <1>10, <2>2, <2>3 DEF Setup
<1>11. CASE CommandSkips(n)
  BY <1>6, <1>7, <1>11 DEF CommandSkips, Runs
<1>12. CASE CommandPasses(n)
  BY <1>5, <1>8, <1>12 DEF CommandPasses
<1>13. CASE CommandStarts(n)
  BY <1>5, <1>7, <1>8, <1>13 DEF CommandStarts, Runs
<1>14. CASE CommandLeft(n)
  BY <1>5, <1>7, <1>14 DEF CommandLeft, Runs
<1>15. CASE CommandEnds(n)
  BY <1>5, <1>7, <1>15 DEF CommandEnds, Runs
<1>16. CASE LocalStarts(n)
  BY <1>5, <1>7, <1>8, <1>16 DEF LocalStarts, Runs
<1>17. CASE LocalKilled(n)
  BY <1>5, <1>7, <1>17 DEF LocalKilled, Runs
<1>. QED
  BY <1>9, <1>10, <1>11, <1>12, <1>13, <1>14, <1>15, <1>16, <1>17

\* Timers, goroutines that give up, and the cancellation of the run change no call.
LEMMA OtherStep ==
    ASSUME IInv,
           \/ \E n \in Nodes : TimerFires(n) \/ \E c \in ChildrenOf(n) : ChildDrops(n, c)
           \/ JobCancelled \/ JobReleased \/ Finished
    PROVE  Quiet
<1>1. RestTyped
  BY RestIsTyped
<1>2. ASSUME NEW n \in Nodes, TimerFires(n) PROVE Quiet
  BY <1>1, <1>2 DEF TimerFires, Cancel, RestTyped, Contexts, Quiet
<1>3. ASSUME NEW n \in Nodes, NEW c \in ChildrenOf(n), ChildDrops(n, c) PROVE Quiet
  BY <1>1, <1>3, Forest DEF ChildDrops, RestTyped, Contexts, Quiet
<1>4. CASE JobCancelled \/ JobReleased
  BY <1>1, <1>4 DEF JobCancelled, JobReleased, Cancel, RestTyped, Contexts, Quiet
<1>5. CASE Finished
  BY <1>1, <1>5 DEF Finished, vars, RestTyped, Contexts, Quiet
<1>. QED
  BY <1>2, <1>3, <1>4, <1>5

\* Every step of the specification is one of the kinds of change.
LEMMA NextChange == IInv /\ [Next]_vars => Change
<1>. SUFFICES ASSUME IInv, [Next]_vars PROVE Change
  OBVIOUS
<1>1. CASE UNCHANGED vars
  BY <1>1, RestIsTyped DEF vars, RestTyped, Contexts, Change, Quiet
<1>2. ASSUME NEW n \in Nodes, Step(n) PROVE Change
  <2>1. CASE TimerFires(n) \/ \E c \in ChildrenOf(n) : ChildDrops(n, c)
    BY <2>1, OtherStep DEF Change
  <2>. QED
    BY <1>2, <2>1, SequentialStep, ParallelStep, WrapperStep, LeafStep DEF Step
<1>3. ASSUME NEW n \in Nodes, Outside(n) PROVE Change
  BY <1>3, LeafStep DEF Outside
<1>4. CASE JobCancelled \/ JobReleased \/ Finished
  BY <1>4, OtherStep DEF Change
<1>. QED
  BY <1>1, <1>2, <1>3, <1>4 DEF Next

LEMMA ChangeIInv == IInv /\ Change => IInv'
<1>. SUFFICES ASSUME IInv, Change PROVE IInv'
  OBVIOUS
<1>1. CASE Quiet
  BY <1>1, Frame DEF Quiet
<1>2. ASSUME NEW n \in Nodes, NEW r \in {"ok", "err"}, NEW x \in Contexts, Returns(n, r, x)
      PROVE  IInv'
  BY <1>2, Returning DEF Returns
<1>3. ASSUME NEW n \in Nodes, NEW x \in Contexts, NEW y \in Contexts, Calls(n, x, y)
      PROVE  IInv'
  BY <1>3, Calling DEF Calls
<1>4. ASSUME NEW n \in Nodes, ParallelStarts(n) PROVE IInv'
  BY <1>4, Starting
<1>. QED
  BY <1>1, <1>2, <1>3, <1>4 DEF Change

LEMMA InvariantIInv == Spec => []IInv
<1>1. IInv /\ [Next]_vars => IInv'
  BY NextChange, ChangeIInv
<1>. QED
  BY <1>1, InitIInv, PTL DEF Spec

-----------------------------------------------------------------------------
(* The theorems.                                                           *)

\* Every tree runs within its types: a failure comes with no context, and no
\* child was called by a call that was not (flunc.go, executionTree.go).
THEOREM TypeCorrect == Spec => []TypeOK
<1>1. IInv => TypeOK
  BY DEF IInv
<1>. QED
  BY <1>1, InvariantIInv, PTL

\* In every tree, however deep, a call that goes on after its parent returned
\* (flunc.go:53-55) runs under a done context, as does all that it calls.
THEOREM StragglersAreCancelled == Spec => []StragglersCancelled
<1>1. IInv => StragglersCancelled
  BY DEF IInv, CtxDerived, Awaited, StragglersCancelled, Returned, Done
<1>. QED
  BY <1>1, InvariantIInv, PTL

-----------------------------------------------------------------------------
(***************************************************************************)
(* What holds between a call and all the calls that enclose it: a context  *)
(* stays within the bounds it was made in, and what was set up for a       *)
(* command lasts as long as the command.                                   *)
(***************************************************************************)

\* Above a call that was made there is, below each call that encloses it, the next.
Linked == \A m \in Nodes : status[m] # "idle" =>
    /\ Above[m] \subseteq Nodes
    /\ \A p \in Above[m] : \E d \in ChildrenOf(p) : d = m \/ d \in Above[m]

\* All that encloses a running call waits for it, unless the call is cancelled.
Chain == \A m \in Nodes : status[m] = "running" =>
    Done(ctx[m]) \/ \A p \in Above[m] : status[p] = "running" /\ ctx[p] \subseteq ctx[m]

\* No context leaves the bounds or the parallel group one of its sources was made in.
Scoped == \A n \in Nodes : \A s \in (ctx[n] \cup ret[n]) \ {Job} : Boundaries[s] \subseteq Above[n]

\* A Sequential calls its next child under the contexts of all it has set up.
SequentialKeeps == \A p \in Nodes : Runs(p, "sequential") =>
    \A s \in ChildrenOf(p) : (Kind[s] = "setup" /\ status[s] = "ok") => ctx[s] \subseteq Absorbed(p)

\* The children of a Parallel share one context.
ParallelKeeps == \A p \in Nodes : Kind[p] = "parallel" =>
    \A s \in ChildrenOf(p) : (Kind[s] = "setup" /\ status[s] # "idle") => ctx[s] \subseteq ctx[p] \cup {p}

\* A Retry calls no child after one that succeeded.
LastSucceeds == \A p \in Nodes : Runs(p, "retry") =>
    \A c \in ChildrenOf(p) : status[c] = "ok" => (at[p] > 0 /\ c = Current(p))

ScopeInv == Linked /\ Chain /\ Scoped /\ SequentialKeeps /\ ParallelKeeps /\ LastSucceeds

-----------------------------------------------------------------------------
(* The calls above a call.                                                 *)

LEMMA AboveChild ==
    ASSUME NEW n \in Nodes, NEW c \in ChildrenOf(n)
    PROVE  Above[c] = Above[n] \cup {n}
<1>1. c \in Nodes
  BY Forest
<1>2. Parents(c) = {n}
  BY Forest DEF Parents
<1>. QED
  BY <1>1, <1>2, AboveAssumption

LEMMA AboveRoot == \A r \in Roots : Above[r] = {}
<1>. SUFFICES ASSUME NEW r \in Roots PROVE Above[r] = {}
  OBVIOUS
<1>1. r \in Nodes /\ Parents(r) = {}
  BY ForestAssumption DEF Parents
<1>. QED
  BY <1>1, AboveAssumption

\* The boundaries of a source known to a call, seen from its parent and from its child.
LEMMA BoundariesAbove ==
    ASSUME NEW n \in Nodes
    PROVE  /\ Kind[n] \notin {"bounds", "parallel"} => Boundaries[n] \subseteq Above[n]
           /\ Boundaries[n] \subseteq Above[n] \cup {n}
           /\ \A s \in Nodes : (Boundaries[s] \subseteq Above[n] \cup {n} /\ Kind[n] \notin {"bounds", "parallel"})
                => Boundaries[s] \subseteq Above[n]
BY DEF Boundaries

\* A child of n runs while a call below n does that is not cancelled.
LEMMA ChildRuns ==
    ASSUME Linked, Chain, NEW m \in Nodes, status[m] = "running", ~Done(ctx[m]), NEW n \in Above[m]
    PROVE  \E d \in ChildrenOf(n) : status[d] = "running" /\ ctx[d] \subseteq ctx[m]
BY DEF Linked, Chain

-----------------------------------------------------------------------------

LEMMA InitScope == Init => ScopeInv
<1>. SUFFICES ASSUME Init PROVE ScopeInv
  OBVIOUS
<1>1. root \in Nodes /\ Above[root] = {} /\ \A n \in Nodes : root \notin ChildrenOf(n)
  BY ForestAssumption, AboveRoot DEF Init
<1>2. \A n \in Nodes : status[n] = (IF n = root THEN "running" ELSE "idle")
  BY DEF Init
<1>3. \A n \in Nodes : \A c \in ChildrenOf(n) : status[c] = "idle"
  BY <1>1, <1>2, Forest
<1>4. \A n \in Nodes : ret[n] = {} /\ ctx[n] \subseteq {Job}
  BY DEF Init, NoCtx
<1>5. Linked /\ Chain
  BY <1>1, <1>2 DEF Linked, Chain
<1>6. Scoped
  BY <1>4 DEF Scoped
<1>7. SequentialKeeps /\ ParallelKeeps /\ LastSucceeds
  BY <1>3 DEF SequentialKeeps, ParallelKeeps, LastSucceeds
<1>. QED
  BY <1>5, <1>6, <1>7 DEF ScopeInv

\* No call changes.
LEMMA QuietScope == ASSUME ScopeInv, Quiet PROVE ScopeInv'
<1>1. UNCHANGED <<status, ctx, ret, at>> /\ cancelled \subseteq cancelled'
  BY DEF Quiet, callVars
<1>2. Linked' /\ Chain' /\ Scoped'
  BY <1>1 DEF ScopeInv, Linked, Chain, Scoped, Done
<1>3. SequentialKeeps'
  BY <1>1 DEF ScopeInv, SequentialKeeps, Runs, Absorbed, Current, NoCtx
<1>4. ParallelKeeps' /\ LastSucceeds'
  BY <1>1 DEF ScopeInv, ParallelKeeps, LastSucceeds, Runs, Current
<1>. QED
  BY <1>2, <1>3, <1>4 DEF ScopeInv

-----------------------------------------------------------------------------
(* A call returns.                                                         *)

LEMMA ReturningScope ==
    ASSUME IInv, ScopeInv,
           NEW n \in Nodes, NEW r \in {"ok", "err"}, NEW x \in Contexts, Returns(n, r, x)
    PROVE  ScopeInv'
<1>1. /\ \A m \in Nodes : status'[m] = (IF m = n THEN r ELSE status[m])
      /\ \A m \in Nodes : ret'[m] = (IF m = n THEN x ELSE ret[m])
      /\ ctx' = ctx /\ at' = at /\ cancelled \subseteq cancelled'
      /\ status[n] = "running" /\ ret[n] = {}
  BY DEF IInv, TypeOK, RetDerived, Returned, Returns, Return
<1>2. Linked'
  BY <1>1 DEF ScopeInv, Linked
<1>3. Chain'
  <2>. SUFFICES ASSUME NEW m \in Nodes, status'[m] = "running", ~Done(ctx[m])'
                PROVE  \A p \in Above[m] : status'[p] = "running" /\ ctx[p] \subseteq ctx[m]
    BY <1>1 DEF Chain
  <2>1. status[m] = "running" /\ ~Done(ctx[m])
    BY <1>1 DEF Done
  <2>2. n \notin Above[m]
    <3>. SUFFICES ASSUME n \in Above[m] PROVE FALSE
      OBVIOUS
    <3>1. PICK d \in ChildrenOf(n) : status[d] = "running" /\ ctx[d] \subseteq ctx[m]
      BY <2>1, ChildRuns DEF ScopeInv
    <3>2. n \in cancelled' /\ n \in ctx[d]
      BY <3>1 DEF IInv, CtxDerived, Returns
    <3>. QED
      BY <1>1, <3>1, <3>2 DEF Done
  <2>. QED
    BY <1>1, <2>1, <2>2 DEF ScopeInv, Chain, Linked
<1>4. Scoped'
  <2>. SUFFICES ASSUME NEW s \in x \ {Job} PROVE Boundaries[s] \subseteq Above[n]
    BY <1>1 DEF ScopeInv, Scoped
  <2>1. Kind[n] \notin {"bounds", "parallel"} /\ s \in Known(n) \cup {n} /\ s \in Nodes
    BY DEF Returns, Contexts
  <2>2. CASE s \in ctx[n]
    BY <2>2 DEF ScopeInv, Scoped
  <2>3. CASE s = n
    BY <2>1, <2>3, BoundariesAbove
  <2>4. CASE at[n] > 0 /\ s \in ret[Current(n)]
    <3>1. Current(n) \in Nodes /\ Above[Current(n)] = Above[n] \cup {n}
      BY <1>1, <2>1, <2>4, CurrentRet, AboveChild
    <3>2. Boundaries[s] \subseteq Above[n] \cup {n}
      BY <2>4, <3>1 DEF ScopeInv, Scoped
    <3>. QED
      BY <2>1, <3>2, BoundariesAbove
  <2>. QED
    BY <2>1, <2>2, <2>3, <2>4 DEF Known
<1>5. ASSUME NEW p \in Nodes, status[p] = "running", n \in ChildrenOf(p), Kind[p] # "parallel"
      PROVE  at[p] > 0 /\ n = Current(p)
  BY <1>1, <1>5 DEF IInv, InTurn
<1>6. SequentialKeeps'
  <2>. SUFFICES ASSUME NEW p \in Nodes, Runs(p, "sequential")', NEW s \in ChildrenOf(p),
                       Kind[s] = "setup", status'[s] = "ok"
                PROVE  ctx[s] \subseteq Absorbed(p)'
    BY <1>1 DEF SequentialKeeps
  <2>1. Runs(p, "sequential") /\ p # n /\ s \in Nodes
    BY <1>1, Forest DEF Runs
  <2>2. Absorbed(p)' = (IF at[p] = 0 \/ ret'[Current(p)] = {} THEN ctx[p] ELSE ret'[Current(p)])
    BY <1>1 DEF Absorbed, Current, NoCtx
  <2>3. CASE s = n
    <3>1. r = "ok" /\ x = ctx[n]
      BY <1>1, <2>3 DEF Returns
    <3>2. n = Current(p) /\ at[p] > 0
      BY <1>5, <2>1, <2>3 DEF Runs
    <3>. QED
      BY <1>1, <2>2, <2>3, <3>1, <3>2
  <2>4. CASE s # n /\ n \in ChildrenOf(p)
    <3>1. n = Current(p) /\ at[p] > 0
      BY <1>5, <2>1, <2>4 DEF Runs
    <3>2. Absorbed(p) = ctx[p]
      BY <1>1, <3>1 DEF Absorbed, NoCtx
    <3>3. ctx[s] \subseteq ctx[p]
      BY <1>1, <2>1, <2>4, <3>2 DEF ScopeInv, SequentialKeeps
    <3>4. ctx[p] \subseteq ctx[n] /\ (x # {} => ctx[n] \subseteq x)
      BY <1>1, <2>4 DEF IInv, CtxDerived, Returns
    <3>. QED
      BY <1>1, <2>2, <3>1, <3>3, <3>4
  <2>5. CASE n \notin ChildrenOf(p)
    <3>1. at[p] # 0 => (Current(p) \in Nodes /\ Current(p) # n)
      BY <2>1, <2>5, CurrentRet DEF IInv, TypeOK, Runs
    <3>2. Absorbed(p)' = Absorbed(p)
      BY <1>1, <2>2, <3>1 DEF Absorbed, NoCtx
    <3>3. ctx[s] \subseteq Absorbed(p)
      BY <1>1, <2>1, <2>5 DEF ScopeInv, SequentialKeeps
    <3>. QED
      BY <3>2, <3>3
  <2>. QED
    BY <2>3, <2>4, <2>5
<1>7. ParallelKeeps'
  BY <1>1, Forest DEF ScopeInv, ParallelKeeps
<1>8. LastSucceeds'
  <2>. SUFFICES ASSUME NEW p \in Nodes, Runs(p, "retry")', NEW c \in ChildrenOf(p), status'[c] = "ok"
                PROVE  at[p] > 0 /\ c = Current(p)
    BY <1>1 DEF LastSucceeds, Current
  <2>1. Runs(p, "retry") /\ c \in Nodes
    BY <1>1, Forest DEF Runs
  <2>. QED
    BY <1>1, <1>5, <2>1 DEF ScopeInv, LastSucceeds, Runs
<1>. QED
  BY <1>2, <1>3, <1>4, <1>6, <1>7, <1>8 DEF ScopeInv

-----------------------------------------------------------------------------
(* A call calls its next child.                                            *)

LEMMA CallingScope ==
    ASSUME IInv, ScopeInv, NEW n \in Nodes, NEW x \in Contexts, NEW y \in Contexts, Calls(n, x, y)
    PROVE  ScopeInv'
<1>. DEFINE c == Children[n][at[n] + 1]
<1>1. c \in Nodes /\ c \in ChildrenOf(n)
  <2>1. at[n] + 1 \in DOMAIN Children[n]
    BY Forest DEF Calls, More, IInv, TypeOK
  <2>. QED
    BY <2>1, Forest
<1>2. status[n] = "running" /\ status[c] = "idle" /\ ret[c] = {} /\ c # n /\ Kind[n] # "parallel"
  <2>1. status[c] = "idle"
    <3>1. at[n] \in Nat /\ at[n] + 1 \in DOMAIN Children[n]
      BY Forest DEF Calls, More, IInv, TypeOK
    <3>. QED
      BY <3>1 DEF Calls, IInv, Fresh
  <2>. QED
    BY <1>1, <2>1 DEF Calls, IInv, RetDerived, Returned
<1>3. \A d \in ChildrenOf(c) : d \in Nodes /\ status[d] = "idle" /\ d # n /\ d # c
  BY <1>1, <1>2, Forest DEF IInv, TypeOK
<1>4. /\ \A m \in Nodes : status'[m] = (IF m = c THEN "running" ELSE status[m])
      /\ \A m \in Nodes : at'[m] = (IF m = n THEN at[n] + 1 ELSE at[m])
      /\ \A m \in Nodes : ctx'[m] = (IF m = c THEN y ELSE IF m = n THEN x ELSE ctx[m])
      /\ ret' = ret /\ cancelled' = cancelled
      /\ at[n] \in Nat
  BY <1>1, <1>2 DEF Calls, Call, IInv, TypeOK
<1>5. Above[c] = Above[n] \cup {n}
  BY <1>1, AboveChild
<1>6. ctx[n] \subseteq x /\ x \subseteq Known(n) /\ x \subseteq y /\ y \subseteq x \cup {n}
  BY DEF Calls
<1>7. Linked'
  BY <1>1, <1>2, <1>4, <1>5 DEF ScopeInv, Linked
<1>8. Chain'
  <2>1. \A d \in ChildrenOf(n) : status[d] # "running"
    BY <1>2, NoneRunning DEF Calls
  <2>2. ASSUME NEW m \in Nodes, status[m] = "running", ~Done(ctx[m])
        PROVE  n \notin Above[m] /\ c \notin Above[m] /\ Above[m] \subseteq Nodes
    <3>1. n \notin Above[m]
      BY <2>1, <2>2, ChildRuns DEF ScopeInv
    <3>2. c \notin Above[m]
      BY <1>2, <2>2 DEF ScopeInv, Chain
    <3>. QED
      BY <2>2, <3>1, <3>2 DEF ScopeInv, Linked
  <2>. SUFFICES ASSUME NEW m \in Nodes, status'[m] = "running", ~Done(ctx[m])', NEW p \in Above[m]
                PROVE  status'[p] = "running" /\ ctx'[p] \subseteq ctx'[m]
    BY DEF Chain
  <2>3. CASE m = c
    <3>1. ~Done(ctx[n])
      BY <1>4, <1>6, <2>3 DEF Done
    <3>2. CASE p = n
      BY <1>1, <1>2, <1>4, <1>6, <2>3, <3>2
    <3>3. CASE p \in Above[n]
      <4>1. p \in Nodes /\ p # n /\ p # c /\ status[p] = "running" /\ ctx[p] \subseteq ctx[n]
        BY <1>2, <2>2, <3>1, <3>3 DEF ScopeInv, Chain
      <4>. QED
        BY <1>1, <1>4, <1>6, <2>3, <4>1
    <3>. QED
      BY <1>5, <2>3, <3>2, <3>3
  <2>4. CASE m # c
    <3>1. status[m] = "running" /\ ctx[m] \subseteq ctx'[m] /\ ~Done(ctx[m])
      BY <1>4, <1>6, <2>4 DEF Done
    <3>2. p \in Nodes /\ p # n /\ p # c /\ status[p] = "running" /\ ctx[p] \subseteq ctx[m]
      BY <2>2, <3>1 DEF ScopeInv, Chain
    <3>. QED
      BY <1>4, <3>1, <3>2
  <2>. QED
    BY <2>3, <2>4
<1>9. Scoped'
  <2>1. ASSUME NEW s \in x \ {Job} PROVE Boundaries[s] \subseteq Above[n]
    <3>1. CASE s \in ctx[n]
      BY <3>1 DEF ScopeInv, Scoped
    <3>2. CASE at[n] > 0 /\ Kind[n] # "bounds" /\ s \in ret[Current(n)]
      <4>1. Current(n) \in Nodes /\ Above[Current(n)] = Above[n] \cup {n}
        BY <1>2, <3>2, CurrentRet, AboveChild
      <4>2. Boundaries[s] \subseteq Above[n] \cup {n} /\ s \in Nodes
        BY <3>2, <4>1 DEF ScopeInv, Scoped, Contexts
      <4>. QED
        BY <1>2, <3>2, <4>2, BoundariesAbove
    <3>. QED
      BY <1>6, <3>1, <3>2 DEF Known
  <2>2. ASSUME NEW s \in y \ {Job} PROVE Boundaries[s] \subseteq Above[c]
    BY <1>5, <1>6, <2>1, BoundariesAbove
  <2>. SUFFICES ASSUME NEW m \in Nodes, NEW s \in (ctx'[m] \cup ret'[m]) \ {Job}
                PROVE  Boundaries[s] \subseteq Above[m]
    BY DEF Scoped
  <2>3. CASE s \in ret[m]
    BY <2>3 DEF ScopeInv, Scoped
  <2>4. CASE s \in ctx'[m] /\ m \in {n, c}
    BY <1>1, <1>2, <1>4, <2>1, <2>2, <2>4
  <2>5. CASE s \in ctx[m] /\ m \notin {n, c}
    BY <2>5 DEF ScopeInv, Scoped
  <2>. QED
    BY <1>4, <2>3, <2>4, <2>5
<1>10. ASSUME NEW p \in Nodes, NEW s \in ChildrenOf(p), status'[s] = "ok"
       PROVE  p # c /\ s \in Nodes /\ s # c /\ s # n /\ status[s] = "ok" /\ ctx'[s] = ctx[s]
  <2>1. s \in Nodes
    BY Forest
  <2>2. s # c /\ status[s] = "ok"
    BY <1>4, <1>10, <2>1
  <2>. QED
    BY <1>2, <1>3, <1>4, <2>1, <2>2
<1>11. SequentialKeeps'
  <2>. SUFFICES ASSUME NEW p \in Nodes, Runs(p, "sequential")', NEW s \in ChildrenOf(p),
                       Kind[s] = "setup", status'[s] = "ok"
                PROVE  ctx'[s] \subseteq Absorbed(p)'
    BY DEF SequentialKeeps
  <2>1. /\ Runs(p, "sequential") /\ p # c /\ status[s] = "ok" /\ ctx'[s] = ctx[s]
        /\ ctx[s] \subseteq Absorbed(p)
    BY <1>4, <1>10 DEF Runs, ScopeInv, SequentialKeeps
  <2>2. CASE p = n
    <3>1. x = Absorbed(n)
      BY <2>1, <2>2 DEF Calls, Runs
    <3>2. Absorbed(n)' = x
      <4>1. Current(n)' = c /\ at'[n] # 0 /\ ctx'[n] = x
        BY <1>2, <1>4 DEF Current
      <4>. QED
        BY <1>2, <1>4, <4>1 DEF Absorbed, NoCtx
    <3>. QED
      BY <2>1, <2>2, <3>1, <3>2
  <2>3. CASE p # n
    <3>1. Absorbed(p)' = Absorbed(p)
      BY <1>4, <2>1, <2>3 DEF Absorbed, Current, NoCtx
    <3>. QED
      BY <2>1, <3>1
  <2>. QED
    BY <2>2, <2>3
<1>12. ParallelKeeps'
  <2>. SUFFICES ASSUME NEW p \in Nodes, Kind[p] = "parallel", NEW s \in ChildrenOf(p),
                       Kind[s] = "setup", status'[s] # "idle"
                PROVE  ctx'[s] \subseteq ctx'[p] \cup {p}
    BY DEF ParallelKeeps
  <2>1. s \in Nodes /\ p # n /\ s # c
    BY <1>1, <1>2, Forest
  <2>2. s # n
    BY <1>1, LeafCallsNone DEF Leaves
  <2>3. p # c
    BY <1>3, <1>4, <2>1
  <2>. QED
    BY <1>4, <2>1, <2>2, <2>3 DEF ScopeInv, ParallelKeeps
<1>13. LastSucceeds'
  <2>. SUFFICES ASSUME NEW p \in Nodes, Runs(p, "retry")', NEW d \in ChildrenOf(p), status'[d] = "ok"
                PROVE  at'[p] > 0 /\ d = Current(p)'
    BY DEF LastSucceeds
  <2>1. Runs(p, "retry") /\ status[d] = "ok"
    BY <1>4, <1>10 DEF Runs
  <2>2. at[p] > 0 /\ d = Current(p)
    BY <2>1 DEF ScopeInv, LastSucceeds
  <2>3. p # n
    BY <2>1, <2>2 DEF Calls, Runs
  <2>. QED
    BY <1>4, <2>2, <2>3 DEF Current
<1>. QED
  BY <1>7, <1>8, <1>9, <1>11, <1>12, <1>13 DEF ScopeInv

-----------------------------------------------------------------------------
(* A Parallel starts its children.                                         *)

LEMMA StartingScope == ASSUME IInv, ScopeInv, NEW n \in Nodes, ParallelStarts(n) PROVE ScopeInv'
<1>1. status[n] = "running" /\ Kind[n] = "parallel" /\ at[n] = 0
  BY DEF ParallelStarts, Runs
<1>2. \A c \in ChildrenOf(n) : c \in Nodes /\ status[c] = "idle" /\ c # n
  <2>1. \A i \in DOMAIN Children[n] : status[Children[n][i]] = "idle"
    BY <1>1, Forest DEF IInv, Fresh
  <2>. QED
    BY <2>1, <1>1, Forest DEF ChildrenOf
<1>3. \A c \in ChildrenOf(n) : \A d \in ChildrenOf(c) :
         d \in Nodes /\ status[d] = "idle" /\ d \notin ChildrenOf(n)
  BY <1>2, Forest DEF IInv, TypeOK
<1>4. /\ \A m \in Nodes : status'[m] = (IF m \in ChildrenOf(n) THEN "running" ELSE status[m])
      /\ \A m \in Nodes : ctx'[m] = (IF m \in ChildrenOf(n) THEN ctx[n] \cup {n} ELSE ctx[m])
      /\ \A m \in Nodes : at'[m] = (IF m = n THEN 1 ELSE at[m])
      /\ ret' = ret /\ cancelled' = cancelled
  BY DEF ParallelStarts, IInv, TypeOK
<1>5. \A c \in ChildrenOf(n) : Above[c] = Above[n] \cup {n}
  BY AboveChild
<1>6. n \notin ChildrenOf(n)
  BY <1>2
<1>7. Linked'
  <2>. SUFFICES ASSUME NEW m \in Nodes, status'[m] # "idle"
                PROVE  /\ Above[m] \subseteq Nodes
                       /\ \A p \in Above[m] : \E d \in ChildrenOf(p) : d = m \/ d \in Above[m]
    BY DEF Linked
  <2>1. CASE m \in ChildrenOf(n)
    BY <1>1, <1>5, <2>1 DEF ScopeInv, Linked
  <2>2. CASE m \notin ChildrenOf(n)
    BY <1>4, <2>2 DEF ScopeInv, Linked
  <2>. QED
    BY <2>1, <2>2
<1>8. Chain'
  <2>1. ASSUME NEW m \in Nodes, status[m] = "running", ~Done(ctx[m]), NEW p \in Above[m]
        PROVE  /\ p \in Nodes /\ status[p] = "running" /\ ctx[p] \subseteq ctx[m]
               /\ status'[p] = "running" /\ ctx'[p] = ctx[p]
    <3>1. p \in Nodes /\ status[p] = "running" /\ ctx[p] \subseteq ctx[m]
      BY <2>1 DEF ScopeInv, Chain, Linked
    <3>. QED
      BY <1>2, <1>4, <3>1
  <2>. SUFFICES ASSUME NEW m \in Nodes, status'[m] = "running", ~Done(ctx[m])', NEW p \in Above[m]
                PROVE  status'[p] = "running" /\ ctx'[p] \subseteq ctx'[m]
    BY DEF Chain
  <2>2. CASE m \in ChildrenOf(n)
    <3>1. ctx'[m] = ctx[n] \cup {n} /\ ~Done(ctx[n])
      BY <1>4, <2>2 DEF Done
    <3>2. CASE p = n
      BY <1>1, <1>4, <1>6, <3>1, <3>2
    <3>3. CASE p \in Above[n]
      BY <1>1, <2>1, <3>1, <3>3
    <3>. QED
      BY <1>5, <2>2, <3>2, <3>3
  <2>3. CASE m \notin ChildrenOf(n)
    <3>1. status[m] = "running" /\ ctx'[m] = ctx[m] /\ ~Done(ctx[m])
      BY <1>4, <2>3 DEF Done
    <3>. QED
      BY <2>1, <3>1
  <2>. QED
    BY <2>2, <2>3
<1>9. Scoped'
  <2>. SUFFICES ASSUME NEW m \in Nodes, NEW s \in (ctx'[m] \cup ret'[m]) \ {Job}
                PROVE  Boundaries[s] \subseteq Above[m]
    BY DEF Scoped
  <2>1. CASE m \in ChildrenOf(n) /\ s \in ctx'[m]
    <3>1. s \in ctx[n] \/ s = n
      BY <1>4, <2>1
    <3>2. Boundaries[s] \subseteq Above[n] \cup {n}
      BY <3>1, BoundariesAbove DEF ScopeInv, Scoped
    <3>. QED
      BY <1>5, <2>1, <3>2
  <2>2. CASE s \in ctx[m] \cup ret[m]
    BY <2>2 DEF ScopeInv, Scoped
  <2>. QED
    BY <1>4, <2>1, <2>2
<1>10. ASSUME NEW p \in Nodes, NEW s \in ChildrenOf(p), status'[s] = "ok"
       PROVE  /\ s \in Nodes /\ s \notin ChildrenOf(n) /\ status[s] = "ok" /\ ctx'[s] = ctx[s]
              /\ p # n /\ p \notin ChildrenOf(n)
  <2>1. s \in Nodes
    BY Forest
  <2>2. s \notin ChildrenOf(n) /\ status[s] = "ok"
    BY <1>4, <1>10, <2>1
  <2>. QED
    BY <1>3, <1>4, <2>1, <2>2
<1>11. SequentialKeeps'
  <2>. SUFFICES ASSUME NEW p \in Nodes, Runs(p, "sequential")', NEW s \in ChildrenOf(p),
                       Kind[s] = "setup", status'[s] = "ok"
                PROVE  ctx'[s] \subseteq Absorbed(p)'
    BY DEF SequentialKeeps
  <2>1. Absorbed(p)' = Absorbed(p) /\ Runs(p, "sequential")
    BY <1>4, <1>10 DEF Absorbed, Current, NoCtx, Runs
  <2>. QED
    BY <1>10, <2>1 DEF ScopeInv, SequentialKeeps
<1>12. ParallelKeeps'
  <2>. SUFFICES ASSUME NEW p \in Nodes, Kind[p] = "parallel", NEW s \in ChildrenOf(p),
                       Kind[s] = "setup", status'[s] # "idle"
                PROVE  ctx'[s] \subseteq ctx'[p] \cup {p}
    BY DEF ParallelKeeps
  <2>1. CASE p = n
    BY <1>2, <1>4, <1>6, <2>1
  <2>2. CASE p # n
    <3>1. s \in Nodes /\ s \notin ChildrenOf(n)
      BY <2>2, Forest
    <3>2. p \notin ChildrenOf(n)
      BY <1>3, <1>4, <3>1
    <3>. QED
      BY <1>4, <3>1, <3>2 DEF ScopeInv, ParallelKeeps
  <2>. QED
    BY <2>1, <2>2
<1>13. LastSucceeds'
  <2>. SUFFICES ASSUME NEW p \in Nodes, Runs(p, "retry")', NEW d \in ChildrenOf(p), status'[d] = "ok"
                PROVE  at'[p] > 0 /\ d = Current(p)'
    BY DEF LastSucceeds
  <2>1. Runs(p, "retry") /\ status[d] = "ok" /\ p # n
    BY <1>4, <1>10 DEF Runs
  <2>. QED
    BY <1>4, <2>1 DEF ScopeInv, LastSucceeds, Current
<1>. QED
  BY <1>7, <1>8, <1>9, <1>11, <1>12, <1>13 DEF ScopeInv

-----------------------------------------------------------------------------
(* The theorems.                                                           *)

LEMMA InvariantScope == Spec => [](IInv /\ ScopeInv)
<1>1. Init => IInv /\ ScopeInv
  BY InitIInv, InitScope
<1>2. IInv /\ ScopeInv /\ [Next]_vars => (IInv /\ ScopeInv)'
  <2>. SUFFICES ASSUME IInv, ScopeInv, [Next]_vars PROVE IInv' /\ ScopeInv'
    OBVIOUS
  <2>1. Change
    BY NextChange
  <2>2. ScopeInv'
    BY <2>1, QuietScope, ReturningScope, CallingScope, StartingScope DEF Change
  <2>. QED
    BY <2>1, <2>2, ChangeIInv
<1>. QED
  BY <1>1, <1>2, PTL DEF Spec

\* In every tree, a timeout cancels no call outside of the bounds or the parallel
\* group it was set in (executionTree.go:281-284, flunc.go:49-51).
THEOREM ContextsStayScoped == Spec => []ContextsAreScoped
<1>1. ScopeInv => ContextsAreScoped
  BY DEF ScopeInv, Scoped, ContextsAreScoped
<1>. QED
  BY <1>1, InvariantScope, PTL

\* In every tree, a connection or an output file set up for a command is not given
\* back before the command is cancelled (client.go:165-178, executionTree.go:581-585).
THEOREM SetupOutlivesItsUse == Spec => []SetupOutlivesUse
<1>1. IInv /\ ScopeInv => SetupOutlivesUse
  <2>. SUFFICES ASSUME IInv, ScopeInv, NEW n \in Nodes, status[n] = "running", ~Done(ctx[n]),
                       NEW p \in Above[n], NEW s \in ChildrenOf(p),
                       Kind[s] = "setup", status[s] = "ok"
                PROVE  ctx[s] \subseteq ctx[n]
    BY DEF SetupOutlivesUse, Runs
  <2>1. p \in Nodes /\ status[p] = "running" /\ ctx[p] \subseteq ctx[n]
    BY DEF ScopeInv, Chain, Linked
  <2>2. PICK d \in ChildrenOf(p) : status[d] = "running" /\ ctx[d] \subseteq ctx[n]
    BY ChildRuns DEF ScopeInv
  <2>3. d \in Nodes /\ s # d
    BY <2>1, <2>2, Forest
  <2>4. CASE Kind[p] = "sequential"
    <3>1. d = Current(p) /\ ret[d] = {}
      BY <2>1, <2>2, <2>3, <2>4 DEF IInv, InTurn, RetDerived, Returned
    <3>2. Absorbed(p) = ctx[p]
      BY <3>1 DEF Absorbed, NoCtx
    <3>. QED
      BY <2>1, <2>4, <3>2 DEF ScopeInv, SequentialKeeps, Runs
  <2>5. CASE Kind[p] = "parallel"
    <3>1. ctx[s] \subseteq ctx[p] \cup {p}
      BY <2>1, <2>5 DEF ScopeInv, ParallelKeeps
    <3>2. p \in ctx[d]
      BY <2>1, <2>2, <2>5 DEF IInv, CtxDerived
    <3>. QED
      BY <2>1, <2>2, <3>1, <3>2
  <2>6. CASE Kind[p] = "retry"
    BY <2>1, <2>2, <2>3, <2>6 DEF IInv, InTurn, ScopeInv, LastSucceeds, Runs
  <2>7. CASE Kind[p] \in {"safeguard", "bounds"}
    <3>1. Len(Children[p]) = 1
      BY <2>1, <2>7, ArityAssumption
    <3>2. DOMAIN Children[p] = {1}
      BY <2>1, <3>1, Forest
    <3>. QED
      BY <2>3, <3>2 DEF ChildrenOf
  <2>8. CASE Kind[p] \in Leaves
    BY <2>1, <2>8, LeafCallsNone
  <2>9. Kind[p] \in Kinds
    BY <2>1, ForestAssumption
  <2>. QED
    BY <2>4, <2>5, <2>6, <2>7, <2>8, <2>9 DEF Kinds, Leaves
<1>. QED
  BY <1>1, InvariantScope, PTL

-----------------------------------------------------------------------------
(* What a call reports: the inductive invariant.                           *)

\* The outcome of a call is that of its children, or it was broken off.
Follows(n) ==
    \/ (status[n] = "ok") <=> Fulfils(n, {c \in ChildrenOf(n) : status[c] = "ok"})
    \/ BrokenOff(n)

OutcomeFollows == \A n \in Nodes : Returned(n) => Follows(n)

\* Only a command has a process, and one that failed says so.
Processes == \A n \in Nodes :
    /\ Kind[n] \notin {"command", "localCommand"} => exec[n] = "idle"
    /\ (Kind[n] = "command" /\ status[n] = "err") => exec[n] = "failed"

\* A Parallel receives results of calls that returned, and goes on if they are good.
Delivered ==
    /\ \A c \in taken : Returned(c)
    /\ \A n \in Nodes : Runs(n, "parallel") => \A c \in ChildrenOf(n) \cap taken : status[c] = "ok"

\* The children before the current one succeeded, or, for a Retry, failed.
Passed == \A n \in Nodes : \A i \in DOMAIN Children[n] : i < at[n] =>
    /\ Runs(n, "sequential") => status[Children[n][i]] = "ok"
    /\ Runs(n, "retry") => status[Children[n][i]] = "err"

OutcomeInv == Processes /\ Delivered /\ Passed /\ OutcomeFollows

-----------------------------------------------------------------------------
(* The kinds of change, with what they do to processes and results.        *)

ProcessesKept == \A m \in Nodes : exec'[m] # exec[m] =>
    (status[m] = "running" /\ Kind[m] \in {"command", "localCommand"})

\* No call changes; a result may be received, if it is good.
GoesOn ==
    /\ UNCHANGED callVars /\ cancelled \subseteq cancelled'
    /\ ProcessesKept
    /\ taken \subseteq taken' /\ \A c \in taken' \ taken : c \in Nodes /\ status[c] = "ok"

\* Call n returns r, as its children say.
Ends(n, r) ==
    /\ status[n] = "running" /\ status' = [status EXCEPT ![n] = r]
    /\ UNCHANGED <<ctx, at>> /\ cancelled \subseteq cancelled'
    /\ \A m \in Nodes \ {n} : exec'[m] = exec[m]
    /\ Kind[n] \notin {"command", "localCommand"} => exec'[n] = exec[n]
    /\ (Kind[n] = "command" /\ r = "err") => exec'[n] = "failed"
    /\ taken \subseteq taken' /\ \A c \in taken' \ taken : c \in ChildrenOf(n) /\ Returned(c)
    /\ Follows(n)'

\* Call n calls its next child, after those before it.
Descends(n) ==
    LET c == Children[n][at[n] + 1] IN
    /\ status[n] = "running" /\ Kind[n] # "parallel" /\ More(n)
    /\ status' = [status EXCEPT ![c] = "running"]
    /\ at' = [at EXCEPT ![n] = @ + 1]
    /\ \A m \in Nodes \ {n, c} : ctx'[m] = ctx[m]
    /\ Kind[n] = "sequential" => Proceeds(n)
    /\ (Kind[n] = "retry" /\ at[n] > 0) => status[Current(n)] = "err"
    /\ UNCHANGED <<exec, taken, cancelled>>

Outcome ==
    \/ GoesOn
    \/ \E n \in Nodes, r \in {"ok", "err"} : Ends(n, r)
    \/ \E n \in Nodes : Descends(n) \/ ParallelStarts(n)

-----------------------------------------------------------------------------
(* The invariant survives each kind of change.                             *)

LEMMA NotItsOwnChild == \A n \in Nodes : n \notin ChildrenOf(n)
BY AboveChild, AboveAssumption

LEMMA InitOutcome == Init => OutcomeInv
<1>. SUFFICES ASSUME Init PROVE OutcomeInv
  OBVIOUS
<1>1. /\ \A n \in Nodes : at[n] = 0 /\ exec[n] = "idle" /\ status[n] \in {"idle", "running"}
      /\ taken = {}
  BY DEF Init
<1>2. Processes /\ Delivered /\ OutcomeFollows
  BY <1>1 DEF Processes, Delivered, OutcomeFollows, Returned
<1>3. Passed
  BY <1>1, Forest DEF Passed
<1>. QED
  BY <1>2, <1>3 DEF OutcomeInv

\* A call that has returned keeps its outcome: its children that count have returned.
LEMMA Kept ==
    ASSUME IInv, OutcomeInv, NEW m \in Nodes, Returned(m), status'[m] = status[m],
           \A c \in ChildrenOf(m) :
               status'[c] = status[c] \/ (Kind[m] = "parallel" /\ status[c] = "running"),
           ctx'[m] = ctx[m], exec'[m] = exec[m], cancelled \subseteq cancelled', taken \subseteq taken',
           \A c \in ChildrenOf(m) : c \in taken' \ taken => status[c] = "ok"
    PROVE  Follows(m)'
<1>. DEFINE good == {c \in ChildrenOf(m) : status[c] = "ok"}
<1>1. Follows(m)
  BY DEF OutcomeInv, OutcomeFollows
<1>2. CutOff(m) => CutOff(m)'
  BY DEF CutOff, Done
<1>3. (Kind[m] = "command" /\ status[m] = "err") => exec[m] = "failed"
  BY DEF OutcomeInv, Processes
<1>4. CASE Kind[m] # "parallel"
  <2>1. good' = good
    <3>1. \A c \in ChildrenOf(m) : status'[c] = status[c]
      BY <1>4
    <3>. QED
      BY <3>1
  <2>2. ~BrokenOff(m)
    BY <1>4 DEF BrokenOff
  <2>3. (status[m] = "ok") <=> Fulfils(m, good)
    BY <1>1, <2>2 DEF Follows
  <2>4. CASE Kind[m] = "command"
    <3>1. CutOff(m)' /\ status[m] = "err" => FALSE
      BY <1>3, <2>4 DEF CutOff
    <3>2. Fulfils(m, good) <=> (CutOff(m) \/ exec[m] = "succeeded")
      BY <2>4 DEF Fulfils
    <3>3. Fulfils(m, good)' <=> (CutOff(m)' \/ exec'[m] = "succeeded")
      BY <2>4 DEF Fulfils
    <3>4. status[m] \in {"ok", "err"}
      BY DEF Returned
    <3>. QED
      BY <1>2, <2>3, <3>1, <3>2, <3>3, <3>4 DEF Follows
  <2>5. CASE Kind[m] # "command"
    <3>1. Fulfils(m, good)' <=> Fulfils(m, good)
      BY <1>4, <2>1, <2>5 DEF Fulfils
    <3>. QED
      BY <2>3, <3>1 DEF Follows
  <2>. QED
    BY <2>4, <2>5
<1>5. CASE Kind[m] = "parallel" /\ status[m] = "ok"
  <2>1. CutOff(m) \/ ChildrenOf(m) \subseteq good
    BY <1>1, <1>5 DEF Follows, BrokenOff, Fulfils
  <2>2. ChildrenOf(m) \subseteq good => ChildrenOf(m) \subseteq good'
    OBVIOUS
  <2>3. Fulfils(m, good)'
    BY <1>2, <1>5, <2>1, <2>2 DEF Fulfils
  <2>. QED
    BY <1>5, <2>3 DEF Follows
<1>6. CASE Kind[m] = "parallel" /\ status[m] = "err"
  <2>1. CASE BrokenOff(m)
    <3>1. \A c \in ChildrenOf(m) \cap taken' : status'[c] = "ok"
      BY <2>1 DEF BrokenOff
    <3>. QED
      BY <1>6, <3>1 DEF Follows, BrokenOff
  <2>2. CASE ~BrokenOff(m)
    <3>1. PICK c \in ChildrenOf(m) \cap taken : status[c] # "ok"
      BY <1>6, <2>2 DEF BrokenOff
    <3>2. status[c] = "err" /\ status'[c] = "err"
      BY <3>1 DEF OutcomeInv, Delivered, Returned
    <3>3. ~CutOff(m)' /\ ~(ChildrenOf(m) \subseteq good')
      BY <3>1, <3>2 DEF CutOff
    <3>4. ~Fulfils(m, good)'
      BY <1>6, <3>3 DEF Fulfils
    <3>. QED
      BY <1>6, <3>4 DEF Follows
  <2>. QED
    BY <2>1, <2>2
<1>. QED
  BY <1>4, <1>5, <1>6 DEF Returned

LEMMA GoesOnOutcome == ASSUME IInv, OutcomeInv, GoesOn PROVE OutcomeInv'
<1>1. UNCHANGED <<status, ctx, at>> /\ ProcessesKept
  BY DEF GoesOn, callVars
<1>2. Processes'
  BY <1>1 DEF OutcomeInv, Processes, ProcessesKept
<1>3. Delivered'
  BY <1>1 DEF GoesOn, OutcomeInv, Delivered, Returned, Runs
<1>4. Passed'
  BY <1>1 DEF OutcomeInv, Passed, Runs
<1>5. ASSUME NEW m \in Nodes, Returned(m) PROVE Follows(m)'
  <2>1. exec'[m] = exec[m]
    BY <1>1, <1>5 DEF ProcessesKept, Returned
  <2>. QED
    BY <1>1, <1>5, <2>1, Kept DEF GoesOn
<1>6. OutcomeFollows'
  BY <1>1, <1>5 DEF OutcomeFollows, Returned
<1>. QED
  BY <1>2, <1>3, <1>4, <1>6 DEF OutcomeInv

LEMMA EndsOutcome ==
    ASSUME IInv, OutcomeInv, NEW n \in Nodes, NEW r \in {"ok", "err"}, Ends(n, r)
    PROVE  OutcomeInv'
<1>1. /\ \A m \in Nodes : status'[m] = (IF m = n THEN r ELSE status[m])
      /\ UNCHANGED <<ctx, at>> /\ cancelled \subseteq cancelled' /\ status[n] = "running"
  BY DEF Ends, IInv, TypeOK
<1>2. Processes'
  BY <1>1 DEF Ends, OutcomeInv, Processes
<1>3. Delivered'
  <2>1. \A c \in taken' : c \in Nodes /\ Returned(c)
    BY Forest DEF Ends, OutcomeInv, Delivered, IInv, TypeOK
  <2>2. \A c \in taken' : c # n /\ status'[c] = status[c]
    BY <1>1, <2>1 DEF Returned
  <2>3. ASSUME NEW m \in Nodes, Runs(m, "parallel")', NEW c \in ChildrenOf(m) \cap taken'
        PROVE  status'[c] = "ok"
    <3>1. m # n /\ Runs(m, "parallel")
      BY <1>1, <2>3 DEF Runs
    <3>2. c \in taken
      BY <2>3, <3>1, Forest DEF Ends
    <3>. QED
      BY <2>2, <2>3, <3>1, <3>2 DEF OutcomeInv, Delivered
  <2>. QED
    BY <2>1, <2>2, <2>3 DEF Delivered, Returned
<1>4. Passed'
  <2>. SUFFICES ASSUME NEW p \in Nodes, NEW i \in DOMAIN Children[p], i < at[p], p # n
                PROVE  /\ Runs(p, "sequential") => status'[Children[p][i]] = "ok"
                       /\ Runs(p, "retry") => status'[Children[p][i]] = "err"
    BY <1>1 DEF Passed, Runs
  <2>1. Children[p][i] \in Nodes
    BY Forest
  <2>. QED
    BY <1>1, <2>1 DEF OutcomeInv, Passed
<1>5. ASSUME NEW m \in Nodes, m # n, Returned(m) PROVE Follows(m)'
  <2>1. \A c \in ChildrenOf(m) : c \in Nodes
    BY Forest
  <2>2. n \in ChildrenOf(m) => Kind[m] = "parallel"
    BY <1>1, <1>5 DEF IInv, Awaited, Returned
  <2>3. \A c \in ChildrenOf(m) : c \notin taken' \ taken
    BY <1>5, Forest DEF Ends
  <2>. QED
    BY <1>1, <1>5, <2>1, <2>2, <2>3, Kept DEF Ends
<1>6. OutcomeFollows'
  <2>1. Follows(n)'
    BY DEF Ends
  <2>. QED
    BY <1>1, <1>5, <2>1 DEF OutcomeFollows, Returned
<1>. QED
  BY <1>2, <1>3, <1>4, <1>6 DEF OutcomeInv

LEMMA DescendsOutcome == ASSUME IInv, OutcomeInv, NEW n \in Nodes, Descends(n) PROVE OutcomeInv'
<1>. DEFINE c == Children[n][at[n] + 1]
<1>1. at[n] \in Nat /\ at[n] + 1 \in DOMAIN Children[n]
  BY Forest DEF Descends, More, IInv, TypeOK
<1>2. /\ c \in Nodes /\ c \in ChildrenOf(n) /\ status[c] = "idle" /\ at[c] = 0
      /\ status[n] = "running" /\ Kind[n] # "parallel" /\ c # n
  <2>1. c \in Nodes /\ c \in ChildrenOf(n) /\ status[c] = "idle"
    BY <1>1, Forest DEF Descends, IInv, Fresh
  <2>. QED
    BY <2>1 DEF Descends, IInv, Fresh
<1>3. /\ \A m \in Nodes : status'[m] = (IF m = c THEN "running" ELSE status[m])
      /\ \A m \in Nodes : at'[m] = (IF m = n THEN at[n] + 1 ELSE at[m])
      /\ \A m \in Nodes : (m # n /\ m # c) => ctx'[m] = ctx[m]
      /\ UNCHANGED <<exec, taken, cancelled>>
  BY <1>2 DEF Descends, IInv, TypeOK
<1>4. Processes'
  BY <1>2, <1>3 DEF OutcomeInv, Processes
<1>5. Delivered'
  <2>1. \A d \in taken : d \in Nodes /\ d # c
    BY <1>2 DEF IInv, TypeOK, OutcomeInv, Delivered, Returned
  <2>2. ASSUME NEW m \in Nodes, Runs(m, "parallel")', NEW d \in ChildrenOf(m) \cap taken
        PROVE  status'[d] = "ok"
    <3>1. m # c
      <4>1. m = c => status[d] = "idle"
        BY <1>2, <2>2 DEF IInv, TypeOK
      <4>. QED
        BY <2>2, <4>1 DEF OutcomeInv, Delivered, Returned
    <3>2. Runs(m, "parallel")
      BY <1>3, <2>2, <3>1 DEF Runs
    <3>. QED
      BY <1>3, <2>1, <2>2, <3>2 DEF OutcomeInv, Delivered
  <2>. QED
    BY <1>3, <2>1, <2>2 DEF OutcomeInv, Delivered, Returned
<1>6. Passed'
  <2>. SUFFICES ASSUME NEW p \in Nodes, NEW i \in DOMAIN Children[p], i < at'[p]
                PROVE  /\ Runs(p, "sequential")' => status'[Children[p][i]] = "ok"
                       /\ Runs(p, "retry")' => status'[Children[p][i]] = "err"
    BY DEF Passed
  <2>1. i \in Nat /\ i > 0 /\ p # c /\ Children[p][i] \in Nodes
    BY <1>2, <1>3, Forest
  <2>2. CASE p = n
    <3>1. i < at[n] \/ (i = at[n] /\ Children[p][i] = Current(n) /\ at[n] > 0)
      BY <1>1, <1>3, <2>1, <2>2 DEF Current
    <3>2. /\ Runs(n, "sequential") => status[Children[p][i]] = "ok"
          /\ Runs(n, "retry") => status[Children[p][i]] = "err"
      BY <2>2, <3>1 DEF OutcomeInv, Passed, Descends, Proceeds, Runs
    <3>. QED
      BY <1>2, <1>3, <2>1, <2>2, <3>2 DEF Runs
  <2>3. CASE p # n
    BY <1>2, <1>3, <2>1, <2>3 DEF OutcomeInv, Passed, Runs
  <2>. QED
    BY <2>2, <2>3
<1>7. ASSUME NEW m \in Nodes, Returned(m) PROVE Follows(m)'
  <2>1. m # n /\ m # c
    BY <1>2, <1>7 DEF Returned
  <2>2. \A d \in ChildrenOf(m) : d \in Nodes /\ d # c
    BY <1>2, <2>1, Forest
  <2>. QED
    BY <1>3, <1>7, <2>1, <2>2, Kept
<1>8. OutcomeFollows'
  BY <1>3, <1>7 DEF OutcomeFollows, Returned
<1>. QED
  BY <1>4, <1>5, <1>6, <1>8 DEF OutcomeInv

LEMMA StartsOutcome == ASSUME IInv, OutcomeInv, NEW n \in Nodes, ParallelStarts(n) PROVE OutcomeInv'
<1>1. status[n] = "running" /\ Kind[n] = "parallel" /\ at[n] = 0
  BY DEF ParallelStarts, Runs
<1>2. \A c \in ChildrenOf(n) : c \in Nodes /\ status[c] = "idle" /\ at[c] = 0
  <2>1. \A i \in DOMAIN Children[n] : status[Children[n][i]] = "idle"
    BY <1>1, Forest DEF IInv, Fresh
  <2>. QED
    BY <2>1, Forest DEF ChildrenOf, IInv, Fresh
<1>3. /\ \A m \in Nodes : status'[m] = (IF m \in ChildrenOf(n) THEN "running" ELSE status[m])
      /\ \A m \in Nodes : at'[m] = (IF m = n THEN 1 ELSE at[m])
      /\ \A m \in Nodes : m \notin ChildrenOf(n) => ctx'[m] = ctx[m]
      /\ UNCHANGED <<exec, taken, cancelled>>
  BY DEF ParallelStarts, IInv, TypeOK
<1>4. Processes'
  BY <1>2, <1>3 DEF OutcomeInv, Processes
<1>5. \A c \in taken : c \in Nodes /\ Returned(c) /\ c \notin ChildrenOf(n)
  BY <1>2 DEF IInv, TypeOK, OutcomeInv, Delivered, Returned
<1>6. Delivered'
  <2>1. ASSUME NEW m \in Nodes, Runs(m, "parallel")', NEW d \in ChildrenOf(m) \cap taken
        PROVE  status'[d] = "ok"
    <3>1. m \notin ChildrenOf(n)
      <4>1. m \in ChildrenOf(n) => status[d] = "idle"
        BY <1>2, <2>1 DEF IInv, TypeOK
      <4>. QED
        BY <1>5, <2>1, <4>1 DEF Returned
    <3>. QED
      BY <1>3, <1>5, <2>1, <3>1 DEF OutcomeInv, Delivered, Runs
  <2>. QED
    BY <1>3, <1>5, <2>1 DEF Delivered, Returned
<1>7. Passed'
  <2>. SUFFICES ASSUME NEW p \in Nodes, Kind[p] # "parallel",
                       NEW i \in DOMAIN Children[p], i < at'[p]
                PROVE  /\ Runs(p, "sequential")' => status'[Children[p][i]] = "ok"
                       /\ Runs(p, "retry")' => status'[Children[p][i]] = "err"
    BY DEF Passed, Runs
  <2>1. i \in Nat /\ i > 0 /\ p # n /\ Children[p][i] \in Nodes /\ Children[p][i] \in ChildrenOf(p)
    BY <1>1, Forest
  <2>2. p \notin ChildrenOf(n)
    BY <1>2, <1>3, <2>1
  <2>3. Children[p][i] \notin ChildrenOf(n)
    BY <2>1, Forest
  <2>. QED
    BY <1>3, <2>1, <2>2, <2>3 DEF OutcomeInv, Passed, Runs
<1>8. ASSUME NEW m \in Nodes, Returned(m) PROVE Follows(m)'
  <2>1. m # n /\ m \notin ChildrenOf(n)
    BY <1>1, <1>2, <1>8 DEF Returned
  <2>2. \A d \in ChildrenOf(m) : d \in Nodes /\ d \notin ChildrenOf(n)
    BY <2>1, Forest
  <2>. QED
    BY <1>3, <1>8, <2>1, <2>2, Kept
<1>9. OutcomeFollows'
  BY <1>2, <1>3, <1>8 DEF OutcomeFollows, Returned
<1>. QED
  BY <1>4, <1>6, <1>7, <1>9 DEF OutcomeInv

-----------------------------------------------------------------------------
(* The steps: each is one of these kinds of change.                        *)

\* The statuses after a return.
LEMMA AfterReturn ==
    ASSUME IInv, NEW n \in Nodes, NEW r, NEW x, Return(n, r, x)
    PROVE  /\ status'[n] = r
           /\ \A c \in ChildrenOf(n) : c \in Nodes /\ status'[c] = status[c]
BY Forest, NotItsOwnChild DEF Return, IInv, TypeOK

\* A call that has no process and receives no result returns what its children say.
LEMMA EndsWith ==
    ASSUME NEW n \in Nodes, status[n] = "running",
           NEW r \in {"ok", "err"}, NEW x, Return(n, r, x),
           cancelled \subseteq cancelled', exec' = exec, taken' = taken,
           Kind[n] # "command", Follows(n)'
    PROVE  Outcome
<1>1. Ends(n, r)
  BY DEF Ends, Return
<1>. QED
  BY <1>1 DEF Outcome

\* A call made in turn.
LEMMA CallDescends ==
    ASSUME IInv, NEW n \in Nodes, status[n] = "running", Kind[n] # "parallel", More(n),
           NEW x, NEW y, Call(n, x, y), UNCHANGED <<exec, taken, cancelled>>,
           Kind[n] = "sequential" => Proceeds(n),
           (Kind[n] = "retry" /\ at[n] > 0) => status[Current(n)] = "err"
    PROVE  Outcome
<1>. DEFINE c == Children[n][at[n] + 1]
<1>1. /\ status' = [status EXCEPT ![c] = "running"] /\ at' = [at EXCEPT ![n] = @ + 1]
      /\ ctx' = [ctx EXCEPT ![n] = x, ![c] = y]
  BY DEF Call
<1>2. \A m \in Nodes \ {n, c} : ctx'[m] = ctx[m]
  BY <1>1 DEF IInv, TypeOK
<1>. HIDE DEF c
<1>3. Descends(n)
  BY <1>1, <1>2 DEF Descends, c
<1>. QED
  BY <1>3 DEF Outcome

LEMMA SequentialOutcome ==
    ASSUME IInv, OutcomeInv, NEW n \in Nodes,
           \/ SequentialCalls(n) \/ SequentialCancelled(n)
           \/ SequentialFails(n) \/ SequentialEnds(n)
    PROVE  Outcome
<1>1. status[n] = "running" /\ Kind[n] = "sequential" /\ at[n] \in Nat /\ at[n] <= Len(Children[n])
  BY DEF SequentialCalls, SequentialCancelled, SequentialFails, SequentialEnds, Runs, IInv, TypeOK
<1>. DEFINE good == {c \in ChildrenOf(n) : status[c] = "ok"}
<1>2. Fulfils(n, good)' <=> ChildrenOf(n) \subseteq good'
  BY <1>1 DEF Fulfils
<1>3. CASE SequentialCalls(n)
  <2>1. /\ Proceeds(n) /\ More(n) /\ Call(n, Absorbed(n), Absorbed(n))
        /\ UNCHANGED <<exec, taken, cancelled>>
    BY <1>3 DEF SequentialCalls
  <2>. QED
    BY <1>1, <2>1, CallDescends
<1>4. CASE SequentialCancelled(n)
  <2>1. at[n] + 1 \in DOMAIN Children[n] /\ More(n) /\ Return(n, "err", NoCtx)
    BY <1>1, <1>4, Forest DEF SequentialCancelled, More
  <2>2. Children[n][at[n] + 1] \in ChildrenOf(n) /\ status[Children[n][at[n] + 1]] = "idle"
    BY <1>1, <2>1, Forest DEF IInv, Fresh
  <2>3. Follows(n)'
    BY <1>2, <2>1, <2>2, AfterReturn DEF Follows
  <2>. QED
    BY <1>1, <1>4, <2>1, <2>3, EndsWith DEF SequentialCancelled
<1>5. CASE SequentialFails(n)
  <2>1. Current(n) \in ChildrenOf(n) /\ status[Current(n)] = "err" /\ Return(n, "err", NoCtx)
    BY <1>1, <1>5, CurrentRet DEF SequentialFails
  <2>2. Follows(n)'
    BY <1>2, <2>1, AfterReturn DEF Follows
  <2>. QED
    BY <1>1, <1>5, <2>1, <2>2, EndsWith DEF SequentialFails
<1>6. CASE SequentialEnds(n)
  <2>1. Return(n, "ok", Absorbed(n)) /\ Proceeds(n) /\ at[n] = Len(Children[n])
    BY <1>1, <1>6, Forest DEF SequentialEnds, More
  <2>2. ASSUME NEW i \in DOMAIN Children[n] PROVE status[Children[n][i]] = "ok"
    <3>1. i \in Nat /\ i > 0 /\ (i < at[n] \/ i = at[n])
      BY <1>1, <2>1, Forest
    <3>2. CASE i < at[n]
      BY <1>1, <3>2 DEF OutcomeInv, Passed, Runs
    <3>3. CASE i = at[n]
      BY <2>1, <3>1, <3>3 DEF Proceeds, Current
    <3>. QED
      BY <3>1, <3>2, <3>3
  <2>3. \A c \in ChildrenOf(n) : status[c] = "ok"
    BY <2>2 DEF ChildrenOf
  <2>4. Follows(n)'
    BY <1>2, <2>1, <2>3, AfterReturn DEF Follows
  <2>. QED
    BY <1>1, <1>6, <2>1, <2>4, EndsWith DEF SequentialEnds
<1>. QED
  BY <1>3, <1>4, <1>5, <1>6

LEMMA ParallelOutcome ==
    ASSUME IInv, OutcomeInv, NEW n \in Nodes,
           \/ ParallelSkips(n) \/ ParallelStarts(n) \/ ParallelCancelled(n) \/ ParallelEnds(n)
           \/ \E c \in ChildrenOf(n) : ParallelTakes(n, c) \/ ParallelFails(n, c)
    PROVE  Outcome
<1>1. status[n] = "running" /\ Kind[n] = "parallel"
  BY DEF ParallelSkips, ParallelStarts, ParallelCancelled, ParallelEnds, ParallelTakes,
         ParallelFails, Waits, Runs
<1>. DEFINE good == {c \in ChildrenOf(n) : status[c] = "ok"}
<1>2. Fulfils(n, good)' <=> (CutOff(n)' \/ ChildrenOf(n) \subseteq good')
  BY <1>1 DEF Fulfils
<1>3. \A c \in ChildrenOf(n) \cap taken : status[c] = "ok"
  BY <1>1 DEF OutcomeInv, Delivered, Runs
<1>4. CASE ParallelSkips(n)
  <2>1. Return(n, "ok", NoCtx) /\ Done(ctx[n]) /\ at[n] = 0 /\ UNCHANGED <<exec, taken, cancelled>>
    BY <1>4 DEF ParallelSkips
  <2>2. \A c \in ChildrenOf(n) : status[c] = "idle"
    <3>1. \A i \in DOMAIN Children[n] : status[Children[n][i]] = "idle"
      BY <1>1, <2>1, Forest DEF IInv, Fresh
    <3>. QED
      BY <3>1 DEF ChildrenOf
  <2>3. exec[n] = "idle"
    BY <1>1 DEF OutcomeInv, Processes
  <2>4. CutOff(n)'
    BY <2>1, <2>2, <2>3, AfterReturn DEF CutOff, Done, Return
  <2>5. Follows(n)'
    BY <1>2, <2>1, <2>4, AfterReturn DEF Follows
  <2>. QED
    BY <1>1, <2>1, <2>5, EndsWith
<1>5. CASE ParallelStarts(n)
  BY <1>5 DEF Outcome
<1>6. CASE ParallelCancelled(n)
  <2>1. Return(n, "err", NoCtx) /\ cancelled \subseteq cancelled' /\ UNCHANGED <<exec, taken>>
    BY <1>6 DEF ParallelCancelled, Cancel
  <2>2. BrokenOff(n)'
    BY <1>1, <1>3, <2>1, AfterReturn DEF BrokenOff
  <2>3. Follows(n)'
    BY <2>2 DEF Follows
  <2>. QED
    BY <1>1, <2>1, <2>3, EndsWith
<1>7. CASE ParallelEnds(n)
  <2>1. /\ Return(n, "ok", NoCtx) /\ cancelled \subseteq cancelled' /\ UNCHANGED <<exec, taken>>
        /\ ChildrenOf(n) \subseteq taken
    BY <1>7 DEF ParallelEnds, Cancel
  <2>2. Follows(n)'
    BY <1>2, <1>3, <2>1, AfterReturn DEF Follows
  <2>. QED
    BY <1>1, <2>1, <2>2, EndsWith
<1>8. ASSUME NEW c \in ChildrenOf(n), ParallelTakes(n, c) PROVE Outcome
  <2>1. GoesOn
    BY <1>8, Forest DEF ParallelTakes, GoesOn, ProcessesKept
  <2>. QED
    BY <2>1 DEF Outcome
<1>9. ASSUME NEW c \in ChildrenOf(n), ParallelFails(n, c) PROVE Outcome
  <2>1. /\ Return(n, "err", NoCtx) /\ cancelled \subseteq cancelled' /\ exec' = exec
        /\ taken' = taken \cup {c} /\ Returned(c) /\ status[c] = "err"
    BY <1>9 DEF ParallelFails, Cancel, Offers
  <2>2. ~CutOff(n)'
    BY <2>1, AfterReturn DEF CutOff
  <2>3. Follows(n)'
    BY <1>2, <2>1, <2>2, AfterReturn DEF Follows
  <2>4. Ends(n, "err")
    BY <1>1, <2>1, <2>3 DEF Ends, Return
  <2>. QED
    BY <2>4 DEF Outcome
<1>. QED
  BY <1>4, <1>5, <1>6, <1>7, <1>8, <1>9

LEMMA WrapperOutcome ==
    ASSUME IInv, OutcomeInv, NEW n \in Nodes,
           \/ SafeguardCalls(n) \/ SafeguardReturns(n)
           \/ BoundsCalls(n) \/ BoundsReturns(n)
           \/ RetryCalls(n) \/ RetryReturns(n)
    PROVE  Outcome
<1>1. status[n] = "running" /\ Kind[n] \in {"safeguard", "bounds", "retry"} /\ at[n] \in Nat
  BY DEF SafeguardCalls, SafeguardReturns, BoundsCalls, BoundsReturns, RetryCalls,
         RetryReturns, Runs, IInv, TypeOK
<1>. DEFINE good == {c \in ChildrenOf(n) : status[c] = "ok"}
<1>2. CASE SafeguardCalls(n) \/ BoundsCalls(n)
  <2>1. Kind[n] \in {"safeguard", "bounds"} /\ at[n] = 0
    BY <1>2 DEF SafeguardCalls, BoundsCalls, Runs
  <2>2. Len(Children[n]) = 1
    BY <2>1, ArityAssumption
  <2>3. More(n)
    BY <2>1, <2>2 DEF More
  <2>4. PICK y : Call(n, ctx[n], y) /\ UNCHANGED <<exec, taken, cancelled>>
    BY <1>2 DEF SafeguardCalls, BoundsCalls
  <2>. QED
    BY <1>1, <2>1, <2>3, <2>4, CallDescends
<1>3. CASE RetryCalls(n)
  <2>1. /\ Kind[n] = "retry" /\ More(n) /\ (at[n] > 0 => status[Current(n)] = "err")
        /\ Call(n, ctx[n], ctx[n]) /\ UNCHANGED <<exec, taken, cancelled>>
    BY <1>3 DEF RetryCalls, Runs
  <2>. QED
    BY <1>1, <2>1, CallDescends
<1>4. CASE SafeguardReturns(n)
  <2>1. /\ Return(n, "ok", IF status[Current(n)] = "ok" THEN ret[Current(n)] ELSE NoCtx)
        /\ Kind[n] = "safeguard" /\ UNCHANGED <<exec, taken, cancelled>>
    BY <1>4 DEF SafeguardReturns, Runs
  <2>2. Fulfils(n, good)'
    BY <2>1 DEF Fulfils
  <2>3. Follows(n)'
    BY <2>1, <2>2, AfterReturn DEF Follows
  <2>. QED
    BY <1>1, <2>1, <2>3, EndsWith
<1>5. CASE BoundsReturns(n)
  <2>1. /\ Return(n, status[Current(n)], NoCtx) /\ cancelled \subseteq cancelled'
        /\ Kind[n] = "bounds" /\ at[n] = 1 /\ UNCHANGED <<exec, taken>>
        /\ status[Current(n)] \in {"ok", "err"}
    BY <1>5 DEF BoundsReturns, Runs, Returned, Cancel
  <2>2. ChildrenOf(n) = {Current(n)}
    <3>1. Len(Children[n]) = 1
      BY <2>1, ArityAssumption
    <3>2. DOMAIN Children[n] = {1}
      BY <3>1, Forest
    <3>. QED
      BY <2>1, <3>2 DEF ChildrenOf, Current
  <2>3. Fulfils(n, good)' <=> ChildrenOf(n) \subseteq good'
    BY <2>1 DEF Fulfils
  <2>4. Follows(n)'
    BY <2>1, <2>2, <2>3, AfterReturn DEF Follows
  <2>. QED
    BY <1>1, <2>1, <2>4, EndsWith
<1>6. CASE RetryReturns(n)
  <2>1. /\ Return(n, status[Current(n)], ret[Current(n)]) /\ UNCHANGED <<exec, taken, cancelled>>
        /\ Kind[n] = "retry" /\ at[n] > 0
        /\ status[Current(n)] = "ok" \/ (status[Current(n)] = "err" /\ ~More(n))
    BY <1>6 DEF RetryReturns, Runs
  <2>2. Current(n) \in ChildrenOf(n)
    BY <1>1, <2>1, CurrentRet
  <2>3. Fulfils(n, good)' <=> ChildrenOf(n) \cap good' # {}
    BY <2>1 DEF Fulfils
  <2>4. CASE status[Current(n)] = "ok"
    <3>1. Follows(n)'
      BY <2>1, <2>2, <2>3, <2>4, AfterReturn DEF Follows
    <3>. QED
      BY <1>1, <2>1, <2>4, <3>1, EndsWith
  <2>5. CASE status[Current(n)] = "err" /\ ~More(n)
    <3>1. at[n] = Len(Children[n])
      BY <1>1, <2>1, <2>5, Forest DEF More, IInv, TypeOK
    <3>2. ASSUME NEW i \in DOMAIN Children[n] PROVE status[Children[n][i]] = "err"
      <4>1. i \in Nat /\ (i < at[n] \/ i = at[n])
        BY <1>1, <3>1, Forest
      <4>2. CASE i < at[n]
        BY <1>1, <2>1, <4>2 DEF OutcomeInv, Passed, Runs
      <4>3. CASE i = at[n]
        BY <2>5, <4>3 DEF Current
      <4>. QED
        BY <4>1, <4>2, <4>3
    <3>3. \A c \in ChildrenOf(n) : status[c] = "err"
      BY <3>2 DEF ChildrenOf
    <3>4. Follows(n)'
      BY <2>1, <2>3, <2>5, <3>3, AfterReturn DEF Follows
    <3>. QED
      BY <1>1, <2>1, <2>5, <3>4, EndsWith
  <2>. QED
    BY <2>1, <2>4, <2>5
<1>. QED
  BY <1>2, <1>3, <1>4, <1>5, <1>6

LEMMA LeafOutcome ==
    ASSUME IInv, OutcomeInv, NEW n \in Nodes,
           \/ Timeout(n) \/ Setup(n)
           \/ CommandSkips(n) \/ CommandPasses(n) \/ CommandStarts(n)
           \/ CommandLeft(n) \/ CommandEnds(n)
           \/ LocalStarts(n) \/ LocalKilled(n)
    PROVE  Outcome
<1>1. status[n] = "running" /\ Kind[n] \in Leaves
  BY DEF Timeout, Setup, CommandSkips, CommandPasses, CommandStarts, CommandLeft, CommandEnds,
         LocalStarts, LocalKilled, Runs, Leaves
<1>2. ChildrenOf(n) = {}
  BY <1>1, LeafCallsNone
<1>3. exec \in [Nodes -> {"idle", "starting", "running", "succeeded", "failed", "left"}]
  BY DEF IInv, TypeOK
<1>. DEFINE good == {c \in ChildrenOf(n) : status[c] = "ok"}
\* A command goes on.
<1>4. ASSUME Kind[n] \in {"command", "localCommand"}, NEW e, Exec(n, e), UNCHANGED callVars,
             UNCHANGED <<root, taken, dropped, cancelled>>
      PROVE  Outcome
  <2>1. GoesOn
    BY <1>1, <1>3, <1>4 DEF GoesOn, ProcessesKept, Exec
  <2>. QED
    BY <2>1 DEF Outcome
\* A process ends, or is left, and its command returns.
<1>5. ASSUME Kind[n] \in {"command", "localCommand"}, NEW e, exec' = [exec EXCEPT ![n] = e],
             NEW r \in {"ok", "err"}, Return(n, r, NoCtx),
             UNCHANGED <<root, taken, dropped, cancelled>>,
             \/ r = "ok" /\ e = "succeeded"
             \/ r = "ok" /\ Kind[n] = "command" /\ e \in {"idle", "left"} /\ Done(ctx[n])
             \/ r = "err" /\ e = "failed"
      PROVE  Outcome
  <2>1. exec'[n] = e /\ status'[n] = r
    BY <1>3, <1>5, AfterReturn
  <2>2. CutOff(n)' <=> (e \in {"idle", "left"} /\ Done(ctx[n]))
    BY <1>2, <1>5, <2>1 DEF CutOff, Done, Return
  <2>3. Fulfils(n, good)' <=> (e = "succeeded" \/ (Kind[n] = "command" /\ CutOff(n)'))
    BY <1>5, <2>1 DEF Fulfils
  <2>4. Follows(n)'
    BY <1>5, <2>1, <2>2, <2>3 DEF Follows
  <2>5. Ends(n, r)
    BY <1>1, <1>3, <1>5, <2>1, <2>4 DEF Ends, Return
  <2>. QED
    BY <2>5 DEF Outcome
<1>6. CASE Timeout(n) \/ Setup(n)
  <2>1. PICK r \in {"ok", "err"}, x \in {ctx[n], ctx[n] \cup {n}, NoCtx} : Return(n, r, x)
    BY <1>6 DEF Timeout, Setup
  <2>2. Kind[n] \in {"timeout", "setup"} /\ UNCHANGED <<exec, taken, cancelled>>
    BY <1>6 DEF Timeout, Setup, Runs
  <2>3. Fulfils(n, good)' <=> status'[n] = "ok"
    BY <2>2 DEF Fulfils
  <2>4. Follows(n)'
    BY <2>3 DEF Follows
  <2>. QED
    BY <1>1, <2>1, <2>2, <2>4, EndsWith
<1>7. CASE CommandSkips(n)
  <2>1. exec' = [exec EXCEPT ![n] = "idle"]
    BY <1>3, <1>7 DEF CommandSkips
  <2>. QED
    BY <1>5, <1>7, <2>1 DEF CommandSkips, Runs
<1>8. CASE CommandPasses(n)
  BY <1>4, <1>8 DEF CommandPasses, Runs
<1>9. CASE CommandStarts(n)
  <2>1. CASE Exec(n, "running") /\ UNCHANGED callVars
    BY <1>4, <1>9, <2>1 DEF CommandStarts, Runs
  <2>2. CASE Exec(n, "failed") /\ Return(n, "err", NoCtx)
    BY <1>5, <1>9, <2>2 DEF CommandStarts, Runs, Exec
  <2>. QED
    BY <1>9, <2>1, <2>2 DEF CommandStarts
<1>10. CASE CommandLeft(n)
  BY <1>5, <1>10 DEF CommandLeft, Runs, Exec
<1>11. CASE CommandEnds(n)
  <2>1. CASE Exec(n, "succeeded") /\ Return(n, "ok", NoCtx)
    BY <1>5, <1>11, <2>1 DEF CommandEnds, Runs, Exec
  <2>2. CASE Exec(n, "failed") /\ Return(n, "err", NoCtx)
    BY <1>5, <1>11, <2>2 DEF CommandEnds, Runs, Exec
  <2>. QED
    BY <1>11, <2>1, <2>2 DEF CommandEnds
<1>12. CASE LocalStarts(n)
  <2>1. CASE Exec(n, "running") /\ UNCHANGED callVars
    BY <1>4, <1>12, <2>1 DEF LocalStarts, Runs
  <2>2. CASE Exec(n, "failed") /\ Return(n, "err", NoCtx)
    BY <1>5, <1>12, <2>2 DEF LocalStarts, Runs, Exec
  <2>. QED
    BY <1>12, <2>1, <2>2 DEF LocalStarts
<1>13. CASE LocalKilled(n)
  BY <1>5, <1>13 DEF LocalKilled, Runs, Exec
<1>. QED
  BY <1>6, <1>7, <1>8, <1>9, <1>10, <1>11, <1>12, <1>13

LEMMA OtherOutcome ==
    ASSUME \/ \E n \in Nodes : TimerFires(n) \/ \E c \in ChildrenOf(n) : ChildDrops(n, c)
           \/ JobCancelled \/ JobReleased \/ UNCHANGED vars
    PROVE  Outcome
<1>1. UNCHANGED <<callVars, exec, taken>> /\ cancelled \subseteq cancelled'
  BY DEF TimerFires, ChildDrops, JobCancelled, JobReleased, vars, Cancel
<1>. QED
  BY <1>1 DEF Outcome, GoesOn, ProcessesKept

LEMMA NextOutcome == IInv /\ OutcomeInv /\ [Next]_vars => OutcomeInv'
<1>. SUFFICES ASSUME IInv, OutcomeInv, [Next]_vars PROVE OutcomeInv'
  OBVIOUS
<1>1. Outcome
  <2>1. ASSUME NEW n \in Nodes, Step(n) PROVE Outcome
    <3>1. CASE TimerFires(n) \/ \E c \in ChildrenOf(n) : ChildDrops(n, c)
      BY <3>1, OtherOutcome
    <3>. QED
      BY <2>1, <3>1, SequentialOutcome, ParallelOutcome, WrapperOutcome, LeafOutcome DEF Step
  <2>2. ASSUME NEW n \in Nodes, Outside(n) PROVE Outcome
    BY <2>2, LeafOutcome DEF Outside
  <2>3. CASE JobCancelled \/ JobReleased \/ Finished \/ UNCHANGED vars
    BY <2>3, OtherOutcome DEF Finished
  <2>. QED
    BY <2>1, <2>2, <2>3 DEF Next
<1>. QED
  BY <1>1, GoesOnOutcome, EndsOutcome, DescendsOutcome, StartsOutcome DEF Outcome

-----------------------------------------------------------------------------
(* The theorem.                                                            *)

\* In every tree, a call that has returned reports what follows from the reports of
\* the calls it made, or is a group that was cancelled while it waited; and it goes
\* on to do so while stragglers still run (flunc.go, executionTree.go).
THEOREM OutcomeFollowsFromChildren == Spec => []OutcomeFollows
<1>1. Init => IInv /\ OutcomeInv
  BY InitIInv, InitOutcome
<1>2. IInv /\ OutcomeInv /\ [Next]_vars => (IInv /\ OutcomeInv)'
  BY NextOutcome, NextChange, ChangeIInv
<1>3. OutcomeInv => OutcomeFollows
  BY DEF OutcomeInv
<1>. QED
  BY <1>1, <1>2, <1>3, PTL DEF Spec

-----------------------------------------------------------------------------
(* From the children to the tree.                                          *)

LEMMA ChildNotAbove == \A n \in Nodes : \A c \in ChildrenOf(n) :
    c \in Nodes /\ Above[c] = Above[n] \cup {n} /\ n \notin Above[n]
BY AboveChild, AboveAssumption, Forest

LEMMA SubsetsWellFounded == IsWellFoundedOn(StrictSubsetOrdering(Nodes), SUBSET Nodes)
<1>1. FiniteSubsetsOf(Nodes) = SUBSET Nodes
  BY ForestAssumption, FS_FiniteSubsetsOfFinite
<1>. QED
  BY <1>1, FS_StrictSubsetOrderingWellFounded

\* Induction over the tree: of any calls, one has no child among them...
LEMMA Lowest ==
    ASSUME NEW S \in SUBSET Nodes, S # {}
    PROVE  \E n \in S : ChildrenOf(n) \cap S = {}
<1>. DEFINE T == {Nodes \ Above[n] : n \in S}
<1>1. T \subseteq SUBSET Nodes /\ T # {}
  OBVIOUS
<1>2. \E x \in T : \A y \in T : <<y, x>> \notin StrictSubsetOrdering(Nodes)
  <2>. HIDE DEF T
  <2>. QED
    BY <1>1, SubsetsWellFounded, WFMin
<1>3. PICK n \in S : \A m \in S : <<Nodes \ Above[m], Nodes \ Above[n]>> \notin StrictSubsetOrdering(Nodes)
  BY <1>2
<1>4. ASSUME NEW c \in ChildrenOf(n) \cap S PROVE FALSE
  <2>1. /\ Nodes \ Above[c] \subseteq Nodes \ Above[n]
        /\ n \in Nodes \ Above[n] /\ n \notin Nodes \ Above[c]
    BY ChildNotAbove
  <2>. QED
    BY <1>3, <1>4, <2>1 DEF StrictSubsetOrdering
<1>. QED
  BY <1>4

\* ...and one has no parent among them.
LEMMA Highest ==
    ASSUME NEW S \in SUBSET Nodes, S # {}
    PROVE  \E n \in S : Parents(n) \cap S = {}
<1>. DEFINE T == {Above[n] \cap Nodes : n \in S}
<1>1. T \subseteq SUBSET Nodes /\ T # {}
  OBVIOUS
<1>2. \E x \in T : \A y \in T : <<y, x>> \notin StrictSubsetOrdering(Nodes)
  <2>. HIDE DEF T
  <2>. QED
    BY <1>1, SubsetsWellFounded, WFMin
<1>3. PICK n \in S : \A m \in S : <<Above[m] \cap Nodes, Above[n] \cap Nodes>> \notin StrictSubsetOrdering(Nodes)
  BY <1>2
<1>4. ASSUME NEW q \in Parents(n) \cap S PROVE FALSE
  <2>1. Above[q] \subseteq Above[n] /\ q \in Above[n] /\ q \notin Above[q]
    BY AboveAssumption
  <2>. QED
    BY <1>3, <1>4, <2>1 DEF StrictSubsetOrdering
<1>. QED
  BY <1>4

LEMMA AboveTransitive ==
    ASSUME NEW p \in Nodes, NEW m \in Nodes \cap Above[p] PROVE Above[m] \subseteq Above[p]
<1>. DEFINE S == {n \in Nodes : \E d \in Nodes \cap Above[n] : ~(Above[d] \subseteq Above[n])}
<1>1. ASSUME S # {} PROVE FALSE
  <2>1. PICK n \in S : Parents(n) \cap S = {}
    BY <1>1, Highest
  <2>2. PICK d \in Nodes \cap Above[n] : ~(Above[d] \subseteq Above[n])
    OBVIOUS
  <2>3. Above[n] = Parents(n) \cup UNION {Above[q] : q \in Parents(n)}
    BY AboveAssumption
  <2>4. CASE d \in Parents(n)
    BY <2>2, <2>3, <2>4
  <2>5. ASSUME NEW q \in Parents(n), d \in Above[q] PROVE FALSE
    <3>1. q \in Nodes /\ q \notin S
      BY <2>1 DEF Parents
    <3>2. Above[d] \subseteq Above[q]
      BY <2>5, <3>1
    <3>. QED
      BY <2>2, <2>3, <3>2
  <2>. QED
    BY <2>3, <2>4, <2>5
<1>. QED
  BY <1>1

\* The equation of Succeeds, for the calls in D.
Equation(n, S) == status[n] # "idle" /\ Fulfils(n, ChildrenOf(n) \cap S)
Solves(S, D) == \A n \in D : n \in S <=> Equation(n, S)
Closed(D) == D \subseteq Nodes /\ \A n \in D : ChildrenOf(n) \subseteq D

\* A solution for some calls and all below them extends to one more call.
LEMMA Extends ==
    ASSUME NEW D, Closed(D), NEW S, Solves(S, D), NEW n \in Nodes \ D, ChildrenOf(n) \subseteq D
    PROVE  Closed(D \cup {n}) /\ \E U : Solves(U, D \cup {n})
<1>. DEFINE U == (S \cap D) \cup {m \in {n} : Equation(m, S)}
<1>1. \A m \in D \cup {n} : ChildrenOf(m) \subseteq D /\ ChildrenOf(m) \cap U = ChildrenOf(m) \cap S
  BY DEF Closed
<1>2. \A m \in D \cup {n} : Equation(m, U) <=> Equation(m, S)
  <2>. HIDE DEF U
  <2>. QED
    BY <1>1 DEF Equation
<1>3. \A m \in D : m \in U <=> m \in S
  OBVIOUS
<1>4. n \in U <=> Equation(n, S)
  OBVIOUS
<1>5. Solves(U, D \cup {n})
  <2>. HIDE DEF U
  <2>. QED
    BY <1>2, <1>3, <1>4 DEF Solves
<1>6. Closed(D \cup {n})
  BY DEF Closed
<1>. QED
  BY <1>5, <1>6

LEMMA SolutionExists == \E S : Solves(S, Nodes)
<1>. DEFINE T == {R \in SUBSET Nodes : Closed(Nodes \ R) /\ \E S : Solves(S, Nodes \ R)}
<1>1. Nodes \in T
  <2>1. Nodes \ Nodes = {}
    OBVIOUS
  <2>2. Closed({}) /\ Solves({}, {})
    BY DEF Closed, Solves
  <2>. QED
    BY <2>1, <2>2
<1>2. \E R \in T : \A Q \in T : <<Q, R>> \notin StrictSubsetOrdering(Nodes)
  <2>1. T \subseteq SUBSET Nodes
    OBVIOUS
  <2>. HIDE DEF T
  <2>. QED
    BY <1>1, <2>1, SubsetsWellFounded, WFMin
<1>3. PICK R \in T : \A Q \in T : <<Q, R>> \notin StrictSubsetOrdering(Nodes)
  BY <1>2
<1>4. CASE R = {}
  <2>1. Nodes \ R = Nodes
    BY <1>4
  <2>. QED
    BY <2>1
<1>5. ASSUME R # {} PROVE FALSE
  <2>1. PICK n \in R : ChildrenOf(n) \cap R = {}
    BY <1>5, Lowest
  <2>2. n \in Nodes /\ n \in Nodes \ (Nodes \ R) /\ ChildrenOf(n) \subseteq Nodes \ R
    BY <2>1, Forest
  <2>3. PICK S : Solves(S, Nodes \ R)
    OBVIOUS
  <2>4. Closed((Nodes \ R) \cup {n}) /\ \E U : Solves(U, (Nodes \ R) \cup {n})
    BY <2>2, <2>3, Extends
  <2>5. (Nodes \ R) \cup {n} = Nodes \ (R \ {n})
    BY <2>2
  <2>6. R \ {n} \in T
    BY <2>4, <2>5
  <2>7. <<R \ {n}, R>> \in StrictSubsetOrdering(Nodes)
    BY <2>1 DEF StrictSubsetOrdering
  <2>. QED
    BY <1>3, <2>6, <2>7
<1>. QED
  BY <1>4, <1>5

\* The recursion of Succeeds ends: its equation holds.
LEMMA SucceedsUnfolds ==
    \A n \in Nodes : Succeeds[n] <=> (status[n] # "idle" /\ Fulfils(n, {c \in ChildrenOf(n) : Succeeds[c]}))
<1>1. PICK S : Solves(S, Nodes)
  BY SolutionExists
<1>. DEFINE eq(g) == [n \in Nodes |-> status[n] # "idle" /\ Fulfils(n, {c \in ChildrenOf(n) : g[c]})]
            h == [n \in Nodes |-> n \in S]
<1>2. \A n \in Nodes : h[n] = (n \in S)
  OBVIOUS
<1>3. \A n \in Nodes : {c \in ChildrenOf(n) : h[c]} = ChildrenOf(n) \cap S
  BY <1>2, Forest
<1>4. \A n \in Nodes : (n \in S) = (status[n] # "idle" /\ Fulfils(n, {c \in ChildrenOf(n) : h[c]}))
  <2>. HIDE DEF h
  <2>. SUFFICES ASSUME NEW n \in Nodes
                PROVE  (n \in S) = (status[n] # "idle" /\ Fulfils(n, {c \in ChildrenOf(n) : h[c]}))
    OBVIOUS
  <2>1. n \in S <=> (status[n] # "idle" /\ Fulfils(n, ChildrenOf(n) \cap S))
    BY <1>1 DEF Solves, Equation
  <2>2. n \in S <=> (status[n] # "idle" /\ Fulfils(n, {c \in ChildrenOf(n) : h[c]}))
    BY <1>3, <2>1
  <2>. QED
    BY <2>2
<1>5. h = eq(h)
  BY <1>4
<1>6. Succeeds = CHOOSE g : g = eq(g)
  BY DEF Succeeds
<1>7. Succeeds = eq(Succeeds)
  <2>. HIDE DEF eq, h
  <2>. QED
    BY <1>5, <1>6, Zenon
<1>. QED
  BY <1>7

\* More good children do no harm, and without children any will do.
LEMMA FulfilsMore ==
    ASSUME NEW n \in Nodes, NEW A, NEW B, A \subseteq B, Fulfils(n, A)
    PROVE  Fulfils(n, B)
<1>1. Kind[n] \in Kinds
  BY ForestAssumption
<1>2. CASE Kind[n] \in {"sequential", "bounds", "parallel"}
  BY <1>2 DEF Fulfils
<1>3. CASE Kind[n] \in {"retry", "safeguard"}
  BY <1>3 DEF Fulfils
<1>4. CASE Kind[n] \in Leaves
  BY <1>4 DEF Fulfils, Leaves
<1>. QED
  BY <1>1, <1>2, <1>3, <1>4 DEF Kinds, Leaves

\* A failure that no call had.
Broken(n) == status[n] = "err" /\ \E p \in Nodes : BrokenOff(p) /\ (p = n \/ n \in Above[p])
Agrees(n) == Returned(n) => ((status[n] = "ok") <=> Succeeds[n]) \/ Broken(n)

LEMMA BrokenAbove ==
    ASSUME NEW n \in Nodes, status[n] = "err", NEW c \in ChildrenOf(n), Broken(c)
    PROVE  Broken(n)
<1>1. PICK p \in Nodes : BrokenOff(p) /\ (p = c \/ c \in Above[p])
  BY DEF Broken
<1>2. c \in Nodes /\ n \in Above[c]
  BY ChildNotAbove
<1>3. n \in Above[p]
  BY <1>1, <1>2, AboveTransitive
<1>. QED
  BY <1>1, <1>3 DEF Broken

\* The step of the induction: what holds of the children holds of the call.
LEMMA AgreesUp ==
    ASSUME IInv, OutcomeInv, NEW n \in Nodes, \A c \in ChildrenOf(n) : Agrees(c)
    PROVE  Agrees(n)
<1>. SUFFICES ASSUME Returned(n), ~Broken(n) PROVE (status[n] = "ok") <=> Succeeds[n]
  BY DEF Agrees
<1>. DEFINE good == {c \in ChildrenOf(n) : status[c] = "ok"}
            succeeding == {c \in ChildrenOf(n) : Succeeds[c]}
<1>1. ~BrokenOff(n)
  BY DEF Broken, BrokenOff
<1>2. (status[n] = "ok") <=> Fulfils(n, good)
  BY <1>1 DEF OutcomeInv, OutcomeFollows, Follows
<1>3. Succeeds[n] <=> Fulfils(n, succeeding)
  BY SucceedsUnfolds DEF Returned
<1>4. \A c \in ChildrenOf(n) : status[c] = "ok" => Succeeds[c]
  BY DEF Agrees, Returned, Broken
<1>5. good \subseteq succeeding
  BY <1>4
<1>. HIDE DEF good, succeeding
<1>6. CASE status[n] = "ok"
  <2>1. Fulfils(n, succeeding)
    BY <1>2, <1>5, <1>6, FulfilsMore
  <2>. QED
    BY <1>3, <1>6, <2>1
<1>7. CASE status[n] = "err"
  <2>1. ASSUME NEW c \in ChildrenOf(n), Returned(c), status[c] = "err" PROVE ~Succeeds[c]
    <3>1. ~Broken(c)
      BY <1>7, BrokenAbove
    <3>. QED
      BY <2>1, <3>1 DEF Agrees
  <2>2. CASE Kind[n] = "parallel"
    <3>1. PICK c \in ChildrenOf(n) \cap taken : status[c] # "ok"
      BY <1>1, <1>7, <2>2 DEF BrokenOff
    <3>2. Returned(c) /\ status[c] = "err"
      BY <3>1 DEF OutcomeInv, Delivered, Returned
    <3>3. c \in ChildrenOf(n) /\ ~Succeeds[c] /\ status[c] # "idle"
      BY <2>1, <3>1, <3>2
    <3>4. ~Fulfils(n, succeeding)
      BY <2>2, <3>3 DEF Fulfils, CutOff, succeeding
    <3>. QED
      BY <1>3, <1>7, <3>4
  <2>3. CASE Kind[n] # "parallel"
    <3>1. ASSUME NEW c \in ChildrenOf(n), Succeeds[c] PROVE status[c] = "ok"
      <4>1. c \in Nodes
        BY Forest
      <4>2. status[c] # "idle"
        BY <3>1, <4>1, SucceedsUnfolds
      <4>3. status[c] # "running"
        BY <1>7, <2>3 DEF IInv, Awaited
      <4>4. status[c] \in {"ok", "err"}
        BY <4>1, <4>2, <4>3 DEF IInv, TypeOK
      <4>. QED
        BY <2>1, <3>1, <4>4 DEF Returned
    <3>2. succeeding \subseteq good
      BY <3>1 DEF succeeding, good
    <3>3. Fulfils(n, succeeding) => Fulfils(n, good)
      BY <3>2, FulfilsMore
    <3>. QED
      BY <1>2, <1>3, <1>7, <3>3
  <2>. QED
    BY <2>2, <2>3
<1>. QED
  BY <1>6, <1>7 DEF Returned

\* What a job reports is what its commands' outcomes make of it, told without time,
\* order or goroutines; the only exception is the race of a timeout with the
\* commands it has cut off (OutcomeAgrees).
THEOREM OutcomesAgree == Spec => []OutcomeAgrees
<1>1. ASSUME IInv, OutcomeInv PROVE OutcomeAgrees
  <2>. DEFINE S == {n \in Nodes : ~Agrees(n)}
  <2>1. ASSUME S # {} PROVE FALSE
    <3>1. PICK n \in S : ChildrenOf(n) \cap S = {}
      BY <2>1, Lowest
    <3>2. n \in Nodes /\ ~Agrees(n) /\ \A c \in ChildrenOf(n) : Agrees(c)
      BY <3>1, Forest
    <3>. QED
      BY <1>1, <3>2, AgreesUp
  <2>2. \A n \in Nodes : Agrees(n)
    BY <2>1
  <2>. QED
    BY <2>2 DEF Agrees, Broken, OutcomeAgrees
<1>2. Init => IInv /\ OutcomeInv
  BY InitIInv, InitOutcome
<1>3. IInv /\ OutcomeInv /\ [Next]_vars => (IInv /\ OutcomeInv)'
  BY NextOutcome, NextChange, ChangeIInv
<1>. QED
  BY <1>1, <1>2, <1>3, PTL DEF Spec

=============================================================================
