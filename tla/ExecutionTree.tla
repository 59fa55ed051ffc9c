---------------------------- MODULE ExecutionTree ----------------------------
(***************************************************************************)
(* The run of a job as a tree of fluncs: flunc/flunc.go and                *)
(* job/executionTree.go.  A node is one call of one flunc, so the attempts *)
(* of a Retry are numRetries copies of its child.  A node runs in the      *)
(* goroutine of its parent, except the children of a Parallel, which have  *)
(* one each and may outlive their parent: a straggler.                     *)
(*                                                                         *)
(* A context is the set of the sources that cancel it: Job (the context    *)
(* runInfo.run makes) and the nodes that made a WithCancel or WithTimeout. *)
(* It is done once one of them is cancelled.                               *)
(***************************************************************************)
EXTENDS Integers, Sequences, FiniteSets

CONSTANTS
    Nodes,     \* a forest of calls
    Roots,     \* the trees of the forest: one is the job that runs
    Kind,      \* the flunc of each node
    Children,  \* the sequence of its children
    Retries,   \* the "retries" of the command of each Retry: its numRetries
    Job

Kinds == {"sequential", "parallel", "safeguard", "bounds", "retry",
          "timeout", "setup", "command", "localCommand"}
Leaves == {"timeout", "setup", "command", "localCommand"}

ChildrenOf(n) == {Children[n][i] : i \in DOMAIN Children[n]}

ASSUME JobAssumption == Job \notin Nodes
ASSUME ForestAssumption ==
    /\ IsFiniteSet(Nodes) /\ Roots \subseteq Nodes
    /\ Kind \in [Nodes -> Kinds]
    /\ Children \in [Nodes -> Seq(Nodes)]
    /\ \A r \in Roots, n \in Nodes : r \notin ChildrenOf(n)
    /\ \A m, n \in Nodes : \A i \in DOMAIN Children[m], j \in DOMAIN Children[n] :
          Children[m][i] = Children[n][j] => (m = n /\ i = j)
ASSUME ArityAssumption == \A n \in Nodes :
    /\ Kind[n] \in Leaves => Children[n] = <<>>
    /\ Kind[n] \in {"safeguard", "bounds"} => Len(Children[n]) = 1
    /\ Kind[n] = "retry" => (Retries[n] > 0 /\ Len(Children[n]) = Retries[n])

\* The calls that enclose each call.
Parents(n) == {p \in Nodes : n \in ChildrenOf(p)}
Above == LET A[n \in Nodes] == Parents(n) \cup UNION {A[p] : p \in Parents(n)}
         IN  [n \in Nodes |-> A[n]]

\* No call encloses itself: the recursion ends, and its equation holds of Above.
ASSUME AboveAssumption == \A n \in Nodes :
    /\ n \notin Above[n]
    /\ Above[n] = Parents(n) \cup UNION {Above[p] : p \in Parents(n)}

VARIABLES
    root,       \* the job that runs
    status,     \* "idle" (not called), "running", or what the call returned
    ctx,        \* the context of each call: of a Sequential, its variable ctx
    ret,        \* the context a call returned
    at,         \* the number of children a Sequential, Retry... has called
    exec,       \* the process of a command
    taken,      \* children whose result a Parallel received
    dropped,    \* children whose goroutine ended without delivering
    cancelled   \* the sources that are cancelled

callVars == <<status, ctx, ret, at>>
vars == <<root, callVars, exec, taken, dropped, cancelled>>

Contexts == SUBSET (Nodes \cup {Job})
NoCtx == {}   \* nil: a context has at least the source Job
Done(x) == x \cap cancelled # {}

Returned(n) == status[n] \in {"ok", "err"}
Current(n) == Children[n][at[n]]
More(n) == at[n] < Len(Children[n])
Runs(n, kind) == Kind[n] = kind /\ status[n] = "running"

Init ==
    /\ root \in Roots
    /\ status = [n \in Nodes |-> IF n = root THEN "running" ELSE "idle"]
    /\ ctx = [n \in Nodes |-> IF n = root THEN {Job} ELSE NoCtx]
    /\ ret = [n \in Nodes |-> NoCtx]
    /\ at = [n \in Nodes |-> 0]
    /\ exec = [n \in Nodes |-> "idle"]
    /\ taken = {} /\ dropped = {} /\ cancelled = {}

\* n, now under context x, calls its next child under context y.
Call(n, x, y) ==
    LET c == Children[n][at[n] + 1] IN
    /\ status' = [status EXCEPT ![c] = "running"]
    /\ ctx' = [ctx EXCEPT ![n] = x, ![c] = y]
    /\ at' = [at EXCEPT ![n] = @ + 1]
    /\ UNCHANGED ret

Return(n, result, x) ==
    /\ status' = [status EXCEPT ![n] = result]
    /\ ret' = [ret EXCEPT ![n] = x]
    /\ UNCHANGED <<ctx, at>>

Cancel(n) == cancelled' = cancelled \cup {n}

-----------------------------------------------------------------------------
(* Sequential.                                                             *)

\* The variable ctx after the call of the current child.
Absorbed(n) == IF at[n] = 0 \/ ret[Current(n)] = NoCtx THEN ctx[n] ELSE ret[Current(n)]
Proceeds(n) == at[n] > 0 => status[Current(n)] = "ok"

SequentialCalls(n) ==
    /\ Runs(n, "sequential") /\ Proceeds(n) /\ More(n)
    /\ ~Done(Absorbed(n))
    /\ Call(n, Absorbed(n), Absorbed(n))
    /\ UNCHANGED <<root, exec, taken, dropped, cancelled>>

\* The context is done before the next child is called.
SequentialCancelled(n) ==
    /\ Runs(n, "sequential") /\ Proceeds(n) /\ More(n)
    /\ Done(Absorbed(n))
    /\ Return(n, "err", NoCtx)
    /\ UNCHANGED <<root, exec, taken, dropped, cancelled>>

\* Mutant of SequentialFails: the context is returned with the error.
SequentialFailsWithCtx(n) ==
    /\ Runs(n, "sequential") /\ at[n] > 0 /\ status[Current(n)] = "err"
    /\ Return(n, "err", ctx[n])
    /\ UNCHANGED <<root, exec, taken, dropped, cancelled>>

SequentialFails(n) ==
    /\ Runs(n, "sequential") /\ at[n] > 0 /\ status[Current(n)] = "err"
    /\ Return(n, "err", NoCtx)
    /\ UNCHANGED <<root, exec, taken, dropped, cancelled>>

SequentialEnds(n) ==
    /\ Runs(n, "sequential") /\ Proceeds(n) /\ ~More(n)
    /\ Return(n, "ok", Absorbed(n))
    /\ UNCHANGED <<root, exec, taken, dropped, cancelled>>

-----------------------------------------------------------------------------
(* Parallel: at is 1 once its children are started.  It cancels the        *)
(* context it made for them whenever it returns.                           *)

\* A done context is not an error here.
ParallelSkips(n) ==
    /\ Runs(n, "parallel") /\ at[n] = 0 /\ Done(ctx[n])
    /\ Return(n, "ok", NoCtx)
    /\ UNCHANGED <<root, exec, taken, dropped, cancelled>>

ParallelStarts(n) ==
    /\ Runs(n, "parallel") /\ at[n] = 0 /\ ~Done(ctx[n])
    /\ status' = [m \in Nodes |-> IF m \in ChildrenOf(n) THEN "running" ELSE status[m]]
    /\ ctx' = [m \in Nodes |-> IF m \in ChildrenOf(n) THEN ctx[n] \cup {n} ELSE ctx[m]]
    /\ at' = [at EXCEPT ![n] = 1]
    /\ UNCHANGED <<root, ret, exec, taken, dropped, cancelled>>

\* The loop is at its select: it still waits for a child.
Waits(n) == Runs(n, "parallel") /\ at[n] = 1 /\ ~ChildrenOf(n) \subseteq taken
Offers(c) == Returned(c) /\ c \notin taken \cup dropped

ParallelTakes(n, c) ==
    /\ Waits(n) /\ c \in ChildrenOf(n) /\ Offers(c) /\ status[c] = "ok"
    /\ taken' = taken \cup {c}
    /\ UNCHANGED <<root, callVars, exec, dropped, cancelled>>

\* Mutant of ParallelFails: the siblings are not cancelled.
ParallelFailsAlone(n, c) ==
    /\ Waits(n) /\ c \in ChildrenOf(n) /\ Offers(c) /\ status[c] = "err"
    /\ taken' = taken \cup {c}
    /\ Return(n, "err", NoCtx)
    /\ UNCHANGED <<root, exec, dropped, cancelled>>

ParallelFails(n, c) ==
    /\ Waits(n) /\ c \in ChildrenOf(n) /\ Offers(c) /\ status[c] = "err"
    /\ taken' = taken \cup {c}
    /\ Return(n, "err", NoCtx) /\ Cancel(n)
    /\ UNCHANGED <<root, exec, dropped>>

ParallelCancelled(n) ==
    /\ Waits(n) /\ Done(ctx[n])
    /\ Return(n, "err", NoCtx) /\ Cancel(n)
    /\ UNCHANGED <<root, exec, taken, dropped>>

ParallelEnds(n) ==
    /\ Runs(n, "parallel") /\ at[n] = 1 /\ ChildrenOf(n) \subseteq taken
    /\ Return(n, "ok", NoCtx) /\ Cancel(n)
    /\ UNCHANGED <<root, exec, taken, dropped>>

\* Mutant of ChildDrops: the result is sent without a look at the context.
ChildDropsNever(n, c) == FALSE /\ UNCHANGED vars

\* The goroutine of a child gives up: its context is done.
ChildDrops(n, c) ==
    /\ Kind[n] = "parallel" /\ c \in ChildrenOf(n) /\ Offers(c)
    /\ Done(ctx[n] \cup {n})
    /\ dropped' = dropped \cup {c}
    /\ UNCHANGED <<root, callVars, exec, taken, cancelled>>

-----------------------------------------------------------------------------
(* ErrorSafeguard, ContextBounds and Retry.                                *)

SafeguardCalls(n) ==
    /\ Runs(n, "safeguard") /\ at[n] = 0
    /\ Call(n, ctx[n], ctx[n])
    /\ UNCHANGED <<root, exec, taken, dropped, cancelled>>

SafeguardReturns(n) ==
    /\ Runs(n, "safeguard") /\ at[n] = 1 /\ Returned(Current(n))
    /\ Return(n, "ok", IF status[Current(n)] = "ok" THEN ret[Current(n)] ELSE NoCtx)
    /\ UNCHANGED <<root, exec, taken, dropped, cancelled>>

\* Mutant of BoundsCalls: the context is made from the background context.
BoundsCallsDetached(n) ==
    /\ Runs(n, "bounds") /\ at[n] = 0
    /\ Call(n, ctx[n], {n})
    /\ UNCHANGED <<root, exec, taken, dropped, cancelled>>

BoundsCalls(n) ==
    /\ Runs(n, "bounds") /\ at[n] = 0
    /\ Call(n, ctx[n], ctx[n] \cup {n})
    /\ UNCHANGED <<root, exec, taken, dropped, cancelled>>

\* Mutant of BoundsReturns: the context of the child gets out.
BoundsReturnsCtx(n) ==
    /\ Runs(n, "bounds") /\ at[n] = 1 /\ Returned(Current(n))
    /\ Return(n, status[Current(n)], ret[Current(n)])
    /\ UNCHANGED <<root, exec, taken, dropped, cancelled>>

BoundsReturns(n) ==
    /\ Runs(n, "bounds") /\ at[n] = 1 /\ Returned(Current(n))
    /\ Return(n, status[Current(n)], NoCtx) /\ Cancel(n)
    /\ UNCHANGED <<root, exec, taken, dropped>>

\* Mutant of RetryCalls: no break after an attempt that succeeded.
RetryCallsOn(n) ==
    /\ Runs(n, "retry") /\ More(n)
    /\ at[n] > 0 => Returned(Current(n))
    /\ Call(n, ctx[n], ctx[n])
    /\ UNCHANGED <<root, exec, taken, dropped, cancelled>>

\* The next of numRetries attempts, whatever the context.
RetryCalls(n) ==
    /\ Runs(n, "retry") /\ More(n)
    /\ at[n] > 0 => status[Current(n)] = "err"
    /\ Call(n, ctx[n], ctx[n])
    /\ UNCHANGED <<root, exec, taken, dropped, cancelled>>

RetryReturns(n) ==
    /\ Runs(n, "retry") /\ at[n] > 0
    /\ \/ status[Current(n)] = "ok"
       \/ status[Current(n)] = "err" /\ ~More(n)
    /\ Return(n, status[Current(n)], ret[Current(n)])
    /\ UNCHANGED <<root, exec, taken, dropped, cancelled>>

-----------------------------------------------------------------------------
(* Leaves.                                                                 *)

\* Mutant of Timeout: the new context is assigned to a variable of its own.
TimeoutShadowed(n) ==
    /\ Runs(n, "timeout")
    /\ Return(n, "ok", ctx[n])
    /\ UNCHANGED <<root, exec, taken, dropped, cancelled>>

Timeout(n) ==
    /\ Runs(n, "timeout")
    /\ Return(n, "ok", ctx[n] \cup {n})
    /\ UNCHANGED <<root, exec, taken, dropped, cancelled>>

\* The timer of a context that is not done yet expires.
TimerFires(n) ==
    /\ Kind[n] = "timeout" /\ Returned(n) /\ ~Done(ret[n])
    /\ Cancel(n)
    /\ UNCHANGED <<root, callVars, exec, taken, dropped>>

\* Output, Stdout, Stderr, the loggers, SSHClient: each adds a value to the
\* context, which leaves it as it is here, or fails.  None looks at ctx.Done.
Setup(n) ==
    /\ Runs(n, "setup")
    /\ \/ Return(n, "ok", ctx[n])
       \/ Return(n, "err", NoCtx)
    /\ UNCHANGED <<root, exec, taken, dropped, cancelled>>

Exec(n, state) == exec' = [exec EXCEPT ![n] = state]

\* executeCommand: a done context is not an error.
CommandSkips(n) ==
    /\ Runs(n, "command") /\ exec[n] = "idle" /\ Done(ctx[n])
    /\ Return(n, "ok", NoCtx)
    /\ UNCHANGED <<root, exec, taken, dropped, cancelled>>

CommandPasses(n) ==
    /\ Runs(n, "command") /\ exec[n] = "idle" /\ ~Done(ctx[n])
    /\ Exec(n, "starting")
    /\ UNCHANGED <<root, callVars, taken, dropped, cancelled>>

\* NewSession and Start: the context is not looked at again.
CommandStarts(n) ==
    /\ Runs(n, "command") /\ exec[n] = "starting"
    /\ \/ Exec(n, "running") /\ UNCHANGED callVars
       \/ Exec(n, "failed") /\ Return(n, "err", NoCtx)
    /\ UNCHANGED <<root, taken, dropped, cancelled>>

\* Mutant of CommandLeft: only the end of the session is waited for.
CommandLeftNever(n) == FALSE /\ UNCHANGED vars

\* The session is closed and the command left to the host: again no error.
CommandLeft(n) ==
    /\ Runs(n, "command") /\ exec[n] = "running" /\ Done(ctx[n])
    /\ Exec(n, "left") /\ Return(n, "ok", NoCtx)
    /\ UNCHANGED <<root, taken, dropped, cancelled>>

\* A command, remote or local, ends by itself.
CommandEnds(n) ==
    /\ Runs(n, "command") \/ Runs(n, "localCommand")
    /\ exec[n] = "running"
    /\ \/ Exec(n, "succeeded") /\ Return(n, "ok", NoCtx)
       \/ Exec(n, "failed") /\ Return(n, "err", NoCtx)
    /\ UNCHANGED <<root, taken, dropped, cancelled>>

\* cmd.Run refuses a done context; the program may also fail to start.
LocalStarts(n) ==
    /\ Runs(n, "localCommand") /\ exec[n] = "idle"
    /\ \/ ~Done(ctx[n]) /\ Exec(n, "running") /\ UNCHANGED callVars
       \/ Exec(n, "failed") /\ Return(n, "err", NoCtx)
    /\ UNCHANGED <<root, taken, dropped, cancelled>>

LocalKilled(n) ==
    /\ Runs(n, "localCommand") /\ exec[n] = "running" /\ Done(ctx[n])
    /\ Exec(n, "failed") /\ Return(n, "err", NoCtx)
    /\ UNCHANGED <<root, taken, dropped, cancelled>>

-----------------------------------------------------------------------------
(* The run: executor.go.                                                   *)

\* executor.Remove or a shutdown cancels the run.
JobCancelled ==
    /\ status[root] = "running" /\ Job \notin cancelled
    /\ Cancel(Job)
    /\ UNCHANGED <<root, callVars, exec, taken, dropped>>

\* The deferred cancel of runInfo.run.
JobReleased ==
    /\ Returned(root) /\ Job \notin cancelled
    /\ Cancel(Job)
    /\ UNCHANGED <<root, callVars, exec, taken, dropped>>

\* The run is over: none of its calls is left.
Finished ==
    /\ Job \in cancelled /\ \A n \in Nodes : status[n] # "running"
    /\ UNCHANGED vars

\* What call n does, its children that wait to deliver and its timer included,
\* without waiting for anything outside of the program.
Step(n) ==
    \/ /\ status[n] = "running"
       /\ \/ SequentialCalls(n) \/ SequentialCancelled(n) \/ SequentialFails(n) \/ SequentialEnds(n)
          \/ ParallelSkips(n) \/ ParallelStarts(n) \/ ParallelCancelled(n) \/ ParallelEnds(n)
          \/ \E c \in ChildrenOf(n) : ParallelTakes(n, c) \/ ParallelFails(n, c)
          \/ SafeguardCalls(n) \/ SafeguardReturns(n)
          \/ BoundsCalls(n) \/ BoundsReturns(n)
          \/ RetryCalls(n) \/ RetryReturns(n)
          \/ Timeout(n)
          \/ CommandSkips(n) \/ CommandPasses(n) \/ CommandLeft(n)
          \/ LocalStarts(n) \/ LocalKilled(n)
    \/ \E c \in ChildrenOf(n) : ChildDrops(n, c)
    \/ TimerFires(n)

\* What waits for a host, or for a process that may run for ever.
Outside(n) ==
    /\ status[n] = "running"
    /\ Setup(n) \/ CommandStarts(n) \/ CommandEnds(n)

Next ==
    \/ \E n \in Nodes : Step(n) \/ Outside(n)
    \/ JobCancelled \/ JobReleased
    \/ Finished

Spec == Init /\ [][Next]_vars

\* Goroutines run, time passes, and the deferred cancel is called.  A finite tree
\* has finitely many such steps, so one that stays enabled is taken in the end.
FairSpec == Spec /\ WF_vars((\E n \in Nodes : Step(n)) \/ JobReleased)

-----------------------------------------------------------------------------
(* Properties.                                                             *)

\* The types; an error comes with no context; only a parent calls.
TypeOK ==
    /\ root \in Roots
    /\ status \in [Nodes -> {"idle", "running", "ok", "err"}]
    /\ ctx \in [Nodes -> Contexts]
    /\ ret \in [Nodes -> Contexts]
    /\ at \in [Nodes -> Nat]
    /\ exec \in [Nodes -> {"idle", "starting", "running", "succeeded", "failed", "left"}]
    /\ taken \in SUBSET Nodes /\ dropped \in SUBSET Nodes
    /\ cancelled \in Contexts
    /\ \A n \in Nodes : Kind[n] # "parallel" => at[n] <= Len(Children[n])
    /\ \A n \in Nodes : status[n] = "err" => ret[n] = NoCtx
    /\ \A n \in Nodes : \A c \in ChildrenOf(n) : status[n] = "idle" => status[c] = "idle"

\* flunc.go:53-55: a call that goes on after its parent has returned runs under
\* a context that is done, and whatever cancels a call cancels what it called.
StragglersCancelled ==
    \A n \in Nodes : \A c \in ChildrenOf(n) : status[c] = "running" =>
        /\ ctx[n] \subseteq ctx[c]
        /\ Returned(n) => Done(ctx[c])

Boundaries == [n \in Nodes |-> {b \in Above[n] \cup {n} : Kind[b] \in {"bounds", "parallel"}}]

\* executionTree.go:281-284, flunc.go:49-51: what a command (or a host) does to
\* the context ends with it.  Its timeout cancels no call outside of the bounds
\* or the parallel group it was set in.
ContextsAreScoped ==
    \A n \in Nodes : status[n] = "running" =>
        \A s \in ctx[n] \ {Job} : Boundaries[s] \subseteq Above[n]

\* client.go:165-178, executionTree.go:581-585: the connection of a host and the
\* output files of a command are given back when the context they were made
\* under is done.  A command that may use one is cancelled by then: whatever
\* cancels them cancels it, unless it is a straggler, which is cancelled already.
SetupOutlivesUse ==
    \A n \in Nodes : (Runs(n, "command") \/ Runs(n, "localCommand")) =>
        \A p \in Above[n] : \A s \in ChildrenOf(p) :
            (Kind[s] = "setup" /\ status[s] = "ok") => (Done(ctx[n]) \/ ctx[s] \subseteq ctx[n])

\* A Parallel or a command that found its context done.
CutOff(n) == /\ exec[n] \in {"idle", "left"} /\ Done(ctx[n])
             /\ \A c \in ChildrenOf(n) : status[c] = "idle"

\* Whether call n is a success if, of its children, those in good are.
Fulfils(n, good) ==
    CASE Kind[n] \in {"sequential", "bounds"} -> ChildrenOf(n) \subseteq good
      [] Kind[n] = "parallel"     -> CutOff(n) \/ ChildrenOf(n) \subseteq good
      [] Kind[n] = "retry"        -> ChildrenOf(n) \cap good # {}
      [] Kind[n] = "safeguard"    -> TRUE
      [] Kind[n] = "command"      -> CutOff(n) \/ exec[n] = "succeeded"
      [] Kind[n] = "localCommand" -> exec[n] = "succeeded"
      [] OTHER                    -> status[n] = "ok"

\* What a tree promises, evaluated without time, order or goroutines.
Succeeds[n \in Nodes] ==
    status[n] # "idle" /\ Fulfils(n, {c \in ChildrenOf(n) : Succeeds[c]})

\* A Parallel that was cancelled while it waited, with no failure in its hands.
BrokenOff(n) ==
    /\ Kind[n] = "parallel" /\ status[n] = "err"
    /\ \A c \in ChildrenOf(n) \cap taken : status[c] = "ok"

\* A call reports success if its commands succeeded (one attempt, for a retry;
\* none, under a safeguard), else failure.  A remote command that its timeout cut
\* off counts as one that succeeded; a group of them that waits for the last may
\* notice the timeout first, and only then is the failure one that no call had.
OutcomeAgrees ==
    \A n \in Nodes : Returned(n) =>
        \/ (status[n] = "ok") <=> Succeeds[n]
        \/ status[n] = "err" /\ \E p \in Nodes : BrokenOff(p) /\ (p = n \/ n \in Above[p])

\* A call to the host is under way; no context interrupts it.
NetworkWait == \E n \in Nodes : Runs(n, "setup") \/ (Runs(n, "command") /\ exec[n] = "starting")

\* README.md:353: what is cancelled, by its timeout or otherwise, returns, even
\* when a command of it would run for ever; a wait for a host may prevent it.
CancelledCallsReturn ==
    <>[]~NetworkWait => <>[](\A n \in Nodes : status[n] = "running" => ~Done(ctx[n]))

\* README.md:184: a job with a timeout ends.
TimeLimitHolds ==
    (/\ <>[]~NetworkWait
     /\ \E t \in ChildrenOf(root) : Kind[t] = "timeout") => <>Returned(root)

\* flunc.go:80-83: no goroutine of a Parallel waits for ever to deliver a result.
ResultsAreCollected ==
    <>[](\A n \in Nodes : Kind[n] = "parallel" => \A c \in ChildrenOf(n) : ~Offers(c))

\* executionTree.go:300-302, README.md:351: a command that failed was retried as
\* often as configured, after its first attempt.
RetriesMade == \A n \in Nodes : (Kind[n] = "retry" /\ status[n] = "err") => at[n] - 1 = Retries[n]

=============================================================================
