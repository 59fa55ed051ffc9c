------------------------------- MODULE JobTree -------------------------------
(***************************************************************************)
(* What the tree of a job does when it is called: job/executionTree.go and *)
(* flunc/flunc.go over the nodes of JobConfig, with the instrumentation of *)
(* telemetry/telemetry.go around each of them.  ExecutionTree has the      *)
(* interleavings; this module has the values the fluncs hand on in their   *)
(* contexts.                                                               *)
(*                                                                         *)
(* A run is a record [nodes, telemetry, faults, cut].  faults[t] is the    *)
(* number of attempts at the thing t (a command, a host, a file, a         *)
(* duration that elapses) that fail.  cut tells two schedules of a         *)
(* Parallel apart: once a child has failed, the children after it start    *)
(* with the context cancelled, or all have ended before it failed.         *)
(***************************************************************************)
EXTENDS JobConfig

\* A logger: the real one ("" if none), inside telemetry loggers of nodes.
NoLogger == [wraps |-> <<>>, real |-> ""]

\* timeouts are those set so far.  attempt is no value of the context: it counts
\* the calls of the nearest Retry, for faults.
Background ==
    [output |-> "", logger |-> NoLogger, sshClient |-> "", templating |-> "",
     stdout |-> "", stderr |-> "", timeouts |-> {}, done |-> FALSE, attempt |-> 1]
Nil == <<>>

Available(ctx, key) ==
    IF key = "logger" THEN ctx.logger # NoLogger ELSE ctx[key] # ""

Result(err, ctx, trace) == [err |-> err, ctx |-> ctx, trace |-> trace]

-----------------------------------------------------------------------------
(* Fluncs without a child.                                                  *)

Fails(run, thing, attempt) ==
    thing \in DOMAIN run.faults /\ attempt <= run.faults[thing]

\* The values a flunc takes out of the context and fails without.
Needs(node, ctx) ==
    CASE node.kind = "Output" ->
            IF ctx.output # "" \/ node.arg = "" THEN {} ELSE {"templating"}
      [] node.kind \in {"JobLogger", "HostLogger"} -> {"output"}
      [] node.kind \in {"Timeout", "SCP", "SSHClient"} -> {"logger"}
      [] node.kind \in {"Forwarding", "Tunnel"} -> {"logger", "sshClient"}
      [] node.kind = "Command" -> {"logger", "sshClient", "templating"}
      [] node.kind = "LocalCommand" -> {"logger", "templating"}
      [] node.kind \in {"Stdout", "Stderr"} ->
            IF node.arg = "null" THEN {} ELSE {"logger", "templating"}
      [] OTHER -> {}

Output(ctx, file) ==
    IF ctx.output # "" THEN ctx
    ELSE [ctx EXCEPT !.output = IF file = "" THEN "os.Stdout" ELSE file]

Logger(ctx, name) == [ctx EXCEPT !.logger = [wraps |-> <<>>, real |-> name]]

Timeout(run, ctx, d) ==
    [ctx EXCEPT !.timeouts = @ \cup {d}, !.done = @ \/ Fails(run, d, 1)]

Templating(ctx, host) == [ctx EXCEPT !.templating = host]
SSHClient(ctx, addr) == [ctx EXCEPT !.sshClient = addr]
Stdout(ctx, file) == [ctx EXCEPT !.stdout = file]
Stderr(ctx, file) == [ctx EXCEPT !.stderr = file]

\* The context a flunc returns.
Returns(run, node, ctx) ==
    CASE node.kind = "Templating" -> <<Templating(ctx, node.arg)>>
      [] node.kind = "Output" -> <<Output(ctx, node.arg)>>
      [] node.kind \in {"JobLogger", "HostLogger"} -> <<Logger(ctx, node.arg)>>
      [] node.kind = "Timeout" -> <<Timeout(run, ctx, node.arg)>>
      [] node.kind = "SSHClient" -> <<SSHClient(ctx, node.arg)>>
      [] node.kind = "Stdout" -> <<Stdout(ctx, node.arg)>>
      [] node.kind = "Stderr" -> <<Stderr(ctx, node.arg)>>
      [] OTHER -> Nil

\* What a flunc does outside the context.
Calls == {"Command", "LocalCommand", "Forwarding", "Tunnel", "SCP"}
Call(node, ctx) ==
    [type |-> "call", what |-> node.arg,
     sshClient |-> IF node.kind \in {"LocalCommand", "SCP"} THEN "" ELSE ctx.sshClient,
     templating |-> ctx.templating, logger |-> ctx.logger.real,
     stdout |-> ctx.stdout, stderr |-> ctx.stderr,
     timeouts |-> ctx.timeouts, attempt |-> ctx.attempt]

\* An elapsed timeout is no error, and the errors of forwardRemote, forwardTunnel
\* and doSCP are only logged.  SCP fails if its key file cannot be read.
CanFail == {"Output", "Stdout", "Stderr", "SSHClient", "Command", "LocalCommand", "SCP"}

Leaf(run, id, ctx) ==
    LET node == run.nodes[id]
        lacking == {key \in Needs(node, ctx) : ~Available(ctx, key)}
        did == IF node.kind \in Calls THEN <<Call(node, ctx)>> ELSE <<>>
    IN  IF lacking # {} THEN Result(TRUE, Nil, <<[type |-> "lack", what |-> lacking]>>)
        ELSE IF node.kind \in CanFail /\ Fails(run, node.arg, ctx.attempt)
             THEN Result(TRUE, Nil, IF node.kind = "SCP" THEN <<>> ELSE did)
             ELSE Result(FALSE, Returns(run, node, ctx), did)

-----------------------------------------------------------------------------
(* Fluncs with children.                                                    *)

RECURSIVE Exec(_, _, _)

Sequential(run, kids, ctx) ==
    LET step(acc, kid) ==
            IF acc.err THEN acc
            ELSE IF acc.ctx[1].done THEN [acc EXCEPT !.err = TRUE, !.ctx = Nil]
            ELSE LET r == Exec(run, kid, acc.ctx[1]) IN
                 Result(r.err,
                        IF r.err THEN Nil ELSE IF r.ctx = Nil THEN acc.ctx ELSE r.ctx,
                        acc.trace \o r.trace)
    IN  FoldLeft(step, Result(FALSE, <<ctx>>, <<>>), kids)

Parallel(run, kids, ctx) ==
    LET step(acc, kid) ==
            LET r == Exec(run, kid, [ctx EXCEPT !.done = run.cut /\ acc.err]) IN
            Result(acc.err \/ r.err, Nil, acc.trace \o r.trace)
    IN  IF ctx.done THEN Result(FALSE, Nil, <<>>)
        ELSE FoldLeft(step, Result(FALSE, Nil, <<>>), kids)

NeedsLogger(ctx, result) ==
    IF Available(ctx, "logger") THEN result
    ELSE Result(TRUE, Nil, <<[type |-> "lack", what |-> {"logger"}]>>)

ErrorSafeguard(run, kid, ctx) ==
    LET r == Exec(run, kid, ctx) IN
    NeedsLogger(ctx, IF r.err THEN Result(FALSE, Nil, r.trace) ELSE r)

ContextBounds(run, kid, ctx) == [Exec(run, kid, ctx) EXCEPT !.ctx = Nil]

Retry(run, kid, ctx, numRetries) ==
    LET attempt(i) == Exec(run, kid, [ctx EXCEPT !.attempt = i])
        step(acc, i) ==
            IF ~acc.err THEN acc
            ELSE LET r == attempt(i) IN Result(r.err, r.ctx, acc.trace \o r.trace)
    IN  NeedsLogger(ctx, FoldLeft(step, Result(TRUE, Nil, <<>>),
                                  [i \in 1..numRetries |-> i]))

Flunc(run, id, ctx) ==
    LET node == run.nodes[id] IN
    CASE node.kind \in {"Job", "Host", "Commands", "Sequential"} ->
            Sequential(run, node.kids, ctx)
      [] node.kind \in {"Hosts", "Parallel"} -> Parallel(run, node.kids, ctx)
      [] node.kind = "ErrorSafeguard" -> ErrorSafeguard(run, node.kids[1], ctx)
      [] node.kind = "ContextBounds" -> ContextBounds(run, node.kids[1], ctx)
      [] node.kind = "Retry" -> Retry(run, node.kids[1], ctx, node.arg)
      [] OTHER -> Leaf(run, id, ctx)

\* Mutant of findOriginalLogger: it gives up at a telemetry logger.
findNoLogger(logger) == IF logger.wraps = <<>> THEN logger ELSE NoLogger

\* The logger under all telemetry loggers.
findOriginalLogger(logger) == [logger EXCEPT !.wraps = <<>>]

\* A flunc with the events of its start and its end, and a logger of its own.
instrument(run, id, ctx) ==
    LET orig == findOriginalLogger(ctx.logger)
        r == Flunc(run, id, [ctx EXCEPT !.logger = [orig EXCEPT !.wraps = <<id>>]])
    IN  [r EXCEPT !.trace = <<[type |-> "start", what |-> id]>> \o @
                            \o <<[type |-> IF r.err THEN "failed" ELSE "end", what |-> id]>>]

Exec(run, id, ctx) ==
    IF run.telemetry THEN instrument(run, id, ctx) ELSE Flunc(run, id, ctx)

=============================================================================
