-------------------------------- MODULE JobRun --------------------------------
(***************************************************************************)
(* A job from its configuration to its telemetry: executor.go's parse and  *)
(* the body of runInfo.run, over JobConfig, JobTree and Telemetry.         *)
(***************************************************************************)
EXTENDS Telemetry, FiniteSetsExt

CONSTANTS
    Configs,    \* configurations, as a caller of the package may build them
    MaxFaulty,  \* bound: the things of a run that fail
    MaxFails    \* bound: the attempts at one of them that fail

ASSUME BoundsAssumption == MaxFaulty \in Nat /\ MaxFails \in Nat \ {0}

VARIABLES
    config,
    phase,     \* "given", "loaded", "rejected", "panicked", "ready", "ran", "reported"
    order,     \* the order in which VisitConfig ranged over the hosts
    tree,      \* the nodes of the tree
    run,       \* the faults and the schedule of the run
    result,    \* the error of the tree and what happened
    timing,    \* per host what telemetry reports, and the order of its own visit
    shown      \* the status the visualization shows for each node

vars == <<config, phase, order, tree, run, result, timing, shown>>

NoRun == [nodes |-> <<>>, telemetry |-> FALSE, faults |-> <<>>, cut |-> FALSE]
NoTiming == [order |-> <<>>, hosts |-> <<>>, jobRuntime |-> 0]

Init ==
    /\ config \in Configs
    /\ phase = "given"
    /\ order = <<>> /\ tree = <<>> /\ run = NoRun
    /\ result = Result(FALSE, Nil, <<>>)
    /\ timing = NoTiming /\ shown = <<>>

\* The orders in which the hosts of c may be visited.
Orders(c) ==
    IF c.hosts = <<>> \/ \E i \in DOMAIN c.hosts : ~Usable(c.hosts[i]) THEN {<<>>}
    ELSE SetToSeqs(DOMAIN readHostsFiles(c.hosts))

-----------------------------------------------------------------------------

Load ==
    /\ phase = "given"
    /\ config' \in {config, ReadConfig(config)}
    /\ phase' = "loaded"
    /\ UNCHANGED <<order, tree, run, result, timing, shown>>

\* Instrument asserts the type of the tree before it returns the error.
Parse ==
    /\ phase = "loaded"
    /\ order' \in Orders(config)
    /\ LET visit == VisitConfig(config, order') IN
       /\ phase' = CASE visit.out = "ok" -> "ready"
                     [] visit.out = "err" /\ ~config.telemetry -> "rejected"
                     [] OTHER -> "panicked"
       /\ tree' = IF visit.out = "ok" THEN visit.nodes ELSE <<>>
    /\ UNCHANGED <<config, run, result, timing, shown>>

\* What can fail in the tree.
Things == {tree[id].arg : id \in NodesOfKind(tree, CanFail \cup {"Timeout"})} \ {"", "null"}

Job == 1   \* the root of a tree

Run ==
    /\ phase = "ready"
    /\ \E n \in 0..MaxFaulty : \E faulty \in kSubset(n, Things) :
       \E faults \in [faulty -> 1..MaxFails], cut \in BOOLEAN :
          run' = [nodes |-> tree, telemetry |-> config.telemetry,
                  faults |-> faults, cut |-> cut]
    /\ result' = Exec(run', Job, Background)
    /\ phase' = "ran"
    /\ UNCHANGED <<config, order, tree, timing, shown>>

HostsOf(t, nodes) ==
    [h \in {nodes[id].arg : id \in DOMAIN t} |->
        t[CHOOSE id \in DOMAIN t : nodes[id].arg = h]]

\* sendTelemetry, and xTelemetry's view of the tree.
Report ==
    /\ phase = "ran" /\ config.telemetry
    /\ \E again \in Orders(config) :
          LET nodes == VisitConfig(config, again).nodes
              events == Events(result.trace)
              t == ApplyTiming(nodes, events)
          IN  /\ timing' = [order |-> again, hosts |-> HostsOf(t.nodes, nodes),
                            jobRuntime |-> t.jobRuntime]
              /\ shown' = ApplyVisualization(nodes, events)
    /\ phase' = "reported"
    /\ UNCHANGED <<config, order, tree, run, result>>

Over ==
    /\ \/ phase \in {"rejected", "panicked", "reported"}
       \/ phase = "ran" /\ ~config.telemetry
    /\ UNCHANGED vars

Next == Load \/ Parse \/ Run \/ Report \/ Over
Spec == Init /\ [][Next]_vars

-----------------------------------------------------------------------------
(* What a configuration means, told from the configuration alone.          *)

CallsOf(trace) == SelectSeq(trace, LAMBDA e : e.type = "call")

Scope(r, timeouts, where) ==
    [sshClient |-> IF where = NoHost THEN "" ELSE where, templating |-> where,
     logger |-> where, stdout |-> "", stderr |-> "", timeouts |-> timeouts,
     attempt |-> 1, done |-> FALSE]

CallIn(s, what, local) ==
    [type |-> "call", what |-> what, sshClient |-> IF local THEN "" ELSE s.sshClient,
     templating |-> s.templating, logger |-> s.logger, stdout |-> s.stdout,
     stderr |-> s.stderr, timeouts |-> s.timeouts, attempt |-> s.attempt]

Meant(ok, calls) == [ok |-> ok, calls |-> calls]

RECURSIVE Meaning(_, _, _)

\* One attempt at a command in the scope s.
Attempt(r, cmd, s) ==
    LET files == {f \in ToSet(cmd.stdout) \cup ToSet(cmd.stderr) : f # "null"}
        inner == [s EXCEPT !.stdout = IF cmd.stdout = <<>> THEN @ ELSE cmd.stdout[1],
                           !.stderr = IF cmd.stderr = <<>> THEN @ ELSE cmd.stderr[1],
                           !.timeouts = @ \cup ({cmd.timeout} \ {""})]
        barred == \/ s.done \/ \E f \in files : Fails(r, f, s.attempt)
                  \/ cmd.timeout # "" /\ Fails(r, cmd.timeout, 1)
        next(acc, c) ==
            IF cmd.flow = "sequential" /\ ~acc.ok THEN acc
            ELSE LET m == Meaning(r, c, [inner EXCEPT !.done = r.cut /\ ~acc.ok]) IN
                 Meant(acc.ok /\ m.ok, acc.calls \o m.calls)
    IN  IF barred THEN Meant(FALSE, <<>>)
        ELSE IF cmd.command # ""
        THEN Meant(~Fails(r, cmd.command, s.attempt),
                   <<CallIn(inner, cmd.command, cmd.target = "local")>>)
        ELSE FoldLeft(next, Meant(TRUE, <<>>), cmd.commands)

Meaning(r, cmd, s) ==
    LET tries == IF cmd.retries > 1 THEN cmd.retries ELSE 1
        attempt(i) == Attempt(r, cmd, IF cmd.retries > 1 THEN [s EXCEPT !.attempt = i] ELSE s)
        good == {i \in 1..tries : attempt(i).ok}
        made == IF good = {} THEN tries ELSE Min(good)
    IN  Meant(cmd.ignoreError \/ good # {},
              FlattenSeq([i \in 1..made |-> attempt(i).calls]))

\* The hosts in the order of the visit, by address.
HostOrder ==
    IF config.host # <<>> THEN config.host
    ELSE [i \in DOMAIN order |-> readHostsFiles(config.hosts)[order[i]].addr]

OnHost(r, timeouts, h) ==
    LET s == Scope(r, timeouts, h)
        remote == IsRemote(config.command[1])
        services == (IF config.forwarding THEN <<CallIn(s, "forwarding", FALSE)>> ELSE <<>>)
                    \o (IF config.tunnel THEN <<CallIn(s, "tunnel", FALSE)>> ELSE <<>>)
    IN  IF remote /\ Fails(r, h, 1) THEN <<>>
        ELSE services \o Meaning(r, config.command[1],
                                 [s EXCEPT !.sshClient = IF remote THEN @ ELSE ""]).calls

JobMeaning(r) ==
    LET timeouts == {config.timeout} \ {""}
        s == Scope(r, timeouts, NoHost)
        around(cmd) == IF cmd = <<>> THEN Meant(TRUE, <<>>)
                       ELSE Meaning(r, localCommand(cmd[1]), s)
        scp == IF config.scp THEN <<CallIn(s, "scp", TRUE)>> ELSE <<>>
        pre == around(config.pre)
        post == around(config.post)
        hosts == FlattenSeq([i \in DOMAIN HostOrder |-> OnHost(r, timeouts, HostOrder[i])])
        barred == \/ config.output # "" /\ Fails(r, config.output, 1)
                  \/ \E d \in timeouts : Fails(r, d, 1)
                  \/ config.scp /\ Fails(r, "scp", 1)
    IN  IF barred THEN Meant(FALSE, <<>>)
        ELSE IF ~pre.ok THEN Meant(FALSE, scp \o pre.calls)
        ELSE Meant(post.ok, scp \o pre.calls \o hosts \o post.calls)

RECURSIVE SharesFile(_)
SharesFile(cmd) == SameFile(cmd) \/ \E i \in DOMAIN cmd.commands : SharesFile(cmd.commands[i])

WithoutStderr(calls) == [i \in DOMAIN calls |-> [calls[i] EXCEPT !.stderr = ""]]

-----------------------------------------------------------------------------
(* Properties.                                                             *)

Ran == phase \in {"ran", "reported"}

\* Whatever VisitConfig accepts, no flunc of the tree is called in a context that
\* lacks the logger, the output, the SSH client or the templating engine that its
\* comment in executionTree.go says it requires.
KeysAvailable == Ran => \A i \in DOMAIN result.trace : result.trace[i].type # "lack"

\* The commands that run, in which order, how often, on which host's connection,
\* with which engine, logger, files and timeouts, and whether the job ends with an
\* error, are what the configuration says, for every pattern of failures: an error
\* stays on its host, ignoreError is outside the retries, a command inherits from
\* the nearest one around it.  With one file for stdout and stderr the stderr is
\* left open: visitStreams never sets it.
RunsAsConfigured ==
    Ran => LET meant == JobMeaning(run)
               calls == CallsOf(result.trace)
               shares == \E cmd \in ToSet(config.pre \o config.command \o config.post) :
                            SharesFile(cmd)
           IN  /\ result.err = ~meant.ok
               /\ shares => WithoutStderr(calls) = WithoutStderr(meant.calls)
               /\ ~shares => calls = meant.calls

\* Telemetry watches: the instrumented tree makes the calls of the plain one, with
\* the same clients, files and real loggers, and ends with the same error.
InstrumentIsTransparent ==
    Ran => LET other == Exec([run EXCEPT !.telemetry = ~@], Job, Background) IN
           /\ other.err = result.err
           /\ CallsOf(other.trace) = CallsOf(result.trace)

\* The runtime reported for a host spans the calls made for that host, provided
\* that both visits ranged over the hosts in the same order, and the runtime of the
\* job spans those of its hosts.
TimingFollowsHosts ==
    (phase = "reported" /\ timing.order = order) =>
        \A h \in DOMAIN timing.hosts :
           LET t == timing.hosts[h] IN
           /\ \A i \in DOMAIN result.trace :
                 (result.trace[i].type = "call" /\ result.trace[i].templating = h) =>
                     t.start < i /\ i < t.start + t.runtime
           /\ t.start + t.runtime <= timing.jobRuntime + 1

\* What the visualization shows after the run of a job with one host hangs
\* together: nothing is still running; an error shows at the root exactly if the
\* job ended with one; a node that completed has completed children unless it is
\* there to catch their errors, and one that failed has a child that failed or
\* that it did not come to.
FailuresAreShown ==
    (phase = "reported" /\ Len(HostOrder) = 1) =>
        /\ \A id \in DOMAIN shown : shown[id] # "running"
        /\ shown[Job] = IF result.err THEN "failed" ELSE "completed"
        /\ \A id \in DOMAIN shown :
              LET kids == {k \in ToSet(tree[id].kids) : k \in DOMAIN shown} IN
              /\ (shown[id] = "completed" /\ tree[id].kind # "ErrorSafeguard") =>
                     \A k \in kids : shown[k] = "completed"
              /\ (shown[id] = "failed" /\ kids # {}) =>
                     \E k \in kids : shown[k] \in {"failed", "ready"}

=============================================================================
