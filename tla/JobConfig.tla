------------------------------ MODULE JobConfig ------------------------------
(***************************************************************************)
(* The configuration of a job (job/config.go) and the tree VisitConfig     *)
(* builds from it (job/configVisitor.go).                                  *)
(*                                                                         *)
(* A field that may be nil is a sequence of at most one element; a string  *)
(* that may be empty is "".  A duration is a string that parses, "bad" one *)
(* that does not.  The nodes of a tree are numbered in the order of the    *)
(* calls of the builder, which is the counter the names of the             *)
(* NamingBuilder are made of (telemetry/naming.go); VisitConfig appends    *)
(* the one subtree of the command to every host.                           *)
(***************************************************************************)
EXTENDS Integers, Sequences, FiniteSets, SequencesExt, TLC

NoHost == "job"   \* Templating(c, nil): the engine has no host

\* A command of one line with every option at its default.
Line(command) ==
    [command |-> command, commands |-> <<>>, flow |-> "", target |-> "",
     retries |-> 0, timeout |-> "", ignoreError |-> FALSE,
     stdout |-> <<>>, stderr |-> <<>>]
Group(flow, commands) ==
    [Line("") EXCEPT !.flow = flow, !.commands = commands]

\* A job of one command on one host.
Config(command) ==
    [timeout |-> "", telemetry |-> FALSE, output |-> "", host |-> <<"alone">>,
     hosts |-> <<>>, pre |-> <<>>, command |-> <<command>>, post |-> <<>>,
     forwarding |-> FALSE, tunnel |-> FALSE, scp |-> FALSE]

ParseDuration(d) == d # "bad"

\* Mutant of IsRemote: the commands of a group are not looked at.
IsRemoteAtTop(c) == c.command # "" /\ c.target # "local"

RECURSIVE IsRemote(_)
IsRemote(c) ==
    \/ c.command # "" /\ c.target # "local"
    \/ \E i \in DOMAIN c.commands : IsRemote(c.commands[i])

\* It has no Timeout: the copy of a command leaves that field out.
RECURSIVE localCommand(_)
localCommand(c) ==
    [c EXCEPT !.target = "local", !.timeout = "",
              !.commands = [i \in DOMAIN @ |-> localCommand(@[i])]]

\* hostsFileOrArray.UnmarshalJSON assigns to its receiver, which is a copy: a
\* configuration read from a file has no hosts.
ReadConfig(c) == [c EXCEPT !.hosts = <<>>]

-----------------------------------------------------------------------------
(* Hosts files: [readable, hosts, pattern, matchString].  hosts maps a key  *)
(* to the fields of a host, the pattern is the set of strings it matches    *)
(* (<<>> if it does not compile) and a match string names a field.          *)

filterHosts(hosts, pattern, matchString) ==
    LET named == [k \in DOMAIN hosts |->
            IF hosts[k].name = "" THEN [hosts[k] EXCEPT !.name = k] ELSE hosts[k]]
        str(k) == IF matchString = "" THEN k ELSE named[k][matchString]
    IN  [k \in {k \in DOMAIN hosts : str(k) \in pattern} |-> named[k]]

Usable(file) ==
    /\ file.readable
    /\ file.pattern # <<>>
    /\ \A k \in DOMAIN file.hosts :
          file.matchString # "" => file.matchString \in DOMAIN file.hosts[k]

\* A later file replaces the hosts of an earlier one key by key.
readHostsFiles(files) ==
    FoldLeft(LAMBDA config, file :
                 filterHosts(file.hosts, file.pattern[1], file.matchString) @@ config,
             <<>>, files)

-----------------------------------------------------------------------------
(* The builder: the nodes so far, the groups that are open, the node that   *)
(* the last call returned, and whether the visit has failed.                *)

NewBuilder == [nodes |-> <<>>, open |-> <<>>, top |-> 0, out |-> "ok"]
Fail(b) == IF b.out = "ok" THEN [b EXCEPT !.out = "err"] ELSE b
Panic(b) == IF b.out = "ok" THEN [b EXCEPT !.out = "panic"] ELSE b

AddNode(b, kind, arg, kids) ==
    IF b.out # "ok" THEN b
    ELSE [b EXCEPT !.nodes = Append(@, [kind |-> kind, arg |-> arg, kids |-> kids]),
                   !.top = Len(b.nodes) + 1]

\* A flunc without a child, and one around the last node.
NewNode(b, kind, arg) == AddNode(b, kind, arg, <<>>)
Around(b, kind, arg) == AddNode(b, kind, arg, <<b.top>>)

\* A group: Open makes it, Put appends a node to the innermost one, Wrap closes it.
Open(b, kind, arg) ==
    IF b.out # "ok" THEN b
    ELSE [NewNode(b, kind, arg) EXCEPT !.open = Append(@, Len(b.nodes) + 1)]
PutNode(b, id) ==
    IF b.out # "ok" THEN b ELSE [b EXCEPT !.nodes[Last(b.open)].kids = Append(@, id)]
Put(b) == PutNode(b, b.top)
PutNew(b, kind, arg) == Put(NewNode(b, kind, arg))
Wrap(b) == IF b.out # "ok" THEN b ELSE [b EXCEPT !.top = Last(b.open), !.open = Front(@)]

\* The timeout of a job or a command, if it has one.
visitTimeout(b, timeout) ==
    IF timeout = "" THEN b
    ELSE IF ParseDuration(timeout) THEN PutNew(b, "Timeout", timeout)
    ELSE Fail(b)

SameFile(cmd) ==
    /\ cmd.stdout # <<>> /\ cmd.stderr # <<>>
    /\ cmd.stdout[1] = cmd.stderr[1]

visitStdout(b, cmd) ==
    IF cmd.stdout = <<>> THEN b ELSE PutNew(b, "Stdout", cmd.stdout[1])

\* With one file for both, the flunc of stdout is appended a second time.
visitStderr(b, cmd) ==
    IF cmd.stderr = <<>> THEN b
    ELSE IF SameFile(cmd) THEN Put(b)
    ELSE PutNew(b, "Stderr", cmd.stderr[1])

RECURSIVE visitCommand(_, _)

visitCommands(b, cmd) ==
    LET group == CASE cmd.flow = "sequential" -> Open(b, "Sequential", 0)
                   [] cmd.flow = "parallel" -> Open(b, "Parallel", 0)
                   [] OTHER -> Fail(b)
    IN  Wrap(FoldLeft(LAMBDA acc, c : Put(visitCommand(acc, c)), group, cmd.commands))

visitBody(b, cmd) ==
    IF cmd.command # ""
    THEN NewNode(b, IF cmd.target = "local" THEN "LocalCommand" ELSE "Command", cmd.command)
    ELSE IF cmd.commands # <<>> THEN visitCommands(b, cmd)
    ELSE Fail(b)

\* What goes around the bounds of a command: retries, then the safeguard.
visitRetries(b, cmd) == IF cmd.retries > 1 THEN Around(b, "Retry", cmd.retries) ELSE b
visitIgnoreError(b, cmd) == IF cmd.ignoreError THEN Around(b, "ErrorSafeguard", 0) ELSE b

\* Mutant of guardCommand: errors are caught inside the retries.
guardCommandInside(b, cmd) ==
    visitRetries(visitIgnoreError(Around(b, "ContextBounds", 0), cmd), cmd)

guardCommand(b, cmd) ==
    visitIgnoreError(visitRetries(Around(b, "ContextBounds", 0), cmd), cmd)

visitCommand(b, cmd) ==
    IF b.out # "ok" THEN b
    ELSE IF cmd.command # "" /\ cmd.commands # <<>> THEN Fail(b)
    ELSE LET files == visitStderr(visitStdout(Open(b, "Commands", 0), cmd), cmd) IN
         guardCommand(Wrap(Put(visitBody(visitTimeout(files, cmd.timeout), cmd))), cmd)

\* Forwarding or a tunnel, which need a connection.
visitService(b, c, wanted, kind, arg) ==
    IF ~wanted THEN b
    ELSE IF IsRemote(c.command[1]) THEN PutNew(b, kind, arg)
    ELSE Fail(b)

visitSSH(b, c, host) ==
    IF IsRemote(c.command[1]) THEN PutNew(b, "SSHClient", host) ELSE b

visitHost(b, c, host) ==
    LET engine == PutNew(PutNew(Open(b, "Host", host), "HostLogger", host), "Templating", host)
        ssh == visitSSH(engine, c, host)
    IN  visitService(visitService(ssh, c, c.forwarding, "Forwarding", "forwarding"),
                     c, c.tunnel, "Tunnel", "tunnel")

\* A host with the command, inside its bounds and a safeguard.
guardedHost(b, c, host, cmd) ==
    Around(Around(Wrap(PutNode(visitHost(b, c, host), cmd)), "ContextBounds", 0),
           "ErrorSafeguard", 0)

\* order is the order in which the range over the map of hosts yields its keys; a
\* host goes by its address from here on.
visitHosts(b, c, order, cmd) ==
    IF \E i \in DOMAIN c.hosts : ~Usable(c.hosts[i]) THEN Fail(b)
    ELSE LET hosts == readHostsFiles(c.hosts) IN
         Wrap(FoldLeft(LAMBDA acc, key : Put(guardedHost(acc, c, hosts[key].addr, cmd)),
                       Open(b, "Hosts", 0), order))

\* b.top is the tree of the command.
visitTargets(b, c, order) ==
    IF b.out # "ok" THEN b
    ELSE IF c.host # <<>> THEN guardedHost(b, c, c.host[1], b.top)
    ELSE visitHosts(b, c, order, b.top)

\* The pre or the post command.
visitLocal(b, cmd) == IF cmd = <<>> THEN b ELSE Put(visitCommand(b, localCommand(cmd[1])))

\* A configuration without a command is dereferenced all the same.
visitMain(b, cmd) == IF cmd = <<>> THEN Panic(b) ELSE visitCommand(b, cmd[1])

visitSetup(b, c) ==
    LET logger == PutNew(PutNew(PutNew(b, "Templating", NoHost), "Output", c.output),
                         "JobLogger", "job")
        limited == visitTimeout(logger, c.timeout)
    IN  IF c.scp THEN PutNew(limited, "SCP", "scp") ELSE limited

VisitConfig(c, order) ==
    IF (c.host = <<>>) = (c.hosts = <<>>) THEN Fail(NewBuilder)
    ELSE LET pre == visitLocal(visitSetup(Open(NewBuilder, "Job", 0), c), c.pre)
             targets == Put(visitTargets(visitMain(pre, c.command), c, order))
         IN  Wrap(visitLocal(targets, c.post))

=============================================================================
