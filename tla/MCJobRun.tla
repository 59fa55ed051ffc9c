------------------------------- MODULE MCJobRun -------------------------------
(* Configurations for TLC: shapes of the command, each under some job around it; *)
(* hosts from files; and those VisitConfig turns down.                           *)
EXTENDS JobRun

Remote == Line("a")
Local == [Line("b") EXCEPT !.target = "local"]

Shapes == {
    Remote,
    [Remote EXCEPT !.retries = 2, !.ignoreError = TRUE, !.stdout = <<"f">>],
    [Remote EXCEPT !.stdout = <<"f">>, !.stderr = <<"f">>, !.timeout = "t1"],
    [Remote EXCEPT !.stdout = <<"f">>, !.stderr = <<"null">>, !.retries = 1],
    [Group("sequential", <<Remote, Local>>) EXCEPT !.stdout = <<"f">>, !.timeout = "t1"],
    Group("parallel", <<[Remote EXCEPT !.stderr = <<"f">>], Local>>),
    [Group("sequential",
           <<[Local EXCEPT !.ignoreError = TRUE],
             [Group("parallel", <<Remote, [Line("c") EXCEPT !.retries = 3]>>)
                 EXCEPT !.stderr = <<"g">>, !.timeout = "t2"]>>)
         EXCEPT !.retries = 2, !.stderr = <<"f">>]}

Host(name, provider) == [name |-> name, addr |-> "addr" \o name, provider |-> provider]
File(hosts, pattern, matchString) ==
    [readable |-> TRUE, hosts |-> hosts, pattern |-> pattern, matchString |-> matchString]

Two == File([x |-> Host("1", "p"), y |-> [Host("2", "p") EXCEPT !.name = ""]], <<{"p"}>>, "provider")
Other == File([x |-> Host("3", "q"), z |-> Host("4", "r")], <<{"3", "y"}>>, "name")
HostsOfFiles == {
    <<Two>>, <<Two, Other>>, <<File(Two.hosts, <<{"x"}>>, "")>>, <<File(Two.hosts, <<{}>>, "")>>,
    <<Two, [Other EXCEPT !.readable = FALSE]>>, <<[Two EXCEPT !.pattern = <<>>]>>,
    <<[Two EXCEPT !.matchString = "tag"]>>}

Pre == [Line("pre") EXCEPT !.timeout = "t1", !.retries = 2]
Post == Group("parallel", <<Line("post"), [Line("last") EXCEPT !.stdout = <<"f">>]>>)

Jobs(cmd) == {
    Config(cmd),
    [Config(cmd) EXCEPT !.pre = <<Pre>>, !.post = <<Post>>, !.timeout = "t2"],
    [Config(cmd) EXCEPT !.output = "out", !.scp = TRUE, !.forwarding = TRUE, !.tunnel = TRUE]}

FromFiles(cmd) ==
    {[Config(cmd) EXCEPT !.host = <<>>, !.hosts = files, !.post = <<Local>>] : files \in HostsOfFiles}

Refused == {
    [Config(Remote) EXCEPT !.host = <<>>], [Config(Remote) EXCEPT !.hosts = <<Two>>],
    [Config(Remote) EXCEPT !.command = <<>>], [Config(Remote) EXCEPT !.timeout = "bad"],
    Config([Remote EXCEPT !.timeout = "bad"]), Config(Group("", <<Remote>>)),
    Config(Group("sequential", <<>>)), Config([Group("parallel", <<Remote>>) EXCEPT !.command = "a"]),
    [Config(Local) EXCEPT !.forwarding = TRUE], [Config(Local) EXCEPT !.tunnel = TRUE]}

Plain == UNION {Jobs(cmd) : cmd \in Shapes \cup {Local}} \cup Refused
         \cup FromFiles(Remote) \cup FromFiles(Group("sequential", <<Remote, Local>>))

MCConfigs == Plain \cup {[c EXCEPT !.telemetry = TRUE] : c \in Plain}

=============================================================================
