--------------------------- MODULE MCExecutionTree ---------------------------
(* Jobs as VisitConfig builds them, for TLC.  "a": a command with a timeout  *)
(* on two hosts.  "b": a job with a timeout, on one host, with a local command   *)
(* before it; on the host, a remote command with two attempts and a local one in *)
(* parallel.  "c": on one host, a group of two commands with a timeout.          *)
EXTENDS ExecutionTree, TLC

SeqOf(n, children) == n :> <<"sequential", children>>
BoundsOf(n, inner, children) == (n :> <<"bounds", <<inner>>>>) @@ SeqOf(inner, children)
Leaf(n, kind) == n :> <<kind, <<>>>>

HostA(guard, host, seq, ssh, cmd, cmdSeq, limit, run) ==
    (guard :> <<"safeguard", <<host>>>>) @@ BoundsOf(host, seq, <<ssh, cmd>>)
    @@ Leaf(ssh, "setup") @@ BoundsOf(cmd, cmdSeq, <<limit, run>>)
    @@ Leaf(limit, "timeout") @@ Leaf(run, "command")

TreeA ==
    SeqOf("a", <<"a.hosts">>) @@ ("a.hosts" :> <<"parallel", <<"a1", "a2">>>>)
    @@ HostA("a1", "a1.host", "a1.seq", "a1.ssh", "a1.cmd", "a1.cmdseq", "a1.limit", "a1.run")
    @@ HostA("a2", "a2.host", "a2.seq", "a2.ssh", "a2.cmd", "a2.cmdseq", "a2.limit", "a2.run")

TreeB ==
    SeqOf("b", <<"b.limit", "b.pre", "b1">>) @@ Leaf("b.limit", "timeout")
    @@ BoundsOf("b.pre", "b.preseq", <<"b.prerun">>) @@ Leaf("b.prerun", "localCommand")
    @@ ("b1" :> <<"safeguard", <<"b1.host">>>>)
    @@ BoundsOf("b1.host", "b1.seq", <<"b1.ssh", "b1.cmd">>) @@ Leaf("b1.ssh", "setup")
    @@ BoundsOf("b1.cmd", "b1.cmdseq", <<"b1.par">>)
    @@ ("b1.par" :> <<"parallel", <<"b1.retry", "b1.local">>>>)
    @@ ("b1.retry" :> <<"retry", <<"b1.try1", "b1.try2">>>>)
    @@ BoundsOf("b1.try1", "b1.seq1", <<"b1.run1">>) @@ Leaf("b1.run1", "command")
    @@ BoundsOf("b1.try2", "b1.seq2", <<"b1.run2">>) @@ Leaf("b1.run2", "command")
    @@ BoundsOf("b1.local", "b1.localseq", <<"b1.localrun">>)
    @@ Leaf("b1.localrun", "localCommand")

TreeC ==
    SeqOf("c", <<"c1">>) @@ ("c1" :> <<"safeguard", <<"c1.host">>>>)
    @@ BoundsOf("c1.host", "c1.seq", <<"c1.ssh", "c1.cmd">>) @@ Leaf("c1.ssh", "setup")
    @@ BoundsOf("c1.cmd", "c1.cmdseq", <<"c1.limit", "c1.par">>) @@ Leaf("c1.limit", "timeout")
    @@ ("c1.par" :> <<"parallel", <<"c1.one", "c1.two">>>>)
    @@ BoundsOf("c1.one", "c1.oneseq", <<"c1.run1">>) @@ Leaf("c1.run1", "command")
    @@ BoundsOf("c1.two", "c1.twoseq", <<"c1.run2">>) @@ Leaf("c1.run2", "command")

Forest == TreeA @@ TreeB @@ TreeC

MCNodes == DOMAIN Forest
MCKind == [n \in MCNodes |-> Forest[n][1]]
MCChildren == [n \in MCNodes |-> Forest[n][2]]
MCRetries == [n \in MCNodes |-> IF n = "b1.retry" THEN 2 ELSE 0]

=============================================================================
