------------------------------ MODULE Telemetry ------------------------------
(***************************************************************************)
(* What telemetry makes of the events of a run: telemetry/timing.go and    *)
(* telemetry/visualization.go.  Each visits the configuration once more to *)
(* learn the names of the nodes, so it relies on the tree that runs having *)
(* been numbered alike.  The timestamp of an event is its place.           *)
(***************************************************************************)
EXTENDS JobTree

\* The events of the store, in the order in which they entered it.
Events(trace) ==
    SelectSeq([i \in DOMAIN trace |-> [type |-> trace[i].type, name |-> trace[i].what, at |-> i]],
              LAMBDA e : e.type \in {"start", "end", "failed"})

NodesOfKind(nodes, kinds) == {id \in DOMAIN nodes : nodes[id].kind \in kinds}

\* A timing has a node for each Host node of its own visit, and for nothing else.
TimedNodes(nodes) == NodesOfKind(nodes, {"Host"})
NewTiming(nodes) ==
    [start |-> 0, jobRuntime |-> 0,
     nodes |-> [id \in TimedNodes(nodes) |-> [start |-> 0, runtime |-> 0]]]

\* Mutant of ApplyToTiming: the runtime of a host counts from the start of the job.
ApplyFromJobStart(timing, event) ==
    LET v == IF timing.start = 0 /\ event.type = "start"
             THEN [timing EXCEPT !.start = event.at] ELSE timing
    IN  IF event.name \notin DOMAIN v.nodes THEN v
        ELSE IF event.type = "start" THEN [v EXCEPT !.nodes[event.name].start = event.at]
        ELSE [v EXCEPT !.nodes[event.name].runtime = event.at - v.start,
                       !.jobRuntime = event.at - v.start]

ApplyToTiming(timing, event) ==
    LET v == IF timing.start = 0 /\ event.type = "start"
             THEN [timing EXCEPT !.start = event.at] ELSE timing
    IN  IF event.name \notin DOMAIN v.nodes THEN v
        ELSE IF event.type = "start" THEN [v EXCEPT !.nodes[event.name].start = event.at]
        ELSE [v EXCEPT !.nodes[event.name].runtime = event.at - v.nodes[event.name].start,
                       !.jobRuntime = event.at - v.start]

ApplyTiming(nodes, events) == FoldLeft(ApplyToTiming, NewTiming(nodes), events)

\* A visualization has a node for each flunc that has a text: all but no output.
Drawn(node) == node.kind = "Output" => node.arg # ""
VisibleNodes(nodes) == {id \in DOMAIN nodes : Drawn(nodes[id])}

\* Mutant of ApplyToVisualization: an error leaves the node as it is.
ApplyWithoutFailures(shown, event) ==
    IF event.name \notin DOMAIN shown \/ event.type = "failed" THEN shown
    ELSE [shown EXCEPT ![event.name] = IF event.type = "start" THEN "running" ELSE "completed"]

ApplyToVisualization(shown, event) ==
    IF event.name \notin DOMAIN shown THEN shown
    ELSE [shown EXCEPT ![event.name] = CASE event.type = "start" -> "running"
                                         [] event.type = "end" -> "completed"
                                         [] event.type = "failed" -> "failed"]

ApplyVisualization(nodes, events) ==
    FoldLeft(ApplyToVisualization, [id \in VisibleNodes(nodes) |-> "ready"], events)

=============================================================================
