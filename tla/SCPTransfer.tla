---------------------------- MODULE SCPTransfer ----------------------------
(***************************************************************************)
(* A sink and its client.  The client is the source of this repository     *)
(* (scp/source.go), or anything that sends what the protocol knows, in any *)
(* order.                                                                  *)
(*                                                                         *)
(* The source walks down a tree.  What it has still to do is the sequence  *)
(* todo of tasks: the calls that are pending on its stack, innermost       *)
(* first.  A task holds the path of its node and the size that the node    *)
(* had when the directory was read.                                        *)
(***************************************************************************)
EXTENDS SCPSink

CONSTANTS
  Trees,       \* the trees there may be to send
  Contents,    \* what a file may contain after it was changed
  Clients,     \* subset of {"source", "any"}
  MaxUnits,    \* how much a client of the second kind sends
  MaxChanges,  \* how many files change while they are sent
  Disconnects  \* whether the connection may break

\* A tree has a root, every other node is in a directory of it, only files have
\* contents, and the size of a file is a number of 63 bits.
ASSUME TreesAssumption ==
  \A t \in Trees :
    /\ IsFiniteSet(DOMAIN t)
    /\ \E p \in DOMAIN t : Len(p) = 1
    /\ \A p \in DOMAIN t :
         /\ p \in Seq(Names) \ {<< >>}
         /\ t[p] \in [dir : BOOLEAN, content : Seq({"byte", "nul"}), time : Int]
         /\ t[p].dir => t[p].content = << >>
         /\ Len(t[p].content) < TwoTo63
         /\ Len(p) > 1 => Front(p) \in DOMAIN t /\ t[Front(p)].dir
         /\ \A q \in DOMAIN t : Len(p) = 1 /\ Len(q) = 1 => p = q
ASSUME ContentsAssumption == \A c \in Contents : c \in Seq({"byte", "nul"})
ASSUME ClientsAssumption == Clients \subseteq {"source", "any"}
ASSUME BoundsAssumption == MaxUnits \in Nat /\ MaxChanges \in Nat
ASSUME DisconnectsAssumption == Disconnects \in BOOLEAN

VARIABLES
  client,     \* which of the two
  src,        \* the tree to send, from the name that is its root
  todo,       \* the tasks of the source
  waiting,    \* whether it waits for an acknowledgement
  outcome,    \* what its run returned
  linkUp,     \* whether there is still a connection
  units,      \* what a client of the second kind has sent so far
  changes     \* the files that have changed since they were looked at, with the
              \* sizes they had then

sourceVars == <<todo, waiting, outcome>>
clientVars == <<client, src, todo, waiting, outcome, linkUp, units, changes>>
vars == <<sinkVars, clientVars>>

-----------------------------------------------------------------------------
(***************************************************************************)
(* The source.                                                             *)
(***************************************************************************)
Name(p) == Last(p)
Children(p) == {q \in DOMAIN src : Len(q) = Len(p) + 1 /\ Front(q) = p}
Top == CHOOSE p \in DOMAIN src : Len(p) = 1

Task(op, p) == [op |-> op, path |-> p, size |-> Len(src[p].content)]

\* sendDirectory and sendFile.
Tasks(p) ==
  (IF times THEN <<Task("T", p)>> ELSE << >>)
    \o (IF src[p].dir THEN <<Task("D", p), Task("list", p)>>
                      ELSE <<Task("C", p), Task("data", p)>>)

\* Mutant of MessageFor: a directory has a length.
MessageForSized(t) ==
  CASE t.op = "T" -> TMessage(src[t.path].time)
    [] t.op = "C" -> CMessage(Name(t.path), t.size)
    [] t.op = "D" -> DMessage(Name(t.path), 1)
    [] t.op = "E" -> EMessage

MessageFor(t) ==
  CASE t.op = "T" -> TMessage(src[t.path].time)
    [] t.op = "C" -> CMessage(Name(t.path), t.size)
    [] t.op = "D" -> DMessage(Name(t.path), 0)
    [] t.op = "E" -> EMessage

Sending(ops) ==
  /\ client = "source"
  /\ outcome = "running"
  /\ linkUp
  /\ ~waiting
  /\ todo # << >>
  /\ Head(todo).op \in ops

\* run reports the error, and the channel is closed.
SourceFails ==
  /\ outcome' = "error"
  /\ stream' = IF linkUp THEN stream \o ErrorReport ELSE stream
  /\ closed' = TRUE

SourceUnchanged ==
  UNCHANGED <<opts, phase, state, depth, dir, timeSet, time, file, left, result,
              fs, client, src, linkUp, units, changes>>

\* stat of the path that was asked for.
SourceStats ==
  /\ Sending({"stat"})
  /\ IF src[Top].dir /\ ~recursive
       THEN SourceFails /\ UNCHANGED todo
       ELSE todo' = Tasks(Top) /\ UNCHANGED <<outcome, stream, closed>>
  /\ UNCHANGED <<waiting, acks, faulty>>
  /\ SourceUnchanged

SourceSends ==
  /\ Sending({"T", "C", "D", "E"})
  /\ stream' = Append(stream, Line(String(MessageFor(Head(todo)))))
  /\ todo' = Tail(todo)
  /\ waiting' = TRUE
  /\ UNCHANGED <<outcome, closed, acks, faulty>>
  /\ SourceUnchanged

\* readDir, and the loop over what it returns.
SourceLists ==
  /\ Sending({"list"})
  /\ LET p == Head(todo).path
         tasks == FlattenSeq([i \in DOMAIN SetToSeq(Children(p)) |->
                                Tasks(SetToSeq(Children(p))[i])])
     IN  todo' = tasks \o <<Task("E", p)>> \o Tail(todo)
  /\ UNCHANGED <<waiting, outcome, stream, closed, acks, faulty>>
  /\ SourceUnchanged

\* Where path finds the file: s.dir is the directory it is in, or, for a file
\* that was asked for, the file itself.
OpenedPath(p) ==
  LET d == IF Len(p) = 1 THEN p ELSE Front(p)
  IN  IF Last(d) = Name(p) THEN d ELSE Append(d, Name(p))

\* The contents are sent as they are now, whatever the size was.
SourceSendsData ==
  /\ Sending({"data"})
  /\ LET node == src[OpenedPath(Head(todo).path)] IN
     IF node.dir
       THEN SourceFails /\ UNCHANGED <<todo, waiting>>
       ELSE /\ stream' = stream \o [i \in DOMAIN node.content |->
                                      Unit(node.content[i])] \o <<Unit("nul")>>
            /\ todo' = Tail(todo)
            /\ waiting' = TRUE
            /\ UNCHANGED <<outcome, closed>>
  /\ UNCHANGED <<acks, faulty>>
  /\ SourceUnchanged

\* Mutant of SourceGetsAck: an error is not told from an acknowledgement.
SourceGetsAnyAck ==
  /\ client = "source"
  /\ outcome = "running"
  /\ linkUp
  /\ waiting
  /\ acks # << >>
  /\ acks' = Tail(acks)
  /\ waiting' = FALSE
  /\ UNCHANGED <<todo, outcome, stream, closed, faulty>>
  /\ SourceUnchanged

\* getAck.
SourceGetsAck ==
  /\ client = "source"
  /\ outcome = "running"
  /\ linkUp
  /\ waiting
  /\ acks # << >>
  /\ acks' = Tail(acks)
  /\ waiting' = FALSE
  /\ IF Head(acks) = "ok" THEN UNCHANGED <<outcome, stream, closed>>
                          ELSE SourceFails
  /\ UNCHANGED <<todo, faulty>>
  /\ SourceUnchanged

\* There is nobody left to send one, or no connection to read or write on.
SourceGetsNoAck ==
  /\ client = "source"
  /\ outcome = "running"
  /\ (waiting /\ acks = << >> /\ phase = "done") \/ ~linkUp
  /\ SourceFails
  /\ UNCHANGED <<todo, waiting, acks, faulty>>
  /\ SourceUnchanged

SourceDone ==
  /\ client = "source"
  /\ outcome = "running"
  /\ ~waiting
  /\ todo = << >>
  /\ outcome' = "ok"
  /\ closed' = TRUE
  /\ UNCHANGED <<todo, waiting, stream, acks, faulty>>
  /\ SourceUnchanged

\* stat, readDir, OpenFile or a read fails.
SourceIOError ==
  /\ IOErrors
  /\ Sending({"stat", "list", "data"})
  /\ SourceFails
  /\ faulty' = TRUE
  /\ UNCHANGED <<todo, waiting, acks>>
  /\ SourceUnchanged

Source ==
  \/ SourceStats \/ SourceSends \/ SourceLists \/ SourceSendsData
  \/ SourceGetsAck \/ SourceGetsNoAck \/ SourceDone
  \/ SourceIOError

-----------------------------------------------------------------------------
(***************************************************************************)
(* The environment.                                                        *)
(***************************************************************************)
\* A file is written to after the directory was read and before it is opened.
Change ==
  /\ client = "source"
  /\ Cardinality(changes) < MaxChanges
  /\ \E i \in DOMAIN todo, c \in Contents :
       /\ todo[i].op = "data"
       /\ src[todo[i].path].content # c
       /\ src' = [src EXCEPT ![todo[i].path].content = c]
       /\ changes' = changes \cup {<<todo[i].path, todo[i].size>>}
  /\ UNCHANGED <<sinkVars, client, todo, waiting, outcome, linkUp, units>>

\* The connection breaks: some of what was on its way is lost.
Disconnect ==
  /\ Disconnects
  /\ linkUp
  /\ linkUp' = FALSE
  /\ closed' = TRUE
  /\ acks' = << >>
  /\ stream' \in Prefixes(stream)
  /\ faulty' = TRUE
  /\ UNCHANGED <<opts, phase, state, depth, dir, timeSet, time, file, left,
                 result, fs, client, src, todo, waiting, outcome, units, changes>>

\* What a client of the second kind sends: any message, a line that is none, or
\* bytes.  It sends bytes while it owes the contents of a file.
AnyUnits == {Line(l) : l \in Lines} \cup {Unit("byte"), Unit("nul")}

AnySends ==
  /\ client = "any"
  /\ ~closed
  /\ units < MaxUnits
  /\ phase \in {"header", "content", "end"}
  /\ stream = << >>
  /\ \E u \in AnyUnits :
       /\ phase \in {"content", "end"} => u.kind # "line"
       /\ stream' = Append(stream, u)
  /\ units' = units + 1
  /\ UNCHANGED <<opts, closed, acks, phase, state, depth, dir, timeSet, time,
                 file, left, result, fs, faulty, client, src, sourceVars, linkUp,
                 changes>>

AnyReads ==
  /\ client = "any"
  /\ acks # << >>
  /\ acks' = Tail(acks)
  /\ UNCHANGED <<opts, stream, closed, phase, state, depth, dir, timeSet, time,
                 file, left, result, fs, faulty, clientVars>>

AnyCloses ==
  /\ client = "any"
  /\ ~closed
  /\ closed' = TRUE
  /\ UNCHANGED <<opts, stream, acks, phase, state, depth, dir, timeSet, time,
                 file, left, result, fs, faulty, clientVars>>

\* Both ends have returned.
Finished ==
  /\ result # "running"
  /\ client = "source" => outcome # "running"
  /\ UNCHANGED vars

-----------------------------------------------------------------------------
\* A source and a sink that belong together have the same -r and -p.
Init ==
  /\ SinkInit
  /\ client \in Clients
  /\ opts \in SUBSET {"r", "p", "t", "f"}
  /\ client = "source" => "t" \in opts /\ "f" \notin opts
  /\ client = "any" => ("f" \in opts => "t" \in opts)
  /\ src \in Trees
  /\ client = "any" => src = CHOOSE t \in Trees : TRUE
  /\ todo = IF client = "source" THEN <<Task("stat", Top)>> ELSE << >>
  /\ waiting = TRUE
  /\ outcome = "running"
  /\ linkUp = TRUE
  /\ units = 0
  /\ changes = {}

Next ==
  \/ (Sink /\ UNCHANGED clientVars)
  \/ Source
  \/ Change \/ Disconnect
  \/ AnySends \/ AnyReads \/ AnyCloses
  \/ Finished

Spec == Init /\ [][Next]_vars

(***************************************************************************)
(* Both ends go on when they can; nothing is assumed of the environment.   *)
(***************************************************************************)
FairSpec == Spec /\ WF_vars((Sink /\ UNCHANGED clientVars) \/ Source)

-----------------------------------------------------------------------------
(***************************************************************************)
(* Properties.                                                             *)
(***************************************************************************)
UnitKinds == {"line", "byte", "nul", "text", "newline"}

IsTree(f) ==
  \A p \in DOMAIN f :
    /\ p \in Seq(Names)
    /\ f[p] \in [dir : BOOLEAN, content : Seq(UnitKinds), time : Int]

\* The types of the variables.
TypeOK ==
  /\ opts \subseteq {"r", "p", "t", "f"}
  /\ \A i \in DOMAIN stream : stream[i].kind \in UnitKinds
  /\ closed \in BOOLEAN
  /\ \A i \in DOMAIN acks : acks[i] \in {"ok", "error"}
  /\ phase \in {"new", "header", "content", "end", "done"}
  /\ state \in DOMAIN NextState \cup {"none"}
  /\ depth \in Int
  /\ dir \in Seq(Names)
  /\ timeSet \in BOOLEAN
  /\ time \in Int
  /\ file \in Seq(Names)
  /\ left \in Nat
  /\ result \in {"running", "ok", "error"}
  /\ IsTree(fs)
  /\ faulty \in BOOLEAN
  /\ client \in Clients
  /\ IsTree(src)
  /\ \A i \in DOMAIN todo : todo[i].op \in {"stat", "T", "D", "C", "E", "list", "data"}
  /\ waiting \in BOOLEAN
  /\ outcome \in {"running", "ok", "error"}
  /\ linkUp \in BOOLEAN
  /\ units \in 0 .. MaxUnits
  /\ \A c \in changes : c[1] \in DOMAIN src /\ c[2] \in Nat

\* The parser's depth counts the directories the sink has entered below its
\* target, and it never leaves the target: whatever a client sends, if the sink
\* runs without -r or without -p, and whatever the source of this repository
\* sends in any mode (sink.go: the depth kept by the state functions; messages.go:
\* the directory kept by process).
StaysInside ==
  (client = "any" /\ recursive /\ times) \/ phase = "done"
    \/ (IsPrefix(Target, dir) /\ Len(dir) = Len(Target) + depth)

\* A time that was announced is still to be used exactly when the next message
\* has to be about the node it was announced for, so that it is never set on
\* another one (timeSet of scpImp, and the states after a T message).
TimesBelongToNext ==
  phase = "header" => (timeSet <=> state \in {"NoRecurseTimesC", "RecurseTimesCD"})

\* A file is acknowledged only when all of the announced bytes have been written,
\* and the stream that ends before them is an error (io.Copy of scpCMessage.process
\* takes the end of the stream for the end of the file).
NoShortFileAcknowledged ==
  [][phase = "end" /\ phase' = "header" => left = 0]_vars

\* What can be sent: no name begins with a digit, with -p no time is before 1970,
\* no file has the name of the directory it is in, a directory needs -r, and a file
\* that is not in a directory cannot be put into the root.
Transferable ==
  \A p \in DOMAIN src :
    /\ Name(p) \notin Numeric
    /\ times => src[p].time >= 0
    /\ ~src[p].dir /\ Len(p) > 1 => Name(p) # Last(Front(p))
    /\ src[p].dir => recursive
    /\ ~src[p].dir /\ Len(p) = 1 => Target # << >>

\* Source and sink speak the same language: what the source sends for a tree that
\* can be sent is lexed, parsed and accepted by the sink in every mode, and
\* neither end fails unless the environment does.
OnlyFaultsFail ==
  client = "source" /\ Transferable /\ ~faulty /\ changes = {}
    => outcome # "error" /\ result # "error"

\* The nodes of the tree that are complete at the target.  Of a file that was
\* written to after its size was announced the contents are left open here.
Changed(p) == \E c \in changes : c[1] = p

Arrived(p) ==
  LET q == Target \o p IN
  /\ q \in DOMAIN fs
  /\ fs[q].dir = src[p].dir
  /\ ~src[p].dir =>
       /\ times => fs[q].time = src[p].time
       /\ Changed(p) \/ fs[q].content = src[p].content
       /\ ~(file = q /\ phase = "content")

Copied == {p \in DOMAIN src : Arrived(p)}

Copy == INSTANCE TreeCopy WITH
          tree <- IF client = "source" THEN DOMAIN src ELSE {},
          copied <- IF client = "source" THEN Copied ELSE {}

\* A transfer between the source and the sink implements a recursive copy: nodes
\* arrive whole and after their directories, none is lost or spoilt later, and the
\* source reports success only when the whole tree is at the target, whatever
\* fails on the way (scp/source.go, scp/sink.go).
CopySpec == Copy!Spec

\* A file that is written to between the reading of its directory and its opening
\* does not arrive in part unnoticed, unless the byte after the announced length
\* is 0, which the sink takes for the end of the contents (source.go: sendFile
\* copies whatever the file has by then).
NoPartUnnoticed ==
  outcome = "ok" =>
    \A p \in DOMAIN src :
      LET old == src[p].content
          new == fs[Target \o p].content
      IN  \/ new = old
          \/ IsStrictPrefix(new, old) /\ old[Len(new) + 1] = "nul"

\* Source and sink both return, unless a file is shorter than announced: then the
\* sink waits for the rest of it and the source for the acknowledgement.
Shrunk == \E c \in changes : Len(src[c[1]].content) < c[2]

TransferEnds ==
  client = "source" ~> (outcome # "running" /\ result # "running") \/ Shrunk

=============================================================================
