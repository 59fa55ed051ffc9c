------------------------------ MODULE SCPSink ------------------------------
(***************************************************************************)
(* The sink of an SCP transfer (scp/sink.go, the process methods of        *)
(* scp/messages.go, scp/scp.go): it reads messages and the contents of     *)
(* files from a stream, acknowledges them, and creates files and           *)
(* directories.                                                            *)
(*                                                                         *)
(* The stream is a sequence of units.  A unit is a line, a byte, the byte  *)
(* 0, or one of the two parts of an error report: its text, taken to be    *)
(* one byte long, and the newline after it.                                *)
(***************************************************************************)
EXTENDS SCPMessages, FiniteSets

CONSTANTS
  Target,    \* the path the sink was started with; the root is << >>
  TwoTo63,   \* 2^63; small for TLC, where lengths are small as well
  IOErrors   \* whether calls of the file system may fail without a cause

ASSUME TargetAssumption == Target \in Seq(Names)
ASSUME TwoTo63Assumption == TwoTo63 \in Nat \ {0}
ASSUME IOErrorsAssumption == IOErrors \in BOOLEAN

VARIABLES
  opts,      \* the flags among -r, -p, -t and -f the sink was started with
  stream,    \* what the client has sent and the sink has not read
  closed,    \* whether the client has closed its end
  acks,      \* what the sink has sent and the client has not read
  phase,     \* what runSink is about to do
  state,     \* the state function of the parser, named by what it accepts
  depth,     \* parser.depth
  dir,       \* scpImp.dir, a sequence of names
  timeSet,   \* scpImp.timeSet
  time,      \* scpImp.mTime, to which aTime is tied
  file,      \* the path of the file that is being received
  left,      \* the bytes of it that are still to come
  result,    \* what run returned: "running", "ok" or "error"
  fs,        \* the files and directories there are, by path
  faulty     \* whether the environment has failed; not program state

sinkVars == <<opts, stream, closed, acks, phase, state, depth, dir, timeSet,
              time, file, left, result, fs, faulty>>

recursive == "r" \in opts
times == "p" \in opts

-----------------------------------------------------------------------------
(***************************************************************************)
(* The file system.  A file that is written has the time Now, and so has a *)
(* directory that has got a new entry.                                     *)
(***************************************************************************)
Now == 0
Directory == [dir |-> TRUE, content |-> << >>, time |-> Now]
EmptyFile == [dir |-> FALSE, content |-> << >>, time |-> Now]

Parent(p) == IF p = << >> THEN << >> ELSE Front(p)

IsDirectory(p) == p \in DOMAIN fs /\ fs[p].dir

\* fs with a new node at p.
WithNode(p, node) ==
  [q \in DOMAIN fs \cup {p} |->
     CASE q = p -> node
       [] q # p /\ q = Parent(p) /\ p \notin DOMAIN fs -> [fs[q] EXCEPT !.time = Now]
       [] OTHER -> fs[q]]

\* os.OpenFile for writing, with O_CREATE and O_TRUNC.
CanOpen(p) == IsDirectory(Parent(p)) /\ ~IsDirectory(p)

\* os.MkdirAll: creates the directories on the way to p that do not exist.
CanMkdir(p) == \A q \in Prefixes(p) : q \in DOMAIN fs => fs[q].dir
WithDirectories(p) ==
  LET new == Prefixes(p) \ DOMAIN fs
  IN  [q \in DOMAIN fs \cup new |->
         IF q \in new \/ \E r \in new : q = Parent(r) /\ q # r
           THEN Directory ELSE fs[q]]

-----------------------------------------------------------------------------
(***************************************************************************)
(* Lines and units.                                                        *)
(***************************************************************************)
\* A line is parsed on its own, so it stands for what the parser makes of it.
Line(l) == [kind |-> "line", message |-> parseSCPMessage(l)]
Unit(k) == [kind |-> k, message |-> Invalid]
ErrorReport == <<Unit("text"), Unit("newline")>>

EndsLine(u) == u.kind \in {"line", "newline"}
LineEnds == {i \in DOMAIN stream : EndsLine(stream[i])}
FirstLineEnd == CHOOSE i \in LineEnds : \A j \in LineEnds : i <= j

\* What ReadBytes('\n') returns and parseSCPMessage makes of it.  A line is no
\* message when other bytes precede it.
NextMessage == IF FirstLineEnd = 1 THEN stream[1].message ELSE Invalid

-----------------------------------------------------------------------------
(***************************************************************************)
(* The parser.  NextState[q] gives the state after each message that the   *)
(* state function q accepts.  A message E is in it with the state inside   *)
(* of a directory; TopState[q] is the one for depth 0.                     *)
(***************************************************************************)
parserStart ==
  CASE recursive /\ times   -> "RecurseTimesCDT"
    [] recursive /\ ~times  -> "RecurseNoTimesCD"
    [] ~recursive /\ times  -> "NoRecurseTimesCT"
    [] ~recursive /\ ~times -> "NoRecurseNoTimesC"

NextState ==
  [NoRecurseTimesCT  |-> [C |-> "NoRecurseTimesCT", T |-> "NoRecurseTimesC"],
   NoRecurseTimesC   |-> [C |-> "NoRecurseTimesCT"],
   NoRecurseNoTimesC |-> [C |-> "NoRecurseNoTimesC"],
   RecurseTimesCDT   |-> [C |-> "RecurseTimesCDT", D |-> "RecurseTimesCDET",
                          T |-> "RecurseTimesCD"],
   RecurseTimesCDET  |-> [C |-> "RecurseTimesCDET", D |-> "RecurseTimesCDET",
                          E |-> "RecurseTimesCDET", T |-> "RecurseTimesCD"],
   RecurseTimesCD    |-> [C |-> "RecurseTimesCDET", D |-> "RecurseTimesCDET"],
   RecurseNoTimesCD  |-> [C |-> "RecurseNoTimesCD", D |-> "RecurseNoTimesCDE"],
   RecurseNoTimesCDE |-> [C |-> "RecurseNoTimesCDE", D |-> "RecurseNoTimesCDE",
                          E |-> "RecurseNoTimesCDE"]]

TopState == [RecurseTimesCDET  |-> "RecurseTimesCDT",
             RecurseNoTimesCDE |-> "RecurseNoTimesCD"]

\* The next message is of type t, and the state function accepts it.
Receives(t) ==
  /\ phase = "header"
  /\ LineEnds # {}
  /\ NextMessage.type = t
  /\ t \in DOMAIN NextState[state]

\* The rest of the stream after its first line.
ReadLine == stream' = SubSeq(stream, FirstLineEnd + 1, Len(stream))

ack == acks' = Append(acks, "ok")

\* run reports the error to the client.
Abort ==
  /\ phase' = "done"
  /\ result' = "error"
  /\ acks' = Append(acks, "error")

-----------------------------------------------------------------------------
\* New: exactly one of -t and -f has to be given, and an error is not reported
\* to the client otherwise.  The sink begins with an acknowledgement.
SinkStarts ==
  /\ phase = "new"
  /\ IF "f" \in opts \/ "t" \notin opts
       THEN phase' = "done" /\ result' = "error" /\ UNCHANGED <<acks, state>>
       ELSE phase' = "header" /\ ack /\ state' = parserStart /\ UNCHANGED result
  /\ UNCHANGED <<opts, stream, closed, depth, dir, timeSet, time, file, left,
                 fs, faulty>>

\* The root is the only directory that is its own parent, and it gets the name
\* twice.
FilePath(d, name) == IF Parent(d) = d THEN Append(d, name) \o <<name>>
                                      ELSE Append(d, name)

\* Mutant of Limit: the limit keeps its sign.
LimitSigned(length) == IF length < TwoTo63 THEN length ELSE -1

\* int64(m.length), to which the reader of the contents is limited; a reader
\* with a negative limit is at its end.
Limit(length) == IF length < TwoTo63 THEN length ELSE 0

ReceiveC ==
  /\ Receives("C")
  /\ ReadLine
  /\ LET m == NextMessage
         p == FilePath(dir, m.name)
     IN
       IF CanOpen(p)
         THEN /\ fs' = WithNode(p, EmptyFile)
              /\ file' = p
              /\ left' = Limit(m.length)
              /\ phase' = "content"
              /\ state' = NextState[state].C
              /\ ack
              /\ UNCHANGED result
         ELSE Abort /\ UNCHANGED <<fs, file, left, state>>
  /\ UNCHANGED <<opts, closed, depth, dir, timeSet, time, faulty>>

\* Mutant of ReceiveD: it sends no acknowledgement and drops the time.
ReceiveDSilent ==
  /\ Receives("D")
  /\ ReadLine
  /\ depth' = depth + 1
  /\ dir' = Append(dir, NextMessage.name)
  /\ IF CanMkdir(dir')
       THEN /\ fs' = WithDirectories(dir')
            /\ timeSet' = FALSE
            /\ state' = NextState[state].D
            /\ UNCHANGED <<phase, result, acks>>
       ELSE Abort /\ UNCHANGED <<fs, state, timeSet>>
  /\ UNCHANGED <<opts, closed, time, file, left, faulty>>

ReceiveD ==
  /\ Receives("D")
  /\ ReadLine
  /\ depth' = depth + 1
  /\ IF NextMessage.length # 0
       THEN Abort /\ UNCHANGED <<dir, fs, state, timeSet>>
       ELSE LET d == Append(dir, NextMessage.name) IN
            /\ dir' = d
            /\ IF CanMkdir(d)
                 THEN /\ LET made == WithDirectories(d) IN
                           fs' = IF timeSet THEN [made EXCEPT ![d].time = time]
                                            ELSE made
                      /\ timeSet' = FALSE
                      /\ state' = NextState[state].D
                      /\ ack
                      /\ UNCHANGED <<phase, result>>
                 ELSE Abort /\ UNCHANGED <<fs, state, timeSet>>
  /\ UNCHANGED <<opts, closed, time, file, left, faulty>>

\* Mutant of ReceiveE: the state at the top is not told from those below.
ReceiveEAnywhere ==
  /\ Receives("E")
  /\ ReadLine
  /\ depth' = depth - 1
  /\ state' = NextState[state].E
  /\ dir' = Parent(dir)
  /\ ack
  /\ UNCHANGED <<opts, closed, phase, timeSet, time, file, left, result, fs,
                 faulty>>

ReceiveE ==
  /\ Receives("E")
  /\ ReadLine
  /\ depth' = depth - 1
  /\ state' = IF depth' = 0 THEN TopState[state] ELSE NextState[state].E
  /\ dir' = Parent(dir)
  /\ ack
  /\ UNCHANGED <<opts, closed, phase, timeSet, time, file, left, result, fs,
                 faulty>>

ReceiveT ==
  /\ Receives("T")
  /\ ReadLine
  /\ time' = NextMessage.time
  /\ timeSet' = TRUE
  /\ state' = NextState[state].T
  /\ ack
  /\ UNCHANGED <<opts, closed, phase, depth, dir, file, left, result, fs,
                 faulty>>

\* An invalid message, or one that the state function does not accept.
RejectMessage ==
  /\ phase = "header"
  /\ LineEnds # {}
  /\ NextMessage.type \notin DOMAIN NextState[state]
  /\ ReadLine
  /\ Abort
  /\ UNCHANGED <<opts, closed, state, depth, dir, timeSet, time, file, left, fs,
                 faulty>>

\* io.Copy: one byte of the contents, whatever it is.
CopyByte ==
  /\ phase = "content"
  /\ left > 0
  /\ stream # << >>
  /\ stream' = Tail(stream)
  /\ left' = left - 1
  /\ fs' = [fs EXCEPT ![file].content = Append(@, Head(stream).kind),
                      ![file].time = Now]
  /\ UNCHANGED <<opts, closed, acks, phase, state, depth, dir, timeSet, time,
                 file, result, faulty>>

\* Mutant of FileWritten: timeSet is not reset.
FileWrittenKeepsTime ==
  /\ phase = "content"
  /\ left = 0 \/ (stream = << >> /\ closed)
  /\ fs' = IF timeSet THEN [fs EXCEPT ![file].time = time] ELSE fs
  /\ phase' = "end"
  /\ UNCHANGED <<opts, stream, closed, acks, state, depth, dir, timeSet, time,
                 file, left, result, faulty>>

\* Mutant of FileWritten: an empty stream is taken for its end.
FileWrittenEarly ==
  /\ phase = "content"
  /\ left = 0 \/ stream = << >>
  /\ fs' = IF timeSet THEN [fs EXCEPT ![file].time = time] ELSE fs
  /\ timeSet' = FALSE
  /\ phase' = "end"
  /\ UNCHANGED <<opts, stream, closed, acks, state, depth, dir, time, file,
                 left, result, faulty>>

\* The contents are there, or the stream has ended, which is no error yet.
FileWritten ==
  /\ phase = "content"
  /\ left = 0 \/ (stream = << >> /\ closed)
  /\ fs' = IF timeSet THEN [fs EXCEPT ![file].time = time] ELSE fs
  /\ timeSet' = FALSE
  /\ phase' = "end"
  /\ UNCHANGED <<opts, stream, closed, acks, state, depth, dir, time, file,
                 left, result, faulty>>

\* Mutant of ReceiveEnd: whatever follows the contents ends them.
ReceiveEndAny ==
  /\ phase = "end"
  /\ stream # << >>
  /\ stream' = Tail(stream)
  /\ phase' = "header" /\ ack
  /\ UNCHANGED <<opts, closed, state, depth, dir, timeSet, time, file, left,
                 result, fs, faulty>>

\* A byte 0 has to follow the contents.
ReceiveEnd ==
  /\ phase = "end"
  /\ stream # << >>
  /\ stream' = Tail(stream)
  /\ IF Head(stream).kind = "nul"
       THEN phase' = "header" /\ ack /\ UNCHANGED result
       ELSE Abort
  /\ UNCHANGED <<opts, closed, state, depth, dir, timeSet, time, file, left,
                 fs, faulty>>

\* The end of the stream ends the transfer in good order, unless it comes
\* between the contents of a file and the byte after them.
EndOfStream ==
  /\ closed
  /\ \/ /\ phase = "header"
        /\ LineEnds = {}
        /\ phase' = "done"
        /\ result' = "ok"
        /\ UNCHANGED acks
     \/ /\ phase = "end"
        /\ stream = << >>
        /\ Abort
  /\ UNCHANGED <<opts, stream, closed, state, depth, dir, timeSet, time, file,
                 left, fs, faulty>>

\* OpenFile, MkdirAll or a write fails.  The sink is done, so what it leaves
\* behind is of no effect.
SinkIOError ==
  /\ IOErrors
  /\ \/ phase = "header" /\ LineEnds # {} /\ NextMessage.type \in {"C", "D"}
     \/ phase = "content"
  /\ Abort
  /\ faulty' = TRUE
  /\ UNCHANGED <<opts, stream, closed, state, depth, dir, timeSet, time, file,
                 left, fs>>

Sink ==
  \/ SinkStarts
  \/ ReceiveC \/ ReceiveD \/ ReceiveE \/ ReceiveT \/ RejectMessage
  \/ CopyByte \/ FileWritten \/ ReceiveEnd
  \/ EndOfStream
  \/ SinkIOError

SinkInit ==
  /\ stream = << >>
  /\ closed = FALSE
  /\ acks = << >>
  /\ phase = "new"
  /\ state = "none"
  /\ depth = 0
  /\ dir = Target
  /\ timeSet = FALSE
  /\ time = Now
  /\ file = << >>
  /\ left = 0
  /\ result = "running"
  /\ fs = [p \in Prefixes(Target) |-> Directory]
  /\ faulty = FALSE

=============================================================================
