------------------------ MODULE SCPConversationProofs ------------------------
(***************************************************************************)
(* The conversation of the source and the sink of this repository: what    *)
(* the sink has read and what the source has still to do fit together,     *)
(* whatever the environment does.  From it follow where the sink is, what  *)
(* the variables hold, and that only the environment can make either fail. *)
(***************************************************************************)
EXTENDS SCPTransferProofs

-----------------------------------------------------------------------------
(***************************************************************************)
(* The conversation.  As long as the sink is not done it is either new, or *)
(* at rest, where the source will go on, or a task of the source is under  *)
(* way, or what it will read is no message.                                *)
(***************************************************************************)
Units == [kind : UnitKinds, message : Sayable \cup {Invalid}]

At(p) == dir = Target \o p /\ depth = Len(p)

\* The states in directory p, when no time is announced and when one is.
Fits(q, p) ==
  /\ ~recursive /\ ~times => q = "NoRecurseNoTimesC"
  /\ ~recursive /\ times => q = "NoRecurseTimesCT"
  /\ recursive /\ ~times => q = IF p = << >> THEN "RecurseNoTimesCD"
                                          ELSE "RecurseNoTimesCDE"
  /\ recursive /\ times => q = "RecurseTimesCDET"
                              \/ (p = << >> /\ q = "RecurseTimesCDT")
FitsTimed(q) == q = IF recursive THEN "RecurseTimesCD" ELSE "NoRecurseTimesC"

\* The state in which the first of the tasks s finds the parser in directory p.
Ready(q, p, s) ==
  IF times /\ s # << >> /\ s[1].op \in {"C", "D"} THEN FitsTimed(q) ELSE Fits(q, p)

Position(s) == IF s = << >> THEN << >> ELSE Before(s[1])

Live == outcome = "running" /\ linkUp

New ==
  /\ phase = "new"
  /\ todo # << >> /\ todo[1].op = "stat"
  /\ At(<< >>)
  /\ stream = << >>
  /\ waiting
  /\ Live => acks = << >>

Resting ==
  /\ phase \in {"header", "content", "end"}
  /\ At(Position(todo))
  /\ Ready(state, Position(todo), todo)
  /\ phase = "header" <=> ~(todo # << >> /\ todo[1].op = "data")
  /\ phase = "header" => stream = << >>
  /\ \A i \in 1 .. Len(stream) : stream[i].kind # "nul"
  /\ Live => stream = << >> /\ acks = IF waiting THEN <<"ok">> ELSE << >>

UnderWay(t) ==
  /\ IsTask(t) /\ t.op \in {"T", "C", "D", "E", "data"}
  /\ Linked(t, todo)
  /\ At(Before(t))
  /\ Ready(state, Before(t), <<t>>)
  /\ linkUp => outcome = "running" /\ waiting /\ acks = << >>
  /\ IF t.op = "data"
       THEN phase \in {"content", "end"}
              /\ \A i \in 1 .. Len(stream) : stream[i].message = Invalid
       ELSE phase = "header" /\ stream = <<Line(String(MessageFor(t)))>>

Spoilt ==
  /\ phase = "header"
  /\ \E p \in Paths : At(p)
  /\ stream = << >> => ~linkUp
  /\ stream # << >> => stream[1].message = Invalid

Talk == New \/ Resting \/ (\E t \in TaskSet : UnderWay(t)) \/ Spoilt

Plan ==
  /\ SourceTree
  /\ Walk(todo)
  /\ outcome = "ok" => todo = << >> /\ ~waiting

Wires == stream \in Seq(Units) /\ acks \in Seq({"ok", "error"})

Conversation ==
  /\ Plan
  /\ Wires
  /\ phase # "done" => Talk

LEMMA SameTask ==
  ASSUME opts' = opts, src' = src, NEW t, NEW s
  PROVE  /\ IsTask(t)' <=> IsTask(t)
         /\ Walk(s)' <=> Walk(s)
         /\ Linked(t, s)' <=> Linked(t, s)
<1>1. \A u : IsTask(u)' <=> IsTask(u)
  BY DEF IsTask, times
<1>2. \A u, v : Follows(u, v)' <=> Follows(u, v)
  BY DEF Follows, Starts, Ends, times, Before, Behind
<1> QED
  BY <1>1, <1>2 DEF Walk, Steps, Linked, Ends, Behind

LEMMA SameReady ==
  ASSUME opts' = opts, NEW q, NEW p, NEW s
  PROVE  Ready(q, p, s)' <=> Ready(q, p, s)
BY DEF Ready, Fits, FitsTimed, times, recursive

\* Where the messages lead.
LEMMA StartFits == Fits(parserStart, << >>)
BY DEF Fits, parserStart

LEMMA AfterFile ==
  ASSUME NEW q, NEW p, NEW t, t.op = "C", Ready(q, p, <<t>>), "C" \in DOMAIN NextState[q]
  PROVE  Fits(NextState[q].C, p)
<1>1. (times /\ FitsTimed(q)) \/ (~times /\ Fits(q, p))
  BY DEF Ready
<1>2. CASE times /\ FitsTimed(q)
  BY <1>2 DEF Fits, FitsTimed, NextState
<1>3. CASE ~times /\ Fits(q, p)
  BY <1>3 DEF Fits, NextState
<1> QED
  BY <1>1, <1>2, <1>3

LEMMA AfterDirectory ==
  ASSUME NEW q, NEW p, NEW r, NEW t, t.op = "D", Ready(q, p, <<t>>),
         "D" \in DOMAIN NextState[q], r # << >>
  PROVE  Fits(NextState[q].D, r)
<1>1. (times /\ FitsTimed(q)) \/ (~times /\ Fits(q, p))
  BY DEF Ready
<1>2. CASE times /\ FitsTimed(q)
  BY <1>2 DEF Fits, FitsTimed, NextState
<1>3. CASE ~times /\ Fits(q, p)
  BY <1>3 DEF Fits, NextState
<1> QED
  BY <1>1, <1>2, <1>3

LEMMA AfterEnd ==
  ASSUME NEW q, NEW p, NEW r, NEW t, t.op = "E", Ready(q, p, <<t>>),
         "E" \in DOMAIN NextState[q]
  PROVE  Fits(IF r = << >> THEN TopState[q] ELSE NextState[q].E, r)
<1>1. Fits(q, p)
  BY DEF Ready
<1> QED
  BY <1>1 DEF Fits, NextState, TopState

LEMMA AfterTime ==
  ASSUME NEW q, NEW p, NEW t, t.op = "T", Ready(q, p, <<t>>), times,
         "T" \in DOMAIN NextState[q]
  PROVE  FitsTimed(NextState[q].T)
<1>1. Fits(q, p)
  BY DEF Ready
<1> QED
  BY <1>1 DEF Fits, FitsTimed, NextState

LEMMA OneLine ==
  ASSUME NEW u, stream = <<u>>, u.kind = "line"
  PROVE  /\ LineEnds # {} /\ NextMessage = u.message
         /\ SubSeq(stream, FirstLineEnd + 1, Len(stream)) = << >>
<1>1. LineEnds = {1}
  BY DEF LineEnds, EndsLine
<1>2. FirstLineEnd = 1
  BY <1>1 DEF FirstLineEnd
<1> QED
  BY <1>1, <1>2 DEF NextMessage

LEMMA NoLine ==
  ASSUME stream = << >>
  PROVE  LineEnds = {}
BY DEF LineEnds

\* What a task says is in the language.
LEMMA Said ==
  ASSUME SourceTree, NEW t, IsTask(t), t.op \in {"T", "C", "D", "E"}
  PROVE  /\ MessageFor(t) \in Sayable
         /\ MessageFor(t).type = t.op
         /\ t.op \in {"C", "D"} => MessageFor(t).name = Name(t.path)
         /\ Line(String(MessageFor(t))) \in Units
         /\ Line(String(MessageFor(t))).kind = "line"
         /\ Line(String(MessageFor(t))).message =
              IF Legible(MessageFor(t)) THEN MessageFor(t) ELSE Invalid
<1>1. t.path \in DOMAIN src /\ t.size \in Nat
  BY DEF IsTask, TaskSet
<1>2. t.path \in Paths /\ t.path # << >> /\ src[t.path].time \in Int
  BY <1>1 DEF SourceTree
<1>3. Name(t.path) \in Names
  BY <1>2, PathFront
<1>4. /\ MessageFor(t) \in Sayable
      /\ MessageFor(t).type = t.op
      /\ t.op \in {"C", "D"} => MessageFor(t).name = Name(t.path)
  <2>1. CASE t.op = "T"
    <3>1. MessageFor(t) = TMessage(src[t.path].time)
      BY <2>1 DEF MessageFor
    <3>2. MessageFor(t) \in Sayable
      BY <1>2, <3>1 DEF Sayable
    <3>3. MessageFor(t).type = "T"
      <4>1. TMessage(src[t.path].time).type = "T"
        BY DEF TMessage
      <4> QED
        BY <3>1, <4>1
    <3> QED
      BY <2>1, <3>2, <3>3
  <2>2. CASE t.op = "C"
    BY <1>1, <1>3, <2>2 DEF MessageFor, Sayable, CMessage
  <2>3. CASE t.op = "D"
    BY <1>1, <1>3, <2>3 DEF MessageFor, Sayable, DMessage
  <2>4. CASE t.op = "E"
    <3>1. MessageFor(t) = EMessage
      BY <2>4 DEF MessageFor
    <3>2. MessageFor(t) \in Sayable
      BY <3>1 DEF Sayable
    <3>3. MessageFor(t).type = "E"
      <4>1. EMessage.type = "E"
        BY DEF EMessage
      <4> QED
        BY <3>1, <4>1
    <3> QED
      BY <2>4, <3>2, <3>3
  <2> QED
    BY <2>1, <2>2, <2>3, <2>4
<1>5. parseSCPMessage(String(MessageFor(t))) =
        IF Legible(MessageFor(t)) THEN MessageFor(t) ELSE Invalid
  BY <1>4, LanguageAgrees
<1> DEFINE u == Line(String(MessageFor(t)))
<1>6. /\ u.kind = "line"
      /\ u.message = IF Legible(MessageFor(t)) THEN MessageFor(t) ELSE Invalid
  BY <1>5 DEF Line
<1>7. u \in Units
  <2> DEFINE m == parseSCPMessage(String(MessageFor(t)))
  <2>1. u = [kind |-> "line", message |-> m]
    BY DEF Line
  <2>2. m \in Sayable \cup {Invalid}
    BY <1>4, <1>5
  <2>3. "line" \in UnitKinds
    BY DEF UnitKinds
  <2> DEFINE S == Sayable \cup {Invalid}
  <2> HIDE DEF m, u, S
  <2>4. [kind |-> "line", message |-> m] \in [kind : UnitKinds, message : S]
    BY <2>2, <2>3 DEF S
  <2> QED
    BY <2>1, <2>4 DEF Units, S
<1> QED
  BY <1>4, <1>6, <1>7

\* When the sink takes a message, that is the task that is under way.
LEMMA Taken ==
  ASSUME Conversation, NEW x \in {"T", "C", "D", "E"}, Receives(x)
  PROVE  \E t \in TaskSet :
           /\ UnderWay(t) /\ t.op = x /\ IsTask(t)
           /\ Legible(MessageFor(t))
           /\ NextMessage = MessageFor(t)
           /\ SubSeq(stream, FirstLineEnd + 1, Len(stream)) = << >>
<1>1. phase = "header" /\ LineEnds # {} /\ NextMessage.type = x
  BY DEF Receives
<1>2. stream # << >>
  BY <1>1, NoLine
<1>3. ~New /\ ~Resting
  BY <1>1, <1>2 DEF New, Resting
<1>4. ~Spoilt
  <2>1. Spoilt => stream[1].message = Invalid
    BY <1>2 DEF Spoilt
  <2>2. Invalid.type = "invalid"
    BY DEF Invalid
  <2> QED
    BY <1>1, <2>1, <2>2 DEF NextMessage
<1>5. PICK t \in TaskSet : UnderWay(t)
  BY <1>1, <1>3, <1>4 DEF Conversation, Talk
<1>6. IsTask(t) /\ t.op \in {"T", "C", "D", "E"} /\ stream = <<Line(String(MessageFor(t)))>>
  BY <1>1, <1>5 DEF UnderWay
<1>7. SourceTree
  BY DEF Conversation, Plan
<1> DEFINE u == Line(String(MessageFor(t)))
           m == MessageFor(t)
<1>8. /\ m.type = t.op /\ u.kind = "line"
      /\ u.message = IF Legible(m) THEN m ELSE Invalid
  BY <1>6, <1>7, Said
<1> HIDE DEF u
<1>9. /\ NextMessage = u.message
      /\ SubSeq(stream, FirstLineEnd + 1, Len(stream)) = << >>
  BY <1>6, <1>8, OneLine DEF u
<1>10. Invalid.type = "invalid"
  BY DEF Invalid
<1>11. Legible(m) /\ NextMessage = m /\ t.op = x
  <2> HIDE DEF m
  <2> QED
    BY <1>1, <1>8, <1>9, <1>10
<1> QED
  BY <1>5, <1>6, <1>9, <1>11

-----------------------------------------------------------------------------
(***************************************************************************)
(* The sink.                                                               *)
(***************************************************************************)
LEMMA SubSeqWires ==
  ASSUME NEW S, NEW s \in Seq(S), NEW i \in Nat, i >= 1
  PROVE  SubSeq(s, i, Len(s)) \in Seq(S)
OBVIOUS

LEMMA FirstLineIsOne ==
  ASSUME Wires, LineEnds # {}
  PROVE  FirstLineEnd \in Nat /\ FirstLineEnd >= 1
<1>1. LineEnds \subseteq 1 .. Len(stream) /\ Len(stream) \in Nat
  BY DEF Wires, LineEnds
<1>2. PICK k \in LineEnds : TRUE
  OBVIOUS
<1>3. PICK i \in LineEnds : \A j \in LineEnds : i <= j
  <2> DEFINE S == {n \in 0 .. Len(stream) : \A j \in 0 .. n : j \notin LineEnds}
  <2> SUFFICES ASSUME \A i \in LineEnds : \E j \in LineEnds : j < i
               PROVE  FALSE
    BY <1>1
  <2>1. 0 \in S
    BY <1>1
  <2>2. ASSUME NEW n \in 0 .. Len(stream) - 1, n \in S
        PROVE  n + 1 \in S
    <3>1. \A j \in 0 .. n : j \notin LineEnds
      BY <2>2
    <3>2. n + 1 \notin LineEnds
      BY <1>1, <3>1
    <3> QED
      BY <1>1, <3>1, <3>2
  <2>3. 0 .. Len(stream) \subseteq S
    <3> HIDE DEF S
    <3> QED
      BY <1>1, <2>1, <2>2, Upwards
  <2> QED
    BY <1>1, <1>2, <2>3
<1>4. FirstLineEnd \in LineEnds
  BY <1>3 DEF FirstLineEnd
<1> QED
  BY <1>1, <1>4

LEMMA SinkWires ==
  ASSUME Wires, Sink
  PROVE  Wires'
<1>1. /\ stream \in Seq(Units) /\ acks \in Seq({"ok", "error"})
      /\ Append(acks, "ok") \in Seq({"ok", "error"})
      /\ Append(acks, "error") \in Seq({"ok", "error"})
  BY DEF Wires
<1>2. acks' \in {acks, Append(acks, "ok"), Append(acks, "error")}
  BY DEF Sink, SinkStarts, ReceiveC, ReceiveD, ReceiveE, ReceiveT, RejectMessage,
         CopyByte, FileWritten, ReceiveEnd, EndOfStream, SinkIOError, ack, Abort
<1>3. \/ stream' = stream
      \/ stream # << >> /\ stream' = Tail(stream)
      \/ LineEnds # {} /\ stream' = SubSeq(stream, FirstLineEnd + 1, Len(stream))
  BY DEF Sink, SinkStarts, ReceiveC, ReceiveD, ReceiveE, ReceiveT, RejectMessage,
         CopyByte, FileWritten, ReceiveEnd, EndOfStream, SinkIOError, Receives, ReadLine
<1>4. stream # << >> => Tail(stream) \in Seq(Units)
  BY <1>1
<1>5. LineEnds # {} => SubSeq(stream, FirstLineEnd + 1, Len(stream)) \in Seq(Units)
  <2> SUFFICES ASSUME LineEnds # {}
               PROVE  SubSeq(stream, FirstLineEnd + 1, Len(stream)) \in Seq(Units)
    OBVIOUS
  <2>1. FirstLineEnd + 1 \in Nat /\ FirstLineEnd + 1 >= 1
    BY FirstLineIsOne
  <2> QED
    BY <1>1, <2>1, SubSeqWires
<1> QED
  BY <1>1, <1>2, <1>3, <1>4, <1>5 DEF Wires

LEMMA OneOrMore ==
  \A n \in Nat : n >= 1 => n = 1 \/ (n > 1 /\ 1 \in 1 .. n - 1)
OBVIOUS

LEMMA StatAlone ==
  ASSUME NEW s, Walk(s), s # << >>, s[1].op = "stat"
  PROVE  Before(s[1]) = << >>
<1>1. s \in Seq(TaskSet) /\ Len(s) \in Nat /\ Len(s) >= 1
  BY DEF Walk, Steps
<1>2. Len(s) = 1
  <2> SUFFICES ASSUME Len(s) # 1 PROVE FALSE
    OBVIOUS
  <2>1. Follows(s[1], s[1 + 1])
    <3>1. 1 \in 1 .. Len(s) - 1
      BY <1>1, OneOrMore
    <3> QED
      BY <3>1 DEF Walk, Steps
  <2> QED
    BY <2>1 DEF Follows, Ends
<1> QED
  BY <1>2 DEF Walk, Behind, Before

\* What follows a task that is under way.
LEMMA AfterTask ==
  ASSUME SourceTree, NEW t, NEW s, IsTask(t), Walk(s), Linked(t, s)
  PROVE  /\ Position(s) = Behind(t)
         /\ t.op = "C" => s # << >> /\ s[1].op = "data" /\ s[1].size = t.size
                          /\ s[1].path = t.path
         /\ t.op = "D" => s # << >> /\ s[1].op = "list"
         /\ t.op = "T" => s # << >> /\ s[1].op \in {"C", "D"} /\ times
         /\ Ends(t) => \A q, p : Fits(q, p) => Ready(q, p, s)
         /\ Ends(t) => ~(s # << >> /\ s[1].op = "data")
<1>1. CASE s = << >>
  BY <1>1 DEF Linked, Position, Ends, Ready
<1>2. CASE s # << >>
  <2>1. Follows(t, s[1])
    BY <1>2 DEF Linked
  <2>2. Position(s) = Behind(t)
    BY <1>2, <2>1 DEF Follows, Position
  <2>3. t.op = "T" => times
    BY DEF IsTask
  <2>4. Ends(t) => Starts(s[1])
    BY <2>1 DEF Follows, Ends
  <2>5. Ends(t) => ~(times /\ s[1].op \in {"C", "D"}) /\ s[1].op # "data"
    BY <2>4 DEF Starts
  <2> QED
    BY <1>2, <2>1, <2>2, <2>3, <2>5 DEF Follows, Ends, Ready
<1> QED
  BY <1>1, <1>2

LEMMA TaskPath ==
  ASSUME SourceTree, NEW t, IsTask(t)
  PROVE  t.path \in Paths /\ t.path # << >> /\ Before(t) \in Paths /\ Behind(t) \in Paths
<1>1. t.path \in Paths /\ t.path # << >>
  BY DEF IsTask, SourceTree
<1>2. Front(t.path) \in Paths
  BY <1>1, PathFront
<1> QED
  BY <1>1, <1>2 DEF Before, Behind

LEMMA SinkPlan ==
  ASSUME Conversation, Sink, UNCHANGED clientVars
  PROVE  Plan' /\ Wires' /\ opts' = opts /\ src' = src /\ todo' = todo
<1>1. /\ src' = src /\ todo' = todo /\ outcome' = outcome /\ waiting' = waiting
  BY DEF clientVars
<1>2. opts' = opts
  BY DEF Sink, SinkStarts, ReceiveC, ReceiveD, ReceiveE, ReceiveT, RejectMessage,
         CopyByte, FileWritten, ReceiveEnd, EndOfStream, SinkIOError
<1>3. Walk(todo)'
  <2>1. Walk(todo)' <=> Walk(todo)
    <3>1. PICK s : s = todo
      OBVIOUS
    <3>2. Walk(s)' <=> Walk(s)
      BY <1>1, <1>2, SameTask
    <3> QED
      BY <1>1, <3>1, <3>2
  <2> QED
    BY <2>1 DEF Conversation, Plan
<1>4. SourceTree'
  BY <1>1 DEF Conversation, Plan, SourceTree
<1> QED
  BY <1>1, <1>2, <1>3, <1>4, SinkWires DEF Conversation, Plan

\* The sink has taken a message, and rests with the acknowledgement on its way.
LEMMA RestAfter ==
  ASSUME Conversation, UNCHANGED clientVars, opts' = opts,
         NEW t \in TaskSet, UnderWay(t), IsTask(t),
         phase' = IF t.op = "C" THEN "content" ELSE "header",
         t.op \in {"C", "D", "E", "T", "data"},
         stream' = << >>, acks' = Append(acks, "ok"),
         dir' = Target \o Behind(t), depth' = Len(Behind(t)),
         IF t.op = "T" THEN FitsTimed(state') ELSE Fits(state', Behind(t))
  PROVE  Resting'
<1>1. SourceTree /\ Walk(todo) /\ Linked(t, todo)
  BY DEF Conversation, Plan, UnderWay
<1>2. /\ src' = src /\ todo' = todo /\ outcome' = outcome /\ waiting' = waiting
      /\ linkUp' = linkUp
  BY DEF clientVars
<1>3. /\ Position(todo) = Behind(t)
      /\ t.op = "C" => todo # << >> /\ todo[1].op = "data"
      /\ t.op = "D" => todo # << >> /\ todo[1].op = "list"
      /\ t.op = "T" => todo # << >> /\ todo[1].op \in {"C", "D"} /\ times
      /\ Ends(t) => \A q, p : Fits(q, p) => Ready(q, p, todo)
      /\ Ends(t) => ~(todo # << >> /\ todo[1].op = "data")
  BY <1>1, AfterTask
<1>4. Ready(state', Behind(t), todo)
  <2>1. CASE t.op = "T"
    BY <1>3, <2>1 DEF Ready
  <2>2. CASE t.op \in {"E", "data"}
    BY <1>3, <2>2 DEF Ends
  <2>3. CASE t.op \in {"C", "D"}
    BY <1>3, <2>3 DEF Ready
  <2> QED
    BY <2>1, <2>2, <2>3
<1>5. Ready(state, Position(todo), todo)'
  <2>1. PICK q, s : q = state' /\ s = todo
    OBVIOUS
  <2>2. Ready(q, Behind(t), s)' <=> Ready(q, Behind(t), s)
    BY SameReady
  <2>3. Position(todo)' = Behind(t)
    BY <1>2, <1>3 DEF Position
  <2> QED
    BY <1>2, <1>4, <2>1, <2>2, <2>3
<1>6. At(Position(todo))'
  BY <1>2, <1>3 DEF At, Position
<1>7. (phase = "header" <=> ~(todo # << >> /\ todo[1].op = "data"))'
  BY <1>2, <1>3 DEF Ends
<1>8. Live' => waiting' /\ acks' = <<"ok">>
  <2>1. linkUp => waiting /\ acks = << >>
    BY DEF UnderWay
  <2> QED
    BY <1>2, <2>1 DEF Live
<1> QED
  BY <1>5, <1>6, <1>7, <1>8 DEF Resting

LEMMA ReceivesTalk ==
  ASSUME Conversation, UNCHANGED clientVars,
         ReceiveC \/ ReceiveD \/ ReceiveE \/ ReceiveT,
         opts' = opts, phase' # "done"
  PROVE  Resting'
<1>1. SourceTree
  BY DEF Conversation, Plan
<1>2. CASE ReceiveC
  <2>1. Receives("C") /\ "C" \in DOMAIN NextState[state]
    BY <1>2 DEF ReceiveC, Receives
  <2>2. PICK t \in TaskSet :
          /\ UnderWay(t) /\ t.op = "C" /\ IsTask(t)
          /\ SubSeq(stream, FirstLineEnd + 1, Len(stream)) = << >>
    BY <2>1, Taken
  <2>3. /\ phase' = "content" /\ state' = NextState[state].C
        /\ acks' = Append(acks, "ok") /\ dir' = dir /\ depth' = depth
        /\ stream' = << >>
    BY <1>2, <2>2 DEF ReceiveC, Abort, ack, ReadLine
  <2>4. At(Before(t)) /\ Ready(state, Before(t), <<t>>)
    BY <2>2 DEF UnderWay
  <2>5. Behind(t) = Before(t)
    BY <2>2 DEF Behind, Before
  <2>6. Fits(state', Behind(t))
    BY <2>1, <2>2, <2>3, <2>4, <2>5, AfterFile
  <2>7. dir' = Target \o Behind(t) /\ depth' = Len(Behind(t))
    BY <2>3, <2>4, <2>5 DEF At
  <2> QED
    BY <2>2, <2>3, <2>6, <2>7, RestAfter
<1>3. CASE ReceiveD
  <2>1. Receives("D") /\ "D" \in DOMAIN NextState[state] /\ phase = "header"
    BY <1>3 DEF ReceiveD, Receives
  <2>2. PICK t \in TaskSet :
          /\ UnderWay(t) /\ t.op = "D" /\ IsTask(t)
          /\ NextMessage = MessageFor(t)
          /\ SubSeq(stream, FirstLineEnd + 1, Len(stream)) = << >>
    BY <2>1, Taken
  <2>3. /\ phase' = "header" /\ state' = NextState[state].D
        /\ acks' = Append(acks, "ok") /\ dir' = Append(dir, NextMessage.name)
        /\ depth' = depth + 1 /\ stream' = << >>
    BY <1>3, <2>1, <2>2 DEF ReceiveD, Abort, ack, ReadLine
  <2>4. At(Before(t)) /\ Ready(state, Before(t), <<t>>)
    BY <2>2 DEF UnderWay
  <2>5. Behind(t) = t.path /\ Before(t) = Front(t.path)
    BY <2>2 DEF Behind, Before
  <2>6. t.path \in Paths /\ t.path # << >>
    BY <1>1, <2>2, TaskPath
  <2>7. Fits(state', Behind(t))
    BY <2>1, <2>2, <2>3, <2>4, <2>5, <2>6, AfterDirectory
  <2>8. NextMessage.name = Name(t.path)
    BY <1>1, <2>2, Said
  <2>9. dir' = Target \o t.path /\ depth' = Len(t.path)
    <3>1. /\ Front(t.path) \in Paths /\ Len(Front(t.path)) = Len(t.path) - 1
          /\ Name(t.path) \in Names /\ Append(Front(t.path), Name(t.path)) = t.path
      BY <2>6, PathFront
    <3>2. dir = Target \o Front(t.path) /\ depth = Len(Front(t.path))
      BY <2>4, <2>5 DEF At
    <3>3. Append(Target \o Front(t.path), Name(t.path)) = Target \o t.path
      <4>1. \A n \in Names :
              Append(Target \o Front(t.path), n) = Target \o Append(Front(t.path), n)
        BY <3>1, InTarget
      <4>2. Append(Target \o Front(t.path), Name(t.path))
              = Target \o Append(Front(t.path), Name(t.path))
        BY <3>1, <4>1, Zenon
      <4> QED
        BY <3>1, <4>2, Zenon
    <3>4. Len(t.path) \in Nat
      BY <2>6 DEF Paths
    <3> QED
      BY <2>3, <2>8, <3>1, <3>2, <3>3, <3>4
  <2> QED
    BY <2>2, <2>3, <2>5, <2>7, <2>9, RestAfter
<1>4. CASE ReceiveE
  <2>1. Receives("E") /\ "E" \in DOMAIN NextState[state] /\ phase = "header"
    BY <1>4 DEF ReceiveE, Receives
  <2>2. PICK t \in TaskSet :
          /\ UnderWay(t) /\ t.op = "E" /\ IsTask(t)
          /\ SubSeq(stream, FirstLineEnd + 1, Len(stream)) = << >>
    BY <2>1, Taken
  <2>3. /\ phase' = "header"
        /\ state' = IF depth' = 0 THEN TopState[state] ELSE NextState[state].E
        /\ acks' = Append(acks, "ok") /\ dir' = Parent(dir)
        /\ depth' = depth - 1 /\ stream' = << >>
    BY <1>4, <2>1, <2>2 DEF ReceiveE, ack, ReadLine
  <2>4. At(Before(t)) /\ Ready(state, Before(t), <<t>>)
    BY <2>2 DEF UnderWay
  <2>5. Before(t) = t.path /\ Behind(t) = Front(t.path)
    BY <2>2 DEF Behind, Before
  <2>6. t.path \in Paths /\ t.path # << >> /\ Len(t.path) \in Nat
    BY <1>1, <2>2, TaskPath DEF Paths
  <2>7. /\ Front(t.path) \in Paths /\ Len(Front(t.path)) = Len(t.path) - 1
        /\ Parent(Target \o t.path) = Target \o Front(t.path)
    BY <2>6, PathFront, ParentInTarget
  <2>8. dir' = Target \o Behind(t) /\ depth' = Len(Behind(t))
    BY <2>3, <2>4, <2>5, <2>6, <2>7 DEF At
  <2>9. depth' = 0 <=> Behind(t) = << >>
    BY <2>5, <2>7, <2>8 DEF Paths
  <2>10. Fits(IF Behind(t) = << >> THEN TopState[state] ELSE NextState[state].E, Behind(t))
    BY <2>1, <2>2, <2>4, AfterEnd
  <2>11. Fits(state', Behind(t))
    BY <2>3, <2>9, <2>10
  <2> QED
    BY <2>2, <2>3, <2>8, <2>11, RestAfter
<1>5. CASE ReceiveT
  <2>1. Receives("T") /\ "T" \in DOMAIN NextState[state] /\ phase = "header"
    BY <1>5 DEF ReceiveT, Receives
  <2>2. PICK t \in TaskSet :
          /\ UnderWay(t) /\ t.op = "T" /\ IsTask(t)
          /\ SubSeq(stream, FirstLineEnd + 1, Len(stream)) = << >>
    BY <2>1, Taken
  <2>3. /\ phase' = "header" /\ state' = NextState[state].T
        /\ acks' = Append(acks, "ok") /\ dir' = dir /\ depth' = depth
        /\ stream' = << >>
    BY <1>5, <2>1, <2>2 DEF ReceiveT, ack, ReadLine
  <2>4. At(Before(t)) /\ Ready(state, Before(t), <<t>>) /\ times
    BY <2>2 DEF UnderWay, IsTask
  <2>5. Behind(t) = Before(t)
    BY <2>2 DEF Behind, Before
  <2>6. FitsTimed(state')
    BY <2>1, <2>2, <2>3, <2>4, AfterTime
  <2>7. dir' = Target \o Behind(t) /\ depth' = Len(Behind(t))
    BY <2>3, <2>4, <2>5 DEF At
  <2> QED
    BY <2>2, <2>3, <2>6, <2>7, RestAfter
<1> QED
  BY <1>2, <1>3, <1>4, <1>5

LEMMA StartsTalk ==
  ASSUME Conversation, UNCHANGED clientVars, SinkStarts, opts' = opts, phase' # "done"
  PROVE  Resting'
<1>1. New
  BY DEF Conversation, Talk, SinkStarts, New, Resting, UnderWay, Spoilt
<1>2. /\ phase' = "header" /\ acks' = Append(acks, "ok") /\ state' = parserStart
      /\ stream' = stream /\ dir' = dir /\ depth' = depth
  BY DEF SinkStarts, ack
<1>3. /\ todo' = todo /\ outcome' = outcome /\ waiting' = waiting /\ linkUp' = linkUp
  BY DEF clientVars
<1>4. Position(todo) = << >>
  BY <1>1, StatAlone DEF New, Position, Conversation, Plan
<1>5. Ready(state', << >>, todo)
  <2>1. Fits(parserStart, << >>)
    BY StartFits
  <2> QED
    BY <1>1, <1>2, <2>1 DEF Ready, New
<1>6. Ready(state, Position(todo), todo)'
  <2>1. PICK q, s : q = state' /\ s = todo
    OBVIOUS
  <2>2. Ready(q, << >>, s)' <=> Ready(q, << >>, s)
    BY SameReady
  <2>3. Position(todo)' = << >>
    BY <1>3, <1>4 DEF Position
  <2> QED
    BY <1>3, <1>5, <2>1, <2>2, <2>3
<1>7. At(Position(todo))'
  BY <1>1, <1>2, <1>3, <1>4 DEF New, At, Position
<1>8. (phase = "header" <=> ~(todo # << >> /\ todo[1].op = "data"))'
  BY <1>1, <1>2, <1>3 DEF New
<1>9. /\ stream' = << >>
      /\ Live' => waiting' /\ acks' = <<"ok">>
  <2>1. Live' => Live
    BY <1>3 DEF Live
  <2>2. Append(<< >>, "ok") = <<"ok">>
    OBVIOUS
  <2>3. stream = << >> /\ waiting /\ (Live => acks = << >>)
    BY <1>1 DEF New
  <2> QED
    BY <1>2, <1>3, <2>1, <2>2, <2>3
<1> QED
  BY <1>2, <1>6, <1>7, <1>8, <1>9 DEF Resting

\* A predicate of the sink's place is kept by a step that leaves it alone.
Place == <<opts, state, dir, depth, clientVars>>

LEMMA RestStays ==
  ASSUME UNCHANGED Place, UNCHANGED acks, Resting, Wires, Wires',
         phase' \in {"content", "end"}, phase \in {"content", "end"},
         stream' = stream \/ (stream # << >> /\ stream' = Tail(stream))
  PROVE  Resting'
<1>1. /\ opts' = opts /\ state' = state /\ dir' = dir /\ depth' = depth
      /\ todo' = todo /\ outcome' = outcome /\ waiting' = waiting /\ linkUp' = linkUp
  BY DEF Place, clientVars
<1>2. Ready(state, Position(todo), todo)'
  <2>1. PICK q, p, s : q = state /\ s = todo /\ p = Position(todo)
    OBVIOUS
  <2>2. Ready(q, p, s)' <=> Ready(q, p, s)
    BY <1>1, SameReady
  <2>3. Position(todo)' = p
    BY <1>1, <2>1 DEF Position
  <2> QED
    BY <1>1, <2>1, <2>2, <2>3 DEF Resting
<1>3. At(Position(todo))'
  BY <1>1 DEF Resting, At, Position
<1>4. \A i \in 1 .. Len(stream') : stream'[i].kind # "nul"
  <2>1. CASE stream' = stream
    BY <2>1 DEF Resting
  <2>2. CASE stream # << >> /\ stream' = Tail(stream)
    <3>1. stream \in Seq(Units)
      BY DEF Wires
    <3>2. Len(stream') = Len(stream) - 1 /\ \A i \in 1 .. Len(stream') : stream'[i] = stream[i + 1]
      BY <2>2, <3>1
    <3>3. \A i \in 1 .. Len(stream') : i + 1 \in 1 .. Len(stream)
      BY <3>1, <3>2
    <3> QED
      BY <3>2, <3>3 DEF Resting
  <2> QED
    BY <2>1, <2>2
<1>5. stream = << >> => stream' = << >>
  OBVIOUS
<1>6. Live' <=> Live
  BY <1>1 DEF Live
<1> QED
  BY <1>1, <1>2, <1>3, <1>4, <1>5, <1>6 DEF Resting

LEMMA DataStays ==
  ASSUME UNCHANGED Place, UNCHANGED acks, Wires, Wires',
         NEW t, UnderWay(t),
         phase' \in {"content", "end"}, phase \in {"content", "end"},
         stream' = stream \/ (stream # << >> /\ stream' = Tail(stream))
  PROVE  UnderWay(t)'
<1>1. /\ opts' = opts /\ state' = state /\ dir' = dir /\ depth' = depth /\ src' = src
      /\ todo' = todo /\ outcome' = outcome /\ waiting' = waiting /\ linkUp' = linkUp
  BY DEF Place, clientVars
<1>2. t.op = "data" /\ \A i \in 1 .. Len(stream) : stream[i].message = Invalid
  BY DEF UnderWay
<1>3. IsTask(t)' /\ Linked(t, todo)'
  <2>1. PICK s : s = todo
    OBVIOUS
  <2>2. (IsTask(t)' <=> IsTask(t)) /\ (Linked(t, s)' <=> Linked(t, s))
    BY <1>1, SameTask
  <2> QED
    BY <1>1, <2>1, <2>2 DEF UnderWay
<1>4. Ready(state, Before(t), <<t>>)'
  <2>1. PICK q : q = state
    OBVIOUS
  <2>2. Ready(q, Before(t), <<t>>)' <=> Ready(q, Before(t), <<t>>)
    BY <1>1, SameReady
  <2> QED
    BY <1>1, <2>1, <2>2 DEF UnderWay
<1>5. At(Before(t))'
  BY <1>1 DEF UnderWay, At
<1>6. \A i \in 1 .. Len(stream') : stream'[i].message = Invalid
  <2>1. CASE stream' = stream
    BY <1>2, <2>1
  <2>2. CASE stream # << >> /\ stream' = Tail(stream)
    <3>1. stream \in Seq(Units)
      BY DEF Wires
    <3>2. Len(stream') = Len(stream) - 1 /\ \A i \in 1 .. Len(stream') : stream'[i] = stream[i + 1]
      BY <2>2, <3>1
    <3>3. \A i \in 1 .. Len(stream') : i + 1 \in 1 .. Len(stream)
      BY <3>1, <3>2
    <3> QED
      BY <1>2, <3>2, <3>3
  <2> QED
    BY <2>1, <2>2
<1>7. linkUp' => outcome' = "running" /\ waiting' /\ acks' = << >>
  BY <1>1 DEF UnderWay
<1> QED
  BY <1>2, <1>3, <1>4, <1>5, <1>6, <1>7 DEF UnderWay

LEMMA EndTalk ==
  ASSUME Conversation, UNCHANGED clientVars, ReceiveEnd, opts' = opts, Wires',
         phase' # "done"
  PROVE  Talk'
<1>1. /\ phase = "end" /\ stream # << >> /\ Head(stream).kind = "nul"
      /\ phase' = "header" /\ acks' = Append(acks, "ok") /\ stream' = Tail(stream)
      /\ UNCHANGED <<opts, state, dir, depth>>
  BY DEF ReceiveEnd, Abort, ack
<1>2. stream \in Seq(Units) /\ Len(stream) \in Nat /\ Len(stream) >= 1
      /\ stream[1].kind = "nul"
  BY <1>1 DEF Conversation, Wires
<1>3. ~New /\ ~Spoilt /\ ~Resting
  BY <1>1, <1>2 DEF New, Spoilt, Resting
<1>4. PICK t \in TaskSet : UnderWay(t)
  BY <1>1, <1>3 DEF Conversation, Talk
<1>5. /\ t.op = "data" /\ IsTask(t) /\ At(Before(t)) /\ Ready(state, Before(t), <<t>>)
      /\ \A i \in 1 .. Len(stream) : stream[i].message = Invalid
  BY <1>1, <1>4 DEF UnderWay
<1>6. Behind(t) = Before(t)
  BY <1>5 DEF Behind, Before
<1>7. dir' = Target \o Behind(t) /\ depth' = Len(Behind(t))
  BY <1>1, <1>5, <1>6 DEF At
<1>8. CASE stream' = << >>
  <2>1. Fits(state', Behind(t))
    BY <1>1, <1>5, <1>6 DEF Ready
  <2>2. Resting'
    BY <1>1, <1>4, <1>5, <1>7, <1>8, <2>1, RestAfter
  <2> QED
    BY <2>2 DEF Talk
<1>9. CASE stream' # << >>
  <2>1. 2 \in 1 .. Len(stream) /\ stream'[1] = stream[2]
    BY <1>1, <1>2, <1>9
  <2>2. stream'[1].message = Invalid
    BY <1>5, <2>1
  <2>3. Behind(t) \in Paths
    BY <1>5, TaskPath DEF Conversation, Plan
  <2>4. Spoilt'
    BY <1>1, <1>7, <1>9, <2>2, <2>3 DEF Spoilt, At
  <2> QED
    BY <2>4 DEF Talk
<1> QED
  BY <1>8, <1>9

LEMMA ContentTalk ==
  ASSUME Conversation, UNCHANGED clientVars, CopyByte \/ FileWritten, Wires'
  PROVE  Talk'
<1>1. /\ UNCHANGED Place /\ UNCHANGED acks
      /\ phase = "content" /\ phase' \in {"content", "end"}
      /\ stream' = stream \/ (stream # << >> /\ stream' = Tail(stream))
  BY DEF CopyByte, FileWritten, Place
<1>2. Wires
  BY DEF Conversation
<1>3. Resting \/ \E t \in TaskSet : UnderWay(t)
  BY <1>1 DEF Conversation, Talk, New, Spoilt
<1>4. Resting => Resting'
  BY <1>1, <1>2, RestStays
<1>5. \A t \in TaskSet : UnderWay(t) => UnderWay(t)'
  BY <1>1, <1>2, DataStays
<1> QED
  BY <1>3, <1>4, <1>5 DEF Talk

LEMMA SinkConversation ==
  ASSUME Conversation, Sink, UNCHANGED clientVars
  PROVE  Conversation'
<1>1. Plan' /\ Wires' /\ opts' = opts
  BY SinkPlan
<1>2. phase' # "done" => Talk'
  <2> SUFFICES ASSUME phase' # "done" PROVE Talk'
    OBVIOUS
  <2>1. CASE SinkStarts
    BY <1>1, <2>1, StartsTalk DEF Talk
  <2>2. CASE ReceiveC \/ ReceiveD \/ ReceiveE \/ ReceiveT
    BY <1>1, <2>2, ReceivesTalk DEF Talk
  <2>3. CASE CopyByte \/ FileWritten
    BY <1>1, <2>3, ContentTalk
  <2>4. CASE ReceiveEnd
    BY <1>1, <2>4, EndTalk
  <2>5. CASE RejectMessage \/ EndOfStream \/ SinkIOError
    BY <2>5 DEF RejectMessage, EndOfStream, SinkIOError, Abort
  <2> QED
    BY <2>1, <2>2, <2>3, <2>4, <2>5 DEF Sink
<1> QED
  BY <1>1, <1>2 DEF Conversation

-----------------------------------------------------------------------------
(***************************************************************************)
(* The source.                                                             *)
(***************************************************************************)
LEMMA FailWires ==
  ASSUME Wires, SourceFails
  PROVE  /\ stream' \in Seq(Units)
         /\ ~linkUp => stream' = stream
         /\ linkUp /\ stream = << >> =>
              /\ stream' # << >> /\ stream'[1].message = Invalid
              /\ \A i \in 1 .. Len(stream') : stream'[i].kind # "nul"
         /\ stream # << >> => stream' # << >> /\ stream'[1] = stream[1]
         /\ \A i \in 1 .. Len(stream') :
              stream'[i].kind # "nul" \/ (i \in 1 .. Len(stream) /\ stream'[i] = stream[i])
<1>1. stream \in Seq(Units)
  BY DEF Wires
<1> DEFINE a == Unit("text")
           b == Unit("newline")
<1>2. a \in Units /\ b \in Units /\ a.message = Invalid /\ a.kind # "nul" /\ b.kind # "nul"
  BY DEF Units, UnitKinds, Unit
<1>3. ErrorReport = <<a, b>>
  BY DEF ErrorReport
<1> HIDE DEF a, b
<1> DEFINE r == stream \o <<a, b>>
<1>4. /\ r \in Seq(Units) /\ Len(r) = Len(stream) + 2
      /\ \A i \in 1 .. Len(stream) : r[i] = stream[i]
  BY <1>1, <1>2, LongerTwo
<1>5. r[Len(stream) + 1] = a /\ r[Len(stream) + 2] = b
  BY <1>1, <1>2
<1>6. Len(stream) \in Nat /\ (stream = << >> => Len(stream) = 0)
      /\ (stream # << >> => Len(stream) >= 1)
  BY <1>1
<1>7. stream' = IF linkUp THEN r ELSE stream
  BY <1>3 DEF SourceFails
<1> HIDE DEF r
<1>8. \A i \in 1 .. Len(r) : i \in 1 .. Len(stream) \/ i = Len(stream) + 1 \/ i = Len(stream) + 2
  BY <1>4, <1>6
<1>9. \A i \in 1 .. Len(r) :
        r[i].kind # "nul" \/ (i \in 1 .. Len(stream) /\ r[i] = stream[i])
  BY <1>2, <1>4, <1>5, <1>8
<1>10. r # << >> /\ (stream = << >> => r[1] = a) /\ (stream # << >> => r[1] = stream[1])
  BY <1>4, <1>5, <1>6
<1>11. stream = << >> => \A i \in 1 .. Len(r) : r[i].kind # "nul"
  BY <1>6, <1>9
<1> QED
  BY <1>1, <1>2, <1>4, <1>7, <1>9, <1>10, <1>11

LEMMA Opened ==
  ASSUME SourceTree, NEW p \in DOMAIN src
  PROVE  /\ OpenedPath(p) \in DOMAIN src
         /\ Len(p) = 1 \/ Name(p) # Last(Front(p)) => OpenedPath(p) = p
<1>1. /\ p \in Paths /\ p # << >> /\ Len(p) \in Nat
      /\ Len(p) > 1 => Front(p) \in DOMAIN src
  BY DEF SourceTree, Paths
<1>2. Append(Front(p), Name(p)) = p
  BY <1>1, PathFront
<1>3. CASE Len(p) = 1
  BY <1>3 DEF OpenedPath, Name
<1>4. CASE Len(p) # 1
  <2>1. Len(p) >= 1
    BY <1>1 DEF Paths
  <2>2. Len(p) > 1
    BY <1>1, <1>4, <2>1, OneOrMore
  <2> QED
    BY <1>1, <1>2, <1>4, <2>2 DEF OpenedPath
<1> QED
  BY <1>3, <1>4

LEMMA PositionPath ==
  ASSUME Plan
  PROVE  Position(todo) \in Paths
<1>1. CASE todo = << >>
  BY <1>1 DEF Position, Paths
<1>2. CASE todo # << >>
  <2>1. 1 \in 1 .. Len(todo)
    BY <1>2 DEF Plan, Walk, Steps
  <2>2. IsTask(todo[1])
    BY <2>1 DEF Plan, Walk, Steps
  <2> QED
    BY <1>2, <2>2, TaskPath DEF Plan, Position
<1> QED
  BY <1>1, <1>2

\* The source goes on with the tasks s where the sink rests.
LEMMA MoveRest ==
  ASSUME UNCHANGED <<opts, state, dir, depth>>, NEW p, At(p), NEW s, todo' = s,
         Position(s) = p, Ready(state, p, s)
  PROVE  At(Position(todo))' /\ Ready(state, Position(todo), todo)'
<1>1. At(Position(todo))'
  BY DEF At, Position
<1>2. PICK q : q = state
  OBVIOUS
<1>3. Ready(q, p, s)' <=> Ready(q, p, s)
  BY SameReady
<1>4. Position(todo)' = p
  BY DEF Position
<1> QED
  BY <1>1, <1>2, <1>3, <1>4

LEMMA KeepTask ==
  ASSUME UNCHANGED <<opts, src, state, dir, depth>>, NEW t, NEW s, todo' = s,
         IsTask(t), Linked(t, s), At(Before(t)), Ready(state, Before(t), <<t>>)
  PROVE  /\ IsTask(t)' /\ Linked(t, todo)'
         /\ At(Before(t))' /\ Ready(state, Before(t), <<t>>)'
<1>1. (IsTask(t)' <=> IsTask(t)) /\ (Linked(t, s)' <=> Linked(t, s))
  BY SameTask
<1>2. PICK q : q = state
  OBVIOUS
<1>3. Ready(q, Before(t), <<t>>)' <=> Ready(q, Before(t), <<t>>)
  BY SameReady
<1>4. At(Before(t))'
  BY DEF At
<1> QED
  BY <1>1, <1>2, <1>3, <1>4

\* While the source can go on the sink rests, or what it will read is no message.
LEMMA FreeSource ==
  ASSUME Conversation, outcome = "running", linkUp, phase # "done",
         ~waiting \/ acks # << >>
  PROVE  Resting \/ Spoilt
BY DEF Conversation, Talk, New, UnderWay, Live

LEMMA FailTalk ==
  ASSUME Conversation, SourceFails, UNCHANGED <<opts, phase, state, depth, dir, src, todo, linkUp>>,
         waiting' = waiting \/ linkUp,
         linkUp => Resting \/ Spoilt,
         phase # "done"
  PROVE  Talk'
<1>1. Wires /\ Plan
  BY DEF Conversation
<1>2. outcome' = "error" /\ ~Live'
  BY DEF SourceFails, Live
<1>3. CASE New
  BY <1>1, <1>2, <1>3, FailWires DEF Talk, New, At, Resting, Spoilt
<1>4. CASE Resting
  <2>1. At(Position(todo))' /\ Ready(state, Position(todo), todo)'
    <3>1. PICK s, p : s = todo /\ p = Position(todo)
      OBVIOUS
    <3> QED
      BY <1>4, <3>1, MoveRest DEF Resting
  <2>2. CASE phase = "header" /\ linkUp
    <3>1. stream = << >>
      BY <1>4, <2>2 DEF Resting
    <3>2. stream' # << >> /\ stream'[1].message = Invalid
      BY <1>1, <2>2, <3>1, FailWires
    <3>3. Spoilt'
      BY <1>1, <1>4, <2>2, <3>2, PositionPath DEF Spoilt, At, Resting
    <3> QED
      BY <3>3 DEF Talk
  <2>3. CASE phase # "header" \/ ~linkUp
    <3>1. \A i \in 1 .. Len(stream') : stream'[i].kind # "nul"
      BY <1>1, <1>4, FailWires DEF Resting
    <3>2. phase = "header" => stream' = << >>
      BY <1>1, <1>4, <2>3, FailWires DEF Resting
    <3>3. Resting'
      BY <1>2, <1>4, <2>1, <3>1, <3>2 DEF Resting
    <3> QED
      BY <3>3 DEF Talk
  <2> QED
    BY <2>2, <2>3
<1>5. CASE ~linkUp /\ \E t \in TaskSet : UnderWay(t)
  <2>1. PICK t \in TaskSet : UnderWay(t)
    BY <1>5
  <2>2. stream' = stream /\ ~linkUp'
    BY <1>1, <1>5, FailWires
  <2>3. /\ IsTask(t)' /\ Linked(t, todo)'
        /\ At(Before(t))' /\ Ready(state, Before(t), <<t>>)'
    <3>1. PICK s : s = todo
      OBVIOUS
    <3> QED
      BY <2>1, <3>1, KeepTask DEF UnderWay
  <2>4. MessageFor(t)' = MessageFor(t)
    BY DEF MessageFor
  <2>5. UnderWay(t)'
    BY <2>1, <2>2, <2>3, <2>4 DEF UnderWay, Line
  <2> QED
    BY <2>5 DEF Talk
<1>6. CASE Spoilt
  <2>1. stream' = << >> => ~linkUp'
    BY <1>1, <1>6, FailWires DEF Spoilt
  <2>2. stream # << >> => stream' # << >> /\ stream'[1] = stream[1]
    BY <1>1, FailWires
  <2>3. stream' # << >> => stream'[1].message = Invalid
    BY <1>1, <1>6, <2>2, FailWires DEF Spoilt
  <2>4. Spoilt'
    BY <1>6, <2>1, <2>3 DEF Spoilt, At
  <2> QED
    BY <2>4 DEF Talk
<1> QED
  BY <1>3, <1>4, <1>5, <1>6 DEF Conversation, Talk

LEMMA KeepPlan ==
  ASSUME opts' = opts, src' = src, SourceTree, Walk(todo')
  PROVE  SourceTree' /\ Walk(todo)'
<1>1. SourceTree'
  BY DEF SourceTree
<1>2. PICK s : s = todo'
  OBVIOUS
<1>3. Walk(s)' <=> Walk(s)
  BY SameTask
<1> QED
  BY <1>1, <1>2, <1>3

\* More is sent while the sink has still to read something that is no message.
LEMMA SpoiltStays ==
  ASSUME Spoilt, linkUp, UNCHANGED <<phase, dir, depth>>,
         stream # << >> => stream' # << >> /\ stream'[1] = stream[1]
  PROVE  Spoilt'
BY DEF Spoilt, At

LEMMA AppendWires ==
  ASSUME NEW S, NEW s \in Seq(S), NEW r \in Seq(S)
  PROVE  /\ s \o r \in Seq(S)
         /\ s # << >> => s \o r # << >> /\ (s \o r)[1] = s[1]
         /\ s = << >> => s \o r = r
OBVIOUS

LEMMA AppendUnit ==
  ASSUME NEW S, NEW s \in Seq(S), NEW u \in S
  PROVE  /\ Append(s, u) \in Seq(S)
         /\ s # << >> => Append(s, u) # << >> /\ Append(s, u)[1] = s[1]
         /\ s = << >> => Append(s, u) = <<u>>
<1>1. Append(s, u) \in Seq(S) /\ Len(Append(s, u)) = Len(s) + 1
      /\ \A i \in 1 .. Len(s) : Append(s, u)[i] = s[i]
  BY AppendProperties
<1>2. s # << >> => Append(s, u) # << >> /\ Append(s, u)[1] = s[1]
  BY <1>1
<1>3. s = << >> => Append(s, u) = <<u>>
  OBVIOUS
<1> QED
  BY <1>1, <1>2, <1>3

LEMMA StatsConversation ==
  ASSUME Conversation, SourceStats
  PROVE  Conversation'
<1>1. /\ outcome = "running" /\ linkUp /\ ~waiting /\ todo # << >> /\ Head(todo).op = "stat"
      /\ UNCHANGED <<opts, phase, state, depth, dir, src, linkUp, waiting, acks>>
  BY DEF SourceStats, Sending, SourceUnchanged
<1>2. Plan /\ Wires /\ SourceTree /\ Walk(todo) /\ todo \in Seq(TaskSet)
      /\ Head(todo) = todo[1]
  BY <1>1 DEF Conversation, Plan, Walk, Steps
<1>3. phase # "done" => Resting \/ Spoilt
  BY <1>1, FreeSource
<1>4. CASE SourceFails /\ UNCHANGED todo
  <2>1. Plan'
    BY <1>1, <1>2, <1>4, KeepPlan DEF SourceFails, Plan
  <2>2. Wires'
    BY <1>1, <1>2, <1>4, FailWires DEF Wires
  <2>3. phase # "done" => Talk'
    BY <1>1, <1>3, <1>4, FailTalk
  <2> QED
    BY <1>1, <2>1, <2>2, <2>3 DEF Conversation
<1>5. CASE todo' = Tasks(Top) /\ UNCHANGED <<outcome, stream, closed>>
  <2>1. Top \in DOMAIN src /\ Len(Top) = 1
    BY <1>2 DEF Top, SourceTree
  <2>2. Front(Top) = << >>
    <3>1. Top \in Paths /\ Top # << >>
      BY <1>2, <2>1 DEF SourceTree
    <3>2. Front(Top) \in Paths /\ Len(Front(Top)) = Len(Top) - 1
      BY <3>1, PathFront
    <3> QED
      BY <2>1, <3>2 DEF Paths
  <2> DEFINE s == Tasks(Top)
  <2>3. Stretch(s, << >>) /\ s # << >>
    BY <1>2, <2>1, <2>2, TasksStretch
  <2> HIDE DEF s
  <2>4. /\ Walk(s) /\ Position(s) = << >> /\ s[1].op # "data"
        /\ \A q, p : Fits(q, p) => Ready(q, p, s)
    BY <2>3 DEF Stretch, Walk, Position, Starts, Ready
  <2>5. Plan'
    BY <1>1, <1>2, <1>5, <2>4, KeepPlan DEF Plan, s
  <2>6. Position(todo) = << >> /\ \A q, p : Ready(q, p, todo) => Fits(q, p)
    BY <1>1, <1>2, StatAlone DEF Position, Ready
  <2>7. Resting => Resting'
    <3> SUFFICES ASSUME Resting PROVE Resting'
      OBVIOUS
    <3>1. At(Position(todo))' /\ Ready(state, Position(todo), todo)'
      BY <1>1, <1>5, <2>4, <2>6, MoveRest DEF Resting, s
    <3>2. phase = "header" /\ stream = << >> /\ acks = << >>
      BY <1>1, <1>2 DEF Resting, Live
    <3>3. todo' # << >> /\ todo'[1].op # "data"
      BY <1>5, <2>3, <2>4 DEF s
    <3>4. waiting' = FALSE
      BY <1>1
    <3> QED
      BY <1>1, <1>5, <3>1, <3>2, <3>3, <3>4 DEF Resting
  <2>8. Spoilt => Spoilt'
    BY <1>1, <1>5 DEF Spoilt, At
  <2>9. phase' # "done" => Talk'
    BY <1>1, <1>3, <2>7, <2>8 DEF Talk
  <2> QED
    BY <1>1, <1>2, <1>5, <2>5, <2>9 DEF Conversation, Wires
<1> QED
  BY <1>4, <1>5 DEF SourceStats

LEMMA SendsConversation ==
  ASSUME Conversation, SourceSends
  PROVE  Conversation'
<1> DEFINE t == Head(todo)
           u == Line(String(MessageFor(t)))
<1>1. /\ outcome = "running" /\ linkUp /\ ~waiting /\ todo # << >>
      /\ t.op \in {"T", "C", "D", "E"}
      /\ stream' = Append(stream, u) /\ todo' = Tail(todo) /\ waiting' = TRUE
      /\ UNCHANGED <<opts, phase, state, depth, dir, src, linkUp, acks, outcome>>
  BY DEF SourceSends, Sending, SourceUnchanged
<1>2. Plan /\ Wires /\ SourceTree /\ Walk(todo) /\ todo \in Seq(TaskSet)
      /\ t = todo[1] /\ stream \in Seq(Units)
  BY <1>1 DEF Conversation, Plan, Walk, Steps, Wires
<1>3. phase # "done" => Resting \/ Spoilt
  BY <1>1, FreeSource
<1>4. Walk(Tail(todo)) /\ IsTask(t) /\ Linked(t, Tail(todo)) /\ t \in TaskSet
  BY <1>1, <1>2, WalkTail DEF IsTask
<1>5. u \in Units
  BY <1>1, <1>2, <1>4, Said
<1>6. Plan'
  BY <1>1, <1>2, <1>4, KeepPlan DEF Plan
<1>7. /\ stream' \in Seq(Units)
      /\ stream # << >> => stream' # << >> /\ stream'[1] = stream[1]
      /\ stream = << >> => stream' = <<u>>
  <2> HIDE DEF u
  <2>1. stream \in Seq(Units) /\ u \in Units /\ stream' = Append(stream, u)
    BY <1>1, <1>2, <1>5
  <2> QED
    BY <2>1, AppendUnit
<1>8. Spoilt => Spoilt'
  BY <1>1, <1>7, SpoiltStays
<1>9. Resting => \E v \in TaskSet : UnderWay(v)'
  <2> SUFFICES ASSUME Resting PROVE \E v \in TaskSet : UnderWay(v)'
    OBVIOUS
  <2>1. PICK v \in TaskSet : v = t
    BY <1>4
  <2>2. /\ At(Before(v)) /\ Ready(state, Before(v), <<v>>)
        /\ phase = "header" /\ stream = << >> /\ acks = << >>
    BY <1>1, <1>2, <2>1 DEF Resting, Position, Live, Ready
  <2>3. /\ IsTask(v)' /\ Linked(v, todo)'
        /\ At(Before(v))' /\ Ready(state, Before(v), <<v>>)'
    <3>1. PICK s : s = Tail(todo)
      OBVIOUS
    <3> QED
      BY <1>1, <1>4, <2>1, <2>2, <3>1, KeepTask
  <2>4. MessageFor(v)' = MessageFor(v)
    BY <1>1 DEF MessageFor
  <2>5. stream' = <<Line(String(MessageFor(v)))>>
    BY <1>7, <2>1, <2>2 DEF u
  <2>6. UnderWay(v)'
    BY <1>1, <2>1, <2>2, <2>3, <2>4, <2>5 DEF UnderWay, Line
  <2> QED
    BY <2>6
<1>10. phase' # "done" => Talk'
  BY <1>1, <1>3, <1>8, <1>9 DEF Talk
<1> QED
  BY <1>1, <1>2, <1>6, <1>7, <1>10 DEF Conversation, Wires

LEMMA ListsConversation ==
  ASSUME Conversation, SourceLists
  PROVE  Conversation'
<1> DEFINE t == Head(todo)
           e == Task("E", t.path)
           r == <<e>> \o Tail(todo)
           s == Listed(t.path) \o r
<1>1. /\ outcome = "running" /\ linkUp /\ ~waiting /\ todo # << >> /\ t.op = "list"
      /\ todo' = Listed(t.path) \o <<e>> \o Tail(todo)
      /\ UNCHANGED <<opts, phase, state, depth, dir, src, linkUp, waiting, acks,
                     outcome, stream>>
  BY DEF SourceLists, Sending, SourceUnchanged, Listed
<1>2. Plan /\ Wires /\ SourceTree /\ Walk(todo) /\ todo \in Seq(TaskSet) /\ t = todo[1]
  BY <1>1 DEF Conversation, Plan, Walk, Steps
<1>3. phase # "done" => Resting \/ Spoilt
  BY <1>1, FreeSource
<1>4. Walk(Tail(todo)) /\ IsTask(t) /\ Linked(t, Tail(todo)) /\ Tail(todo) \in Seq(TaskSet)
  BY <1>1, <1>2, WalkTail DEF Walk, Steps
<1>5. e \in TaskSet /\ e.op = "E" /\ e.path = t.path /\ IsTask(e)
  <2>1. t.path \in DOMAIN src /\ src[t.path].dir
    BY <1>1, <1>4 DEF IsTask
  <2>2. e \in TaskSet /\ e.op = "E" /\ e.path = t.path
    BY <1>2, <2>1, OneTask DEF Ops
  <2> HIDE DEF e
  <2> QED
    BY <2>1, <2>2 DEF IsTask
<1> HIDE DEF e
<1>6. Walk(r) /\ r # << >> /\ Starts(r[1]) /\ Before(r[1]) = t.path /\ r \in Seq(TaskSet)
  <2>1. Behind(e) = Behind(t) /\ Ends(e) /\ Starts(e) /\ Before(e) = t.path
    BY <1>1, <1>5 DEF Behind, Ends, Starts, Before
  <2>2. Steps(<<e>>) /\ Steps(Tail(todo))
    BY <1>4, <1>5, OneStep DEF Walk
  <2>3. Tail(todo) # << >> => Follows(e, Tail(todo)[1])
    BY <1>1, <1>4, <2>1 DEF Linked, Follows
  <2>4. Tail(todo) = << >> => Behind(e) = << >>
    BY <1>4, <2>1 DEF Linked
  <2>5. <<e>> # << >> /\ <<e>>[1] = e /\ <<e>>[Len(<<e>>)] = e
    OBVIOUS
  <2>6. /\ Steps(r)
        /\ Tail(todo) = << >> => r = <<e>>
        /\ r # << >> /\ r[1] = e
        /\ Tail(todo) # << >> => r[Len(r)] = Tail(todo)[Len(Tail(todo))]
    BY <2>2, <2>3, <2>5, JoinSteps
  <2> DEFINE l == Tail(todo)
  <2> HIDE DEF r, l
  <2>7. CASE l = << >>
    <3>1. r[Len(r)] = e
      BY <2>5, <2>6, <2>7 DEF l
    <3> QED
      BY <2>1, <2>4, <2>6, <2>7, <3>1 DEF Walk, Steps, l
  <2>8. CASE l # << >>
    <3>1. r[Len(r)] = l[Len(l)] /\ Walk(l)
      BY <1>4, <2>6, <2>8 DEF l
    <3> QED
      BY <2>1, <2>6, <2>8, <3>1 DEF Walk, Steps
  <2> QED
    BY <2>7, <2>8
<1>7. Stretch(Listed(t.path), t.path)
  BY <1>2, ListedStretch
<1>8. todo' = s
  <2>1. Listed(t.path) \in Seq(TaskSet) /\ <<e>> \in Seq(TaskSet)
    BY <1>5, <1>7 DEF Stretch, Steps
  <2> DEFINE a == Listed(t.path)
             b == <<e>>
             c == Tail(todo)
  <2> HIDE DEF a, b, c
  <2>2. (a \o b) \o c = a \o (b \o c)
    BY <1>4, <2>1, ConcatAssociative DEF a, b, c
  <2> QED
    BY <1>1, <2>2 DEF a, b, c
<1> HIDE DEF r
<1>9. Walk(s) /\ s # << >> /\ Starts(s[1]) /\ Before(s[1]) = t.path
  BY <1>6, <1>7, StretchThenWalk
<1> HIDE DEF s
<1>10. Plan'
  BY <1>1, <1>2, <1>8, <1>9, KeepPlan DEF Plan
<1>11. Resting => Resting'
  <2> SUFFICES ASSUME Resting PROVE Resting'
    OBVIOUS
  <2>1. Position(todo) = t.path /\ Position(s) = t.path
    BY <1>1, <1>2, <1>9 DEF Position, Before
  <2>2. Ready(state, t.path, s)
    BY <1>1, <1>2, <1>9, <2>1 DEF Resting, Ready, Starts
  <2>3. At(Position(todo))' /\ Ready(state, Position(todo), todo)'
    BY <1>1, <1>8, <2>1, <2>2, MoveRest DEF Resting
  <2>4. phase = "header" /\ stream = << >> /\ acks = << >>
    BY <1>1, <1>2 DEF Resting, Live
  <2>5. todo' # << >> /\ todo'[1].op # "data"
    BY <1>8, <1>9 DEF Starts
  <2>6. waiting' = FALSE
    BY <1>1
  <2> QED
    BY <1>1, <2>3, <2>4, <2>5, <2>6 DEF Resting
<1>12. Spoilt => Spoilt'
  BY <1>1 DEF Spoilt, At
<1>13. phase' # "done" => Talk'
  BY <1>1, <1>3, <1>11, <1>12 DEF Talk
<1> QED
  BY <1>1, <1>2, <1>10, <1>13 DEF Conversation, Wires

LEMMA DataConversation ==
  ASSUME Conversation, SourceSendsData
  PROVE  Conversation'
<1> DEFINE t == Head(todo)
           node == src[OpenedPath(t.path)]
           c == [i \in DOMAIN node.content |-> Unit(node.content[i])]
           z == Unit("nul")
<1>1. /\ outcome = "running" /\ linkUp /\ ~waiting /\ todo # << >> /\ t.op = "data"
      /\ UNCHANGED <<opts, phase, state, depth, dir, src, linkUp, acks>>
      /\ \/ SourceFails /\ UNCHANGED <<todo, waiting>>
         \/ /\ stream' = stream \o c \o <<z>>
            /\ todo' = Tail(todo) /\ waiting' = TRUE /\ outcome' = outcome
  BY DEF SourceSendsData, Sending, SourceUnchanged
<1> HIDE DEF c, node, z
<1>2. Plan /\ Wires /\ SourceTree /\ Walk(todo) /\ todo \in Seq(TaskSet)
      /\ t = todo[1] /\ stream \in Seq(Units) /\ acks \in Seq({"ok", "error"})
  BY <1>1 DEF Conversation, Plan, Walk, Steps, Wires
<1>3. phase # "done" => Resting \/ Spoilt
  BY <1>1, FreeSource
<1>4. Walk(Tail(todo)) /\ IsTask(t) /\ Linked(t, Tail(todo)) /\ t \in TaskSet
  BY <1>1, <1>2, WalkTail DEF IsTask
<1>5. CASE SourceFails /\ UNCHANGED <<todo, waiting>>
  <2>1. Plan'
    BY <1>1, <1>2, <1>5, KeepPlan DEF SourceFails, Plan
  <2>2. Wires'
    BY <1>1, <1>2, <1>5, FailWires DEF Wires
  <2>3. phase # "done" => Talk'
    BY <1>1, <1>3, <1>5, FailTalk
  <2> QED
    BY <1>1, <2>1, <2>2, <2>3 DEF Conversation
<1>6. CASE /\ stream' = stream \o c \o <<z>>
           /\ todo' = Tail(todo) /\ waiting' = TRUE /\ outcome' = outcome
  <2>1. c \in Seq(Units) /\ \A i \in 1 .. Len(c) : c[i].message = Invalid
    <3>1. OpenedPath(t.path) \in DOMAIN src
      BY <1>2, <1>4, Opened DEF IsTask
    <3>2. node.content \in Seq({"byte", "nul"})
      BY <1>2, <3>1 DEF SourceTree, node
    <3>3. Unit("byte") \in Units /\ Unit("nul") \in Units
      BY DEF Unit, Units, UnitKinds
    <3>4. Unit("byte").message = Invalid /\ Unit("nul").message = Invalid
      BY DEF Unit
    <3> DEFINE k == node.content
    <3> HIDE DEF k
    <3>5. k \in Seq({"byte", "nul"}) /\ c = [i \in DOMAIN k |-> Unit(k[i])]
      BY <3>2 DEF k, c
    <3>6. DOMAIN k = 1 .. Len(k) /\ Len(k) \in Nat /\ \A i \in 1 .. Len(k) : k[i] \in {"byte", "nul"}
      BY <3>5
    <3>7. \A i \in 1 .. Len(k) : c[i] \in Units /\ c[i].message = Invalid
      BY <3>3, <3>4, <3>5, <3>6
    <3>8. c \in [1 .. Len(k) -> Units]
      BY <3>5, <3>6, <3>7
    <3> QED
      BY <3>6, <3>7, <3>8
  <2>2. <<z>> \in Seq(Units) /\ <<z>>[1].message = Invalid /\ Len(<<z>>) = 1
    <3>1. z \in Units /\ z.message = Invalid
      BY DEF Unit, Units, UnitKinds, z
    <3> QED
      BY <3>1
  <2> DEFINE y == <<z>>
             sc == stream \o c
  <2> HIDE DEF y
  <2>3. /\ sc \in Seq(Units)
        /\ stream # << >> => sc # << >> /\ sc[1] = stream[1]
        /\ stream = << >> => sc = c
    BY <1>2, <2>1, AppendWires
  <2> HIDE DEF sc
  <2>4. /\ sc \o y \in Seq(Units)
        /\ sc # << >> => sc \o y # << >> /\ (sc \o y)[1] = sc[1]
    BY <2>2, <2>3, AppendWires DEF y
  <2>5. stream' = sc \o y
    BY <1>6 DEF sc, y
  <2>6. \A i \in 1 .. Len(c \o y) : (c \o y)[i].message = Invalid
    <3>1. y \in Seq(Units) /\ Len(y) = 1 /\ y[1].message = Invalid
      BY <2>2 DEF y
    <3>2. /\ Len(c \o y) = Len(c) + Len(y)
          /\ \A i \in 1 .. Len(c) + Len(y) :
               (c \o y)[i] = IF i <= Len(c) THEN c[i] ELSE y[i - Len(c)]
      <4>1. c \in Seq(Units) /\ y \in Seq(Units)
        BY <2>1, <3>1
      <4> QED
        BY <4>1, ConcatProperties
    <3>3. Len(c \o y) = Len(c) + 1 /\ Len(c) \in Nat
      BY <2>1, <3>1, <3>2
    <3>4. \A i \in 1 .. Len(c \o y) :
            i \in 1 .. Len(c) + Len(y)
              /\ (i \in 1 .. Len(c) \/ (~(i <= Len(c)) /\ i - Len(c) = 1))
      BY <3>1, <3>2, <3>3
    <3> QED
      BY <2>1, <3>1, <3>2, <3>4
  <2>7. Wires' /\ (stream # << >> => stream' # << >> /\ stream'[1] = stream[1])
    BY <1>1, <1>2, <2>3, <2>4, <2>5 DEF Wires
  <2>8. Plan'
    BY <1>1, <1>2, <1>4, <1>6, KeepPlan DEF Plan
  <2>9. Spoilt => Spoilt'
    BY <1>1, <2>7, SpoiltStays
  <2>10. Resting => \E v \in TaskSet : UnderWay(v)'
    <3> SUFFICES ASSUME Resting PROVE \E v \in TaskSet : UnderWay(v)'
      OBVIOUS
    <3>1. PICK v \in TaskSet : v = t
      BY <1>4
    <3>2. /\ At(Before(v)) /\ Ready(state, Before(v), <<v>>)
          /\ phase \in {"content", "end"} /\ stream = << >> /\ acks = << >>
      BY <1>1, <1>2, <3>1 DEF Resting, Position, Live, Ready
    <3>3. /\ IsTask(v)' /\ Linked(v, todo)'
          /\ At(Before(v))' /\ Ready(state, Before(v), <<v>>)'
      <4>1. PICK s : s = Tail(todo)
        OBVIOUS
      <4> QED
        BY <1>1, <1>4, <1>6, <3>1, <3>2, <4>1, KeepTask
    <3>4. \A i \in 1 .. Len(stream') : stream'[i].message = Invalid
      BY <2>3, <2>5, <2>6, <3>2
    <3>5. UnderWay(v)'
      BY <1>1, <1>6, <3>1, <3>2, <3>3, <3>4 DEF UnderWay
    <3> QED
      BY <3>5
  <2>11. phase' # "done" => Talk'
    BY <1>1, <1>3, <2>9, <2>10 DEF Talk
  <2> QED
    BY <2>7, <2>8, <2>11 DEF Conversation
<1> QED
  BY <1>1, <1>5, <1>6

LEMMA AckConversation ==
  ASSUME Conversation, SourceGetsAck
  PROVE  Conversation'
<1>1. /\ outcome = "running" /\ linkUp /\ waiting /\ acks # << >> /\ acks' = Tail(acks)
      /\ UNCHANGED <<opts, phase, state, depth, dir, src, linkUp, todo>>
      /\ waiting' = FALSE
      /\ \/ Head(acks) = "ok" /\ UNCHANGED <<outcome, stream>>
         \/ Head(acks) # "ok" /\ SourceFails
  BY DEF SourceGetsAck, SourceUnchanged
<1>2. Plan /\ Wires /\ SourceTree /\ Walk(todo) /\ acks' \in Seq({"ok", "error"})
  <2>1. acks \in Seq({"ok", "error"})
    BY DEF Conversation, Wires
  <2> QED
    BY <1>1, <2>1 DEF Conversation, Plan
<1>3. phase # "done" => Resting \/ Spoilt
  BY <1>1, FreeSource
<1>4. Plan'
  BY <1>1, <1>2, KeepPlan DEF SourceFails, Plan
<1>5. CASE Head(acks) = "ok" /\ UNCHANGED <<outcome, stream>>
  <2>1. Resting => Resting'
    <3> SUFFICES ASSUME Resting PROVE Resting'
      OBVIOUS
    <3>1. At(Position(todo))' /\ Ready(state, Position(todo), todo)'
      <4>1. PICK s, p : s = todo /\ p = Position(todo)
        OBVIOUS
      <4> QED
        BY <1>1, <4>1, MoveRest DEF Resting
    <3>2. acks = <<"ok">> /\ stream = << >>
      BY <1>1 DEF Resting, Live
    <3>3. acks' = << >>
      BY <1>1, <3>2
    <3>4. waiting' = FALSE
      BY <1>1
    <3> QED
      BY <1>1, <1>5, <3>1, <3>2, <3>3, <3>4 DEF Resting
  <2>2. Spoilt => Spoilt'
    BY <1>1, <1>5 DEF Spoilt, At
  <2> QED
    BY <1>1, <1>2, <1>3, <1>4, <1>5, <2>1, <2>2 DEF Conversation, Talk, Wires
<1>6. CASE Head(acks) # "ok" /\ SourceFails
  <2>1. Wires'
    BY <1>1, <1>2, <1>6, FailWires DEF Wires
  <2>2. phase # "done" => Talk'
    BY <1>1, <1>3, <1>6, FailTalk
  <2> QED
    BY <1>1, <1>4, <2>1, <2>2 DEF Conversation
<1> QED
  BY <1>1, <1>5, <1>6

LEMMA StopsConversation ==
  ASSUME Conversation, SourceGetsNoAck \/ SourceDone \/ SourceIOError
  PROVE  Conversation'
<1>1. /\ outcome = "running"
      /\ UNCHANGED <<opts, phase, state, depth, dir, src, linkUp, todo, waiting, acks>>
  BY DEF SourceGetsNoAck, SourceDone, SourceIOError, SourceUnchanged, Sending
<1>2. Plan /\ Wires /\ SourceTree /\ Walk(todo)
  BY DEF Conversation, Plan
<1>3. CASE SourceGetsNoAck \/ SourceIOError
  <2>1. SourceFails
    BY <1>3 DEF SourceGetsNoAck, SourceIOError
  <2>2. linkUp => phase = "done" \/ Resting \/ Spoilt
    <3>1. SourceIOError => ~waiting
      BY DEF SourceIOError, Sending
    <3> QED
      BY <1>1, <1>3, <3>1, FreeSource DEF SourceGetsNoAck
  <2>3. Plan'
    BY <1>1, <1>2, <2>1, KeepPlan DEF SourceFails, Plan
  <2>4. Wires'
    BY <1>1, <1>2, <2>1, FailWires DEF Wires
  <2>5. phase # "done" => Talk'
    BY <1>1, <2>1, <2>2, FailTalk
  <2> QED
    BY <1>1, <2>3, <2>4, <2>5 DEF Conversation
<1>4. CASE SourceDone
  <2>1. stream' = stream /\ outcome' = "ok" /\ todo = << >> /\ ~waiting
    BY <1>4 DEF SourceDone
  <2>2. Plan'
    BY <1>1, <1>2, <2>1, KeepPlan DEF Plan
  <2>3. Resting => Resting'
    <3> SUFFICES ASSUME Resting PROVE Resting'
      OBVIOUS
    <3>1. At(Position(todo))' /\ Ready(state, Position(todo), todo)'
      <4>1. PICK s, p : s = todo /\ p = Position(todo)
        OBVIOUS
      <4> QED
        BY <1>1, <4>1, MoveRest DEF Resting
    <3>2. ~Live'
      BY <2>1 DEF Live
    <3> QED
      BY <1>1, <2>1, <3>1, <3>2 DEF Resting
  <2>4. Spoilt => Spoilt'
    BY <1>1, <2>1 DEF Spoilt, At
  <2>5. ~New
    BY <2>1 DEF New
  <2>6. \A t \in TaskSet : UnderWay(t) => UnderWay(t)'
    <3> SUFFICES ASSUME NEW t \in TaskSet, UnderWay(t) PROVE UnderWay(t)'
      OBVIOUS
    <3>1. ~linkUp
      BY <2>1 DEF UnderWay
    <3>2. /\ IsTask(t)' /\ Linked(t, todo)'
          /\ At(Before(t))' /\ Ready(state, Before(t), <<t>>)'
      <4>1. PICK s : s = todo
        OBVIOUS
      <4> QED
        BY <1>1, <4>1, KeepTask DEF UnderWay
    <3>3. MessageFor(t)' = MessageFor(t)
      BY <1>1 DEF MessageFor
    <3> QED
      BY <1>1, <2>1, <3>1, <3>2, <3>3 DEF UnderWay, Line
  <2> QED
    BY <1>1, <1>2, <2>1, <2>2, <2>3, <2>4, <2>5, <2>6 DEF Conversation, Talk, Wires
<1> QED
  BY <1>3, <1>4

LEMMA SourceConversation ==
  ASSUME Conversation, Source
  PROVE  Conversation'
BY StatsConversation, SendsConversation, ListsConversation, DataConversation,
   AckConversation, StopsConversation DEF Source

-----------------------------------------------------------------------------
(***************************************************************************)
(* The environment, and what follows.                                      *)
(***************************************************************************)
LEMMA ChangeConversation ==
  ASSUME Conversation, Change
  PROVE  Conversation'
<1>1. /\ UNCHANGED <<opts, phase, state, depth, dir, stream, acks, linkUp, todo, waiting, outcome>>
      /\ \E i \in DOMAIN todo, c \in Contents :
           /\ todo[i].op = "data"
           /\ src' = [src EXCEPT ![todo[i].path].content = c]
  BY DEF Change, sinkVars
<1>2. Plan /\ Wires /\ SourceTree /\ Walk(todo) /\ todo \in Seq(TaskSet)
  BY DEF Conversation, Plan, Walk, Steps
<1>3. PICK i \in DOMAIN todo, c \in Contents :
        /\ todo[i].op = "data"
        /\ src' = [src EXCEPT ![todo[i].path].content = c]
  BY <1>1
<1> DEFINE d == todo[i].path
<1>4. d \in DOMAIN src /\ c \in Seq({"byte", "nul"})
  <2>1. i \in 1 .. Len(todo)
    BY <1>2
  <2>2. IsTask(todo[i])
    BY <1>2, <2>1 DEF Walk, Steps
  <2> QED
    BY <2>2, ContentsAssumption DEF IsTask
<1> HIDE DEF d
<1>5. /\ DOMAIN src' = DOMAIN src
      /\ \A p \in DOMAIN src :
           /\ src'[p] \in [dir : BOOLEAN, content : Seq({"byte", "nul"}), time : Int]
           /\ src'[p].dir = src[p].dir /\ src'[p].time = src[p].time
  <2>1. src' = [src EXCEPT ![d].content = c]
    BY <1>3 DEF d
  <2>2. DOMAIN src' = DOMAIN src /\ \A p \in DOMAIN src : p # d => src'[p] = src[p]
    BY <2>1
  <2>3. src'[d] = [src[d] EXCEPT !.content = c]
    BY <1>4, <2>1
  <2>4. \A p \in DOMAIN src :
          src[p] \in [dir : BOOLEAN, content : Seq({"byte", "nul"}), time : Int]
    BY <1>2 DEF SourceTree
  <2> DEFINE C == Seq({"byte", "nul"})
  <2> HIDE DEF C
  <2>5. /\ src'[d] \in [dir : BOOLEAN, content : C, time : Int]
        /\ src'[d].dir = src[d].dir /\ src'[d].time = src[d].time
    <3>1. src[d] \in [dir : BOOLEAN, content : C, time : Int] /\ c \in C
      BY <1>4, <2>4 DEF C
    <3> QED
      BY <2>3, <3>1
  <2> QED
    BY <2>2, <2>4, <2>5 DEF C
<1>6. SourceTree'
  BY <1>2, <1>5 DEF SourceTree
<1>7. /\ \A t : IsTask(t)' <=> IsTask(t)
      /\ \A t, u : Follows(t, u)' <=> Follows(t, u)
  <2>1. \A t : IsTask(t)' <=> IsTask(t)
    BY <1>1, <1>5 DEF IsTask, times
  <2>2. \A t, u : Follows(t, u)' <=> Follows(t, u)
    BY <1>1 DEF Follows, Starts, Ends, times, Before, Behind
  <2> QED
    BY <2>1, <2>2
<1>8. Walk(todo)'
  BY <1>1, <1>2, <1>7 DEF Walk, Steps, Ends, Behind
<1>9. Plan'
  BY <1>1, <1>2, <1>6, <1>8 DEF Plan
<1>10. Wires'
  BY <1>1, <1>2 DEF Wires
<1>11. New => New'
  BY <1>1 DEF New, At, Live
<1>12. Spoilt => Spoilt'
  BY <1>1 DEF Spoilt, At
<1>13. \A s, p : At(p) /\ todo = s /\ Position(s) = p /\ Ready(state, p, s)
         => At(Position(todo))' /\ Ready(state, Position(todo), todo)'
  BY <1>1, MoveRest
<1>14. Resting => Resting'
  BY <1>1, <1>13 DEF Resting, Live
<1>15. \A t \in TaskSet : UnderWay(t) => UnderWay(t)'
  <2> SUFFICES ASSUME NEW t \in TaskSet, UnderWay(t) PROVE UnderWay(t)'
    OBVIOUS
  <2>1. IsTask(t)' /\ Linked(t, todo)'
    BY <1>1, <1>7 DEF UnderWay, Linked, Ends, Behind
  <2>2. At(Before(t))'
    BY <1>1 DEF UnderWay, At
  <2>3. Ready(state, Before(t), <<t>>)'
    <3>1. PICK q : q = state
      OBVIOUS
    <3>2. Ready(q, Before(t), <<t>>)' <=> Ready(q, Before(t), <<t>>)
      BY <1>1, SameReady
    <3> QED
      BY <1>1, <3>1, <3>2 DEF UnderWay
  <2>4. MessageFor(t)' = MessageFor(t)
    <3>1. t.path \in DOMAIN src
      BY DEF UnderWay, IsTask
    <3> QED
      BY <1>5, <3>1 DEF MessageFor
  <2> QED
    BY <1>1, <2>1, <2>2, <2>3, <2>4 DEF UnderWay, Line
<1> QED
  BY <1>1, <1>9, <1>10, <1>11, <1>12, <1>14, <1>15 DEF Conversation, Talk

LEMMA DisconnectConversation ==
  ASSUME Conversation, Disconnect
  PROVE  Conversation'
<1>1. /\ UNCHANGED <<opts, phase, state, depth, dir, src, todo, waiting, outcome>>
      /\ linkUp' = FALSE /\ acks' = << >> /\ stream' \in Prefixes(stream)
  BY DEF Disconnect
<1>2. Plan /\ Wires /\ SourceTree /\ Walk(todo) /\ stream \in Seq(Units)
  BY DEF Conversation, Plan, Wires
<1>3. Plan'
  BY <1>1, <1>2, KeepPlan DEF Plan
<1>4. PICK n \in 0 .. Len(stream) : stream' = SubSeq(stream, 1, n)
  BY <1>1 DEF Prefixes
<1>5. /\ stream' \in Seq(Units) /\ Len(stream') = n /\ n <= Len(stream)
      /\ \A i \in 1 .. n : stream'[i] = stream[i]
  <2>1. SubSeq(stream, 1, n) \in Seq(Units) /\ Len(SubSeq(stream, 1, n)) = n
        /\ \A i \in 1 .. n : SubSeq(stream, 1, n)[i] = stream[i]
    BY <1>2, <1>4
  <2> QED
    BY <1>2, <1>4, <2>1
<1>6. /\ Wires' /\ ~Live'
      /\ stream = << >> => stream' = << >>
      /\ stream' # << >> => stream # << >> /\ stream'[1] = stream[1]
      /\ \A i \in 1 .. Len(stream') : i \in 1 .. Len(stream) /\ stream'[i] = stream[i]
  BY <1>1, <1>2, <1>4, <1>5 DEF Wires, Live
<1>7. New => New'
  BY <1>1, <1>6 DEF New, At
<1>8. Spoilt => Spoilt'
  BY <1>1, <1>6 DEF Spoilt, At
<1>9. Resting => Resting'
  <2> SUFFICES ASSUME Resting PROVE Resting'
    OBVIOUS
  <2>1. At(Position(todo))' /\ Ready(state, Position(todo), todo)'
    <3>1. PICK s, p : s = todo /\ p = Position(todo)
      OBVIOUS
    <3> QED
      BY <1>1, <3>1, MoveRest DEF Resting
  <2>2. \A i \in 1 .. Len(stream') : stream'[i].kind # "nul"
    BY <1>6 DEF Resting
  <2> QED
    BY <1>1, <1>6, <2>1, <2>2 DEF Resting
<1>10. ASSUME NEW t \in TaskSet, UnderWay(t)
       PROVE  UnderWay(t)' \/ Spoilt'
  <2>1. /\ IsTask(t)' /\ Linked(t, todo)'
        /\ At(Before(t))' /\ Ready(state, Before(t), <<t>>)'
    <3>1. PICK s : s = todo
      OBVIOUS
    <3> QED
      BY <1>1, <1>10, <3>1, KeepTask DEF UnderWay
  <2>2. CASE t.op = "data"
    <3>1. \A i \in 1 .. Len(stream') : stream'[i].message = Invalid
      BY <1>6, <1>10, <2>2 DEF UnderWay
    <3> QED
      BY <1>1, <1>10, <2>1, <2>2, <3>1 DEF UnderWay
  <2>3. CASE t.op # "data" /\ stream' = << >>
    <3>1. At(Before(t)) /\ phase = "header" /\ Before(t) \in Paths
      BY <1>2, <1>10, <2>3, TaskPath DEF UnderWay
    <3> QED
      BY <1>1, <2>3, <3>1 DEF Spoilt, At
  <2>4. CASE t.op # "data" /\ stream' # << >>
    <3> DEFINE u == Line(String(MessageFor(t)))
    <3>1. u' = u
      BY <1>1 DEF MessageFor, Line
    <3>2. stream = <<u>>
      BY <1>10, <2>4 DEF UnderWay
    <3> HIDE DEF u
    <3>3. stream' = <<u>>
      <4>1. Len(stream) = 1
        BY <3>2
      <4>2. n = Len(stream)
        BY <1>5, <2>4, <4>1
      <4>3. SubSeq(stream, 1, Len(stream)) = stream
        BY <1>2, SubSeqFull
      <4> QED
        BY <1>4, <3>2, <4>2, <4>3
    <3> QED
      BY <1>1, <1>10, <2>1, <2>4, <3>1, <3>3 DEF UnderWay, u
  <2> QED
    BY <2>2, <2>3, <2>4
<1> QED
  BY <1>1, <1>3, <1>6, <1>7, <1>8, <1>9, <1>10 DEF Conversation, Talk

LEMMA ClientStays ==
  ASSUME [Next]_vars
  PROVE  client' = client
BY DEF Next, AnySends, AnyReads, AnyCloses, Finished, Source, SourceStats, SourceSends,
       SourceLists, SourceSendsData, SourceGetsAck, SourceGetsNoAck, SourceDone,
       SourceIOError, SourceUnchanged, Change, Disconnect, vars, clientVars

LEMMA SourceOnly ==
  ASSUME [Next]_vars, client = "source"
  PROVE  client' = client
         /\ ((Sink /\ UNCHANGED clientVars) \/ Source \/ Change \/ Disconnect \/ UNCHANGED vars)
<1>1. client' = client
  BY ClientStays
<1>2. client # "any"
  OBVIOUS
<1>3. ~AnySends /\ ~AnyReads /\ ~AnyCloses
  BY <1>2 DEF AnySends, AnyReads, AnyCloses
<1>4. Finished => UNCHANGED vars
  BY DEF Finished
<1>5. Next => (Sink /\ UNCHANGED clientVars) \/ Source \/ Change \/ Disconnect \/ Finished
  BY <1>3 DEF Next
<1> QED
  BY <1>1, <1>4, <1>5

LEMMA NextConversation ==
  ASSUME Conversation, [Next]_vars, client = "source"
  PROVE  Conversation'
<1>1. CASE UNCHANGED vars
  <2>1. /\ UNCHANGED <<opts, stream, acks, phase, state, dir, depth, src, todo, waiting>>
        /\ UNCHANGED <<outcome, linkUp>>
    BY <1>1 DEF vars, sinkVars, clientVars
  <2> PICK s : s = todo
    OBVIOUS
  <2> PICK q : q = state
    OBVIOUS
  <2>2. s' = s /\ todo' = s /\ q' = q /\ state' = q
    BY <2>1
  <2>3. Walk(s)' <=> Walk(s)
    BY <2>1, SameTask
  <2>4. Plan'
    BY <2>1, <2>2, <2>3 DEF Conversation, Plan, SourceTree
  <2>5. Wires'
    BY <2>1 DEF Conversation, Wires
  <2>6. \A p : At(p)' <=> At(p)
    BY <2>1 DEF At
  <2>7. \A p, r : Ready(q, p, r)' <=> Ready(q, p, r)
    BY <2>1, SameReady
  <2>8. New => New'
    BY <2>1, <2>6 DEF New, Live
  <2>9. Resting => Resting'
    BY <2>1, <2>2, <2>6, <2>7 DEF Resting, Live, Position, Before
  <2>10. Spoilt => Spoilt'
    BY <2>1, <2>6 DEF Spoilt
  <2>11. ASSUME NEW t \in TaskSet, UnderWay(t) PROVE UnderWay(t)'
    <3>1. (IsTask(t)' <=> IsTask(t)) /\ (Linked(t, s)' <=> Linked(t, s))
      BY <2>1, SameTask
    <3> QED
      BY <2>1, <2>2, <2>6, <2>7, <2>11, <3>1 DEF UnderWay, Before, MessageFor
  <2> QED
    BY <2>1, <2>4, <2>5, <2>8, <2>9, <2>10, <2>11 DEF Conversation, Talk
<1> QED
  BY <1>1, SourceOnly, SinkConversation, SourceConversation, ChangeConversation,
     DisconnectConversation

LEMMA InitConversation ==
  ASSUME Init, client = "source"
  PROVE  Conversation
<1>1. /\ src \in Trees /\ todo = <<Task("stat", Top)>> /\ waiting = TRUE
      /\ outcome = "running" /\ stream = << >> /\ acks = << >> /\ phase = "new"
      /\ dir = Target /\ depth = 0
  BY DEF Init, SinkInit
<1>2. SourceTree
  BY <1>1, TreesAssumption DEF SourceTree, Paths
<1>3. Top \in DOMAIN src /\ Len(Top) = 1
  BY <1>2 DEF Top, SourceTree
<1> DEFINE t == Task("stat", Top)
<1>4. t \in TaskSet /\ t.op = "stat" /\ t.path = Top
  BY <1>2, <1>3, OneTask DEF Ops
<1> HIDE DEF t
<1>5. IsTask(t)
  BY <1>3, <1>4 DEF IsTask
<1>6. Behind(t) = << >>
  <2>1. Top \in Paths /\ Top # << >>
    BY <1>2, <1>3 DEF SourceTree
  <2>2. Front(Top) \in Paths /\ Len(Front(Top)) = Len(Top) - 1
    BY <2>1, PathFront
  <2>3. Front(Top) = << >>
    BY <1>3, <2>2 DEF Paths
  <2> QED
    BY <1>4, <2>3 DEF Behind
<1>7. todo = <<t>> /\ todo # << >> /\ todo[1] = t /\ Len(todo) = 1
  BY <1>1 DEF t
<1>8. Plan
  <2>1. Steps(todo)
    BY <1>5, <1>7, OneStep
  <2> QED
    BY <1>1, <1>2, <1>4, <1>6, <1>7, <2>1 DEF Plan, Walk
<1>9. New
  <2>1. Target \o << >> = Target /\ Len(<< >>) = 0
    BY TargetAssumption
  <2> QED
    BY <1>1, <1>4, <1>7, <2>1 DEF New, At
<1> QED
  BY <1>1, <1>8, <1>9 DEF Conversation, Talk, Wires

\* As long as source and sink talk, the sink is where the source means it to be.
LEMMA ConversationInside ==
  ASSUME Conversation, phase # "done"
  PROVE  IsPrefix(Target, dir) /\ Len(dir) = Len(Target) + depth
<1>1. \E p \in Paths : At(p)
  <2>1. CASE New
    <3>1. << >> \in Paths
      BY DEF Paths
    <3> QED
      BY <2>1, <3>1 DEF New
  <2>2. CASE Resting
    BY <2>2, PositionPath DEF Resting, Conversation
  <2>3. CASE \E t \in TaskSet : UnderWay(t)
    BY <2>3, TaskPath DEF UnderWay, Conversation, Plan
  <2>4. CASE Spoilt
    BY <2>4 DEF Spoilt
  <2> QED
    BY <2>1, <2>2, <2>3, <2>4 DEF Conversation, Talk
<1>2. PICK p \in Paths : At(p)
  BY <1>1
<1>3. IsPrefix(Target, Target \o p) /\ Len(Target \o p) = Len(Target) + Len(p)
  BY InTarget
<1> QED
  BY <1>2, <1>3 DEF At

\* The sink never leaves its target directory, and its depth counts the directories
\* it is in: whatever a client sends, if it runs without -r or without -p, and in
\* any mode with the source of this repository (source.go, sink.go, messages.go).
THEOREM NeverLeavesTarget == Spec => []StaysInside
<1> DEFINE Inv == /\ client \in {"source", "any"}
                  /\ OtherMode => InsideInv
                  /\ client = "source" => Conversation
<1>1. Init => Inv
  <2>1. Init => client \in {"source", "any"}
    BY ClientsAssumption DEF Init
  <2> QED
    BY <2>1, InitInsideInv, InitConversation
<1>2. Inv /\ [Next]_vars => Inv'
  <2> SUFFICES ASSUME Inv, [Next]_vars PROVE Inv'
    OBVIOUS
  <2>1. OtherMode' <=> OtherMode
    BY ModeStays DEF OtherMode, recursive, times
  <2>2. client' = client
    BY ClientStays
  <2> QED
    BY <2>1, <2>2, NextInsideInv, NextConversation
<1>3. Inv => StaysInside
  <2>1. OtherMode /\ InsideInv => StaysInside
    BY DEF InsideInv, Inside, StaysInside
  <2>2. client = "source" /\ Conversation => StaysInside
    BY ConversationInside DEF StaysInside
  <2>3. ~OtherMode /\ client = "any" => StaysInside
    BY DEF OtherMode, StaysInside
  <2> QED
    BY <2>1, <2>2, <2>3
<1> QED
  BY <1>1, <1>2, <1>3, PTL DEF Spec

-----------------------------------------------------------------------------
(***************************************************************************)
(* The types of the variables.  What travels is a message of the language, *)
(* whoever sends it, and the state of the parser is one of its table while *)
(* the sink reads.                                                         *)
(***************************************************************************)
SinkTypes ==
  /\ opts \subseteq {"r", "p", "t", "f"}
  /\ Wires
  /\ closed \in BOOLEAN
  /\ phase \in {"new", "header", "content", "end", "done"}
  /\ state \in States \cup {"none"}
  /\ depth \in Int
  /\ dir \in Paths
  /\ timeSet \in BOOLEAN
  /\ time \in Int
  /\ file \in Paths
  /\ left \in Nat
  /\ result \in {"running", "ok", "error"}
  /\ IsTree(fs)
  /\ faulty \in BOOLEAN

ClientTypes ==
  /\ client \in Clients
  /\ IsTree(src)
  /\ \A i \in DOMAIN todo : todo[i].op \in Ops
  /\ waiting \in BOOLEAN
  /\ outcome \in {"running", "ok", "error"}
  /\ linkUp \in BOOLEAN
  /\ units \in 0 .. MaxUnits
  /\ \A c \in changes : c[1] \in DOMAIN src /\ c[2] \in Nat

\* What a message holds, if it is one.
LEMMA MessageTypes ==
  ASSUME NEW m \in Sayable \cup {Invalid}
  PROVE  /\ m.type \in {"C", "D"} => m.name \in Names /\ m.length \in Nat
         /\ m.type = "T" => m.time \in Int
<1>1. CASE m = Invalid
  <2>1. Invalid.type = "invalid"
    BY DEF Invalid
  <2> QED
    BY <1>1, <2>1
<1>2. CASE m = EMessage
  <2>1. EMessage.type = "E"
    BY DEF EMessage
  <2> QED
    BY <1>2, <2>1
<1>3. CASE \E t \in Int : m = TMessage(t)
  <2>1. PICK t \in Int : m = TMessage(t)
    BY <1>3
  <2>2. TMessage(t).type = "T" /\ TMessage(t).time = t
    BY DEF TMessage
  <2> QED
    BY <2>1, <2>2
<1>4. CASE \E n \in Names, l \in Nat : m = CMessage(n, l)
  BY <1>4 DEF CMessage
<1>5. CASE \E n \in Names, l \in Nat : m = DMessage(n, l)
  BY <1>5 DEF DMessage
<1> QED
  BY <1>1, <1>2, <1>3, <1>4, <1>5 DEF Sayable

LEMMA NextMessageTypes ==
  ASSUME Wires, LineEnds # {}
  PROVE  NextMessage \in Sayable \cup {Invalid}
<1>1. CASE FirstLineEnd = 1
  <2>1. stream # << >> /\ stream \in Seq(Units)
    BY NoLine DEF Wires
  <2>2. stream[1] \in Units
    BY <2>1
  <2> QED
    BY <1>1, <2>2 DEF NextMessage, Units
<1>2. CASE FirstLineEnd # 1
  BY <1>2 DEF NextMessage
<1> QED
  BY <1>1, <1>2

\* The file system stays one.
Nodes == [dir : BOOLEAN, content : Seq(UnitKinds), time : Int]

LEMMA TreeNodes == \A f : IsTree(f) <=> \A p \in DOMAIN f : p \in Paths /\ f[p] \in Nodes
BY DEF IsTree, Nodes, Paths

LEMMA NewNodes == Directory \in Nodes /\ EmptyFile \in Nodes
<1>1. << >> \in Seq(UnitKinds) /\ Now \in Int
  BY DEF Now
<1> QED
  BY <1>1 DEF Directory, EmptyFile, Nodes

LEMMA Dated ==
  ASSUME NEW n \in Nodes, NEW t \in Int
  PROVE  [n EXCEPT !.time = t] \in Nodes /\ [n EXCEPT !.time = t].dir = n.dir
BY DEF Nodes

LEMMA Written ==
  ASSUME NEW n \in Nodes, NEW k \in UnitKinds, NEW t \in Int
  PROVE  LET w == [[n EXCEPT !.content = Append(@, k)] EXCEPT !.time = t]
         IN  w \in Nodes /\ w.dir = n.dir
<1>1. n.content \in Seq(UnitKinds)
  BY DEF Nodes
<1> DEFINE c == Append(n.content, k)
           m == [n EXCEPT !.content = c]
<1>2. c \in Seq(UnitKinds)
  BY <1>1
<1> HIDE DEF c
<1>3. m \in Nodes /\ m.dir = n.dir
  BY <1>2 DEF Nodes
<1> HIDE DEF m
<1>4. [m EXCEPT !.time = t] \in Nodes /\ [m EXCEPT !.time = t].dir = m.dir
  BY <1>3, Dated
<1> QED
  BY <1>3, <1>4 DEF m, c

\* The nodes of a tree, and which are directories, after a step of the file system.
Kept(f, g) == \A q \in DOMAIN f : q \in DOMAIN g /\ g[q].dir = f[q].dir

LEMMA DatedTree ==
  ASSUME NEW f, IsTree(f), NEW p, NEW t \in Int
  PROVE  LET g == [f EXCEPT ![p].time = t]
         IN  IsTree(g) /\ Kept(f, g) /\ DOMAIN g = DOMAIN f
<1> DEFINE g == [f EXCEPT ![p].time = t]
<1>1. DOMAIN g = DOMAIN f
  OBVIOUS
<1>2. \A q \in DOMAIN f : g[q] = IF q = p THEN [f[q] EXCEPT !.time = t] ELSE f[q]
  OBVIOUS
<1> HIDE DEF g
<1>3. \A q \in DOMAIN f : q \in Paths /\ g[q] \in Nodes /\ g[q].dir = f[q].dir
  BY <1>2, TreeNodes, Dated
<1> QED
  BY <1>1, <1>3, TreeNodes DEF Kept, g

LEMMA WrittenTree ==
  ASSUME NEW f, IsTree(f), NEW p, NEW k \in UnitKinds, NEW t \in Int
  PROVE  LET g == [f EXCEPT ![p].content = Append(@, k), ![p].time = t]
         IN  IsTree(g) /\ Kept(f, g) /\ DOMAIN g = DOMAIN f
<1> DEFINE g == [f EXCEPT ![p].content = Append(@, k), ![p].time = t]
<1>1. DOMAIN g = DOMAIN f
  OBVIOUS
<1>2. \A q \in DOMAIN f :
        g[q] = IF q = p THEN [[f[q] EXCEPT !.content = Append(@, k)] EXCEPT !.time = t]
                        ELSE f[q]
  OBVIOUS
<1> HIDE DEF g
<1>3. \A q \in DOMAIN f : q \in Paths /\ g[q] \in Nodes /\ g[q].dir = f[q].dir
  <2> TAKE q \in DOMAIN f
  <2>1. q \in Paths /\ f[q] \in Nodes
    BY TreeNodes
  <2>2. CASE q = p
    <3> DEFINE w == [[f[q] EXCEPT !.content = Append(@, k)] EXCEPT !.time = t]
    <3>1. w \in Nodes /\ w.dir = f[q].dir
      BY <2>1, Written
    <3>2. g[q] = w
      BY <1>2, <2>2
    <3> QED
      BY <2>1, <3>1, <3>2
  <2> QED
    BY <1>2, <2>1, <2>2
<1> QED
  BY <1>1, <1>3, TreeNodes DEF Kept, g

LEMMA NodeAdded ==
  ASSUME IsTree(fs), NEW p \in Paths, NEW n \in Nodes
  PROVE  LET g == WithNode(p, n)
         IN  /\ IsTree(g) /\ DOMAIN g = DOMAIN fs \cup {p} /\ g[p] = n
             /\ \A q \in DOMAIN fs \ {p} : g[q].dir = fs[q].dir
<1> DEFINE g == WithNode(p, n)
<1>1. DOMAIN g = DOMAIN fs \cup {p}
  BY DEF WithNode
<1>2. /\ g[p] = n
      /\ \A q \in DOMAIN fs \ {p} : g[q] = fs[q] \/ g[q] = [fs[q] EXCEPT !.time = Now]
  BY DEF WithNode
<1> HIDE DEF g
<1>3. Now \in Int
  BY DEF Now
<1>4. \A q \in DOMAIN fs \ {p} : g[q] \in Nodes /\ g[q].dir = fs[q].dir
  <2> TAKE q \in DOMAIN fs \ {p}
  <2> DEFINE d == [fs[q] EXCEPT !.time = Now]
  <2>1. fs[q] \in Nodes /\ d \in Nodes /\ d.dir = fs[q].dir
    BY <1>3, TreeNodes, Dated
  <2>2. g[q] = fs[q] \/ g[q] = d
    BY <1>2
  <2> HIDE DEF d
  <2> QED
    BY <2>1, <2>2
<1> QED
  BY <1>1, <1>2, <1>4, TreeNodes DEF g

LEMMA PrefixTypes ==
  ASSUME NEW p \in Paths, NEW q \in Prefixes(p)
  PROVE  q \in Paths /\ Len(q) \in 0 .. Len(p) /\ q = SubSeq(p, 1, Len(q))
<1>1. PICK n \in 0 .. Len(p) : q = SubSeq(p, 1, n)
  BY DEF Prefixes
<1>2. p \in Seq(Names) /\ Len(p) \in Nat
  BY DEF Paths
<1>3. SubSeq(p, 1, n) \in Seq(Names) /\ Len(SubSeq(p, 1, n)) = n
  <2>1. \A i \in 1 .. n : p[i] \in Names
    BY <1>2
  <2>2. /\ SubSeq(p, 1, n) \in Seq(Names)
        /\ Len(SubSeq(p, 1, n)) = IF 1 <= n THEN n - 1 + 1 ELSE 0
    BY <1>2, <2>1, SubSeqProperties
  <2> QED
    BY <1>2, <2>2
<1> QED
  BY <1>1, <1>3 DEF Paths

LEMMA ParentOfPrefix ==
  ASSUME NEW p \in Paths, NEW q \in Prefixes(p)
  PROVE  Parent(q) \in Prefixes(p)
<1>1. q \in Paths /\ Len(q) \in 0 .. Len(p) /\ q = SubSeq(p, 1, Len(q))
  BY PrefixTypes
<1>2. CASE q = << >>
  BY <1>2 DEF Parent
<1>3. CASE q # << >>
  <2>1. Front(q) \in Paths /\ Len(Front(q)) = Len(q) - 1
    BY <1>1, <1>3, PathFront
  <2>2. Len(q) >= 1 /\ p \in Seq(Names) /\ Len(p) \in Nat /\ q \in Seq(Names)
    BY <1>1, <1>3 DEF Paths
  <2>3. Front(q) = SubSeq(p, 1, Len(q) - 1)
    <3> PICK n : n = Len(q)
      OBVIOUS
    <3>1. n \in 1 .. Len(p) /\ q = SubSeq(p, 1, n)
      BY <1>1, <2>2
    <3>2. Front(q) = SubSeq(q, 1, n - 1)
      BY <2>2 DEF Front
    <3> QED
      BY <2>2, <3>1, <3>2
  <2>4. Len(q) - 1 \in 0 .. Len(p)
    BY <1>1, <2>2
  <2> QED
    BY <1>3, <2>3, <2>4 DEF Parent, Prefixes
<1> QED
  BY <1>2, <1>3

LEMMA DirectoriesAdded ==
  ASSUME IsTree(fs), NEW p \in Paths, CanMkdir(p)
  PROVE  LET g == WithDirectories(p)
         IN  /\ IsTree(g) /\ DOMAIN g = DOMAIN fs \cup Prefixes(p)
             /\ \A q \in DOMAIN fs : g[q].dir = fs[q].dir
             /\ \A q \in Prefixes(p) : g[q].dir
<1> DEFINE g == WithDirectories(p)
<1>1. Prefixes(p) \subseteq Paths
  BY PrefixTypes
<1>2. DOMAIN g = DOMAIN fs \cup Prefixes(p)
  BY DEF WithDirectories
<1>3. /\ \A q \in DOMAIN g \ DOMAIN fs : g[q] = Directory
      /\ \A q \in DOMAIN fs :
           g[q] = fs[q] \/ (g[q] = Directory /\ \E r \in Prefixes(p) : q = Parent(r))
  BY DEF WithDirectories
<1> HIDE DEF g
<1>4. Directory.dir = TRUE
  BY DEF Directory
<1>5. \A q \in DOMAIN fs : g[q].dir = fs[q].dir
  <2> SUFFICES ASSUME NEW q \in DOMAIN fs,
                      g[q] = Directory, \E r \in Prefixes(p) : q = Parent(r)
               PROVE  fs[q].dir = TRUE
    BY <1>3, <1>4
  <2>1. q \in Prefixes(p)
    BY ParentOfPrefix
  <2>2. fs[q].dir \in BOOLEAN
    BY TreeNodes DEF Nodes
  <2> QED
    BY <2>1, <2>2 DEF CanMkdir
<1>6. IsTree(g)
  BY <1>1, <1>2, <1>3, NewNodes, TreeNodes
<1>7. \A q \in Prefixes(p) : g[q].dir
  BY <1>2, <1>3, <1>4, <1>5 DEF CanMkdir
<1> QED
  BY <1>2, <1>5, <1>6, <1>7 DEF g

LEMMA FilePathTypes ==
  ASSUME NEW d \in Paths, NEW n \in Names
  PROVE  FilePath(d, n) \in Paths
<1>1. Append(d, n) \in Paths /\ <<n>> \in Paths
  BY DEF Paths
<1>2. Append(d, n) \o <<n>> \in Paths
  BY <1>1 DEF Paths
<1> QED
  BY <1>1, <1>2 DEF FilePath

LEMMA ParentTypes ==
  ASSUME NEW d \in Paths
  PROVE  Parent(d) \in Paths
BY PathFront DEF Parent, Paths

\* What a step of the sink does to the parser, the acknowledgements and the stream.
LEMMA StateTypes ==
  ASSUME TimeInv, Sink, state \in States \cup {"none"}
  PROVE  state' \in States \cup {"none"}
<1>1. phase = "header" => state \in States
  BY DEF TimeInv
<1>2. CASE SinkStarts
  BY <1>2, Start DEF SinkStarts
<1>3. CASE ReceiveC
  <2>1. phase = "header" /\ "C" \in DOMAIN NextState[state]
    BY <1>3 DEF ReceiveC, Receives
  <2>2. NextState[state].C \in States
    BY <1>1, <2>1, AfterC
  <2> QED
    BY <1>3, <2>2 DEF ReceiveC
<1>4. CASE ReceiveD
  <2>1. phase = "header" /\ "D" \in DOMAIN NextState[state]
    BY <1>4 DEF ReceiveD, Receives
  <2>2. NextState[state].D \in States
    BY <1>1, <2>1, AfterD
  <2> QED
    BY <1>4, <2>2 DEF ReceiveD
<1>5. CASE ReceiveE
  <2>1. phase = "header" /\ "E" \in DOMAIN NextState[state]
    BY <1>5 DEF ReceiveE, Receives
  <2>2. NextState[state].E \in States /\ TopState[state] \in States
    BY <1>1, <2>1, AfterE
  <2> QED
    BY <1>5, <2>2 DEF ReceiveE
<1>6. CASE ReceiveT
  <2>1. phase = "header" /\ "T" \in DOMAIN NextState[state]
    BY <1>6 DEF ReceiveT, Receives
  <2>2. NextState[state].T \in States
    BY <1>1, <2>1, AfterT
  <2> QED
    BY <1>6, <2>2 DEF ReceiveT
<1>7. CASE RejectMessage \/ CopyByte \/ FileWritten \/ ReceiveEnd \/ EndOfStream \/ SinkIOError
  BY <1>7 DEF RejectMessage, CopyByte, FileWritten, ReceiveEnd, EndOfStream, SinkIOError
<1> QED
  BY <1>2, <1>3, <1>4, <1>5, <1>6, <1>7 DEF Sink

LEMMA ReceiveTypes ==
  ASSUME SinkTypes, ReceiveC \/ ReceiveD \/ ReceiveE \/ ReceiveT
  PROVE  /\ depth' \in Int /\ dir' \in Paths /\ timeSet' \in BOOLEAN /\ time' \in Int
         /\ file' \in Paths /\ left' \in Nat /\ IsTree(fs')
<1> DEFINE m == NextMessage
<1>1. /\ m.type \in {"C", "D"} => m.name \in Names /\ m.length \in Nat
      /\ m.type = "T" => m.time \in Int
  <2>1. LineEnds # {}
    BY DEF ReceiveC, ReceiveD, ReceiveE, ReceiveT, Receives
  <2>2. m \in Sayable \cup {Invalid}
    BY <2>1, NextMessageTypes DEF SinkTypes
  <2> HIDE DEF m
  <2> QED
    BY <2>2, MessageTypes
<1>2. /\ depth \in Int /\ dir \in Paths /\ timeSet \in BOOLEAN /\ time \in Int
      /\ file \in Paths /\ left \in Nat /\ IsTree(fs)
  BY DEF SinkTypes
<1>3. CASE ReceiveC
  <2> DEFINE p == FilePath(dir, m.name)
             f == WithNode(p, EmptyFile)
  <2>1. m.name \in Names /\ m.length \in Nat
    BY <1>1, <1>3 DEF ReceiveC, Receives
  <2>2. p \in Paths
    BY <1>2, <2>1, FilePathTypes
  <2>3. Limit(m.length) \in Nat
    BY <2>1 DEF Limit
  <2>4. /\ UNCHANGED <<depth, dir, timeSet, time>>
        /\ \/ fs' = f /\ file' = p /\ left' = Limit(m.length)
           \/ UNCHANGED <<fs, file, left>>
    BY <1>3 DEF ReceiveC
  <2> HIDE DEF p
  <2>5. IsTree(f)
    BY <1>2, <2>2, NewNodes, NodeAdded
  <2> HIDE DEF f, m
  <2> QED
    BY <1>2, <2>2, <2>3, <2>4, <2>5
<1>4. CASE ReceiveD
  <2> DEFINE d == Append(dir, m.name)
             f == WithDirectories(d)
             g == [f EXCEPT ![d].time = time]
  <2>1. m.name \in Names
    BY <1>1, <1>4 DEF ReceiveD, Receives
  <2>2. d \in Paths
    BY <1>2, <2>1 DEF Paths
  <2>3. /\ depth' = depth + 1 /\ UNCHANGED <<time, file, left>>
        /\ dir' \in {dir, d} /\ timeSet' \in {timeSet, FALSE}
        /\ fs' = fs \/ (CanMkdir(d) /\ fs' \in {f, g})
    BY <1>4 DEF ReceiveD
  <2> HIDE DEF d
  <2>4. CanMkdir(d) => IsTree(f)
    BY <1>2, <2>2, DirectoriesAdded
  <2> HIDE DEF f
  <2>5. CanMkdir(d) => IsTree(g)
    BY <1>2, <2>4, DatedTree
  <2> HIDE DEF g
  <2>6. IsTree(fs')
    BY <1>2, <2>3, <2>4, <2>5
  <2>7. dir' \in Paths /\ timeSet' \in BOOLEAN
    BY <1>2, <2>2, <2>3
  <2> QED
    BY <1>2, <2>3, <2>6, <2>7
<1>5. CASE ReceiveE
  BY <1>2, <1>5, ParentTypes DEF ReceiveE
<1>6. CASE ReceiveT
  <2>1. /\ m.type = "T" /\ time' = m.time /\ timeSet' = TRUE
        /\ UNCHANGED <<depth, dir, file, left, fs>>
    BY <1>6 DEF ReceiveT, Receives
  <2> HIDE DEF m
  <2> QED
    BY <1>1, <1>2, <2>1
<1> QED
  BY <1>3, <1>4, <1>5, <1>6

LEMMA ContentTypes ==
  ASSUME SinkTypes, CopyByte \/ FileWritten
  PROVE  IsTree(fs') /\ Kept(fs, fs') /\ DOMAIN fs' = DOMAIN fs /\ left' \in Nat
         /\ timeSet' \in BOOLEAN
<1>1. time \in Int /\ Now \in Int /\ IsTree(fs) /\ left \in Nat /\ timeSet \in BOOLEAN
  BY DEF SinkTypes, Now
<1>2. CASE CopyByte
  <2>1. stream # << >> /\ stream \in Seq(Units) /\ left > 0 /\ left' = left - 1
        /\ timeSet' = timeSet
        /\ fs' = [fs EXCEPT ![file].content = Append(@, Head(stream).kind),
                            ![file].time = Now]
    BY <1>2 DEF CopyByte, SinkTypes, Wires
  <2> DEFINE k == Head(stream).kind
  <2>2. k \in UnitKinds
    <3>1. Head(stream) \in Units
      BY <2>1
    <3> QED
      BY <3>1 DEF Units
  <2> HIDE DEF k
  <2>3. fs' = [fs EXCEPT ![file].content = Append(@, k), ![file].time = Now]
    BY <2>1 DEF k
  <2>4. IsTree(fs') /\ Kept(fs, fs') /\ DOMAIN fs' = DOMAIN fs
    BY <1>1, <2>2, <2>3, WrittenTree
  <2> QED
    BY <1>1, <2>1, <2>4
<1>3. CASE FileWritten
  <2>1. left' = left /\ timeSet' = FALSE
        /\ fs' = IF timeSet THEN [fs EXCEPT ![file].time = time] ELSE fs
    BY <1>3 DEF FileWritten
  <2>2. CASE timeSet
    BY <1>1, <2>1, <2>2, DatedTree
  <2>3. CASE ~timeSet
    BY <1>1, <2>1, <2>3 DEF Kept
  <2> QED
    BY <1>1, <2>1, <2>2, <2>3
<1> QED
  BY <1>2, <1>3

LEMMA SinkStepTypes ==
  ASSUME SinkTypes, TimeInv, Sink
  PROVE  SinkTypes'
<1>1. Wires' /\ state' \in States \cup {"none"}
  BY SinkWires, StateTypes DEF SinkTypes
<1>2. /\ opts' \subseteq {"r", "p", "t", "f"}
      /\ closed' \in BOOLEAN
      /\ phase' \in {"new", "header", "content", "end", "done"}
      /\ result' \in {"running", "ok", "error"}
      /\ faulty' \in BOOLEAN
  BY DEF SinkTypes, Sink, SinkStarts, ReceiveC, ReceiveD, ReceiveE, ReceiveT, RejectMessage,
         CopyByte, FileWritten, ReceiveEnd, EndOfStream, SinkIOError, Abort
<1>3. /\ depth' \in Int /\ dir' \in Paths /\ timeSet' \in BOOLEAN /\ time' \in Int
      /\ file' \in Paths /\ left' \in Nat /\ IsTree(fs')
  <2>1. CASE ReceiveC \/ ReceiveD \/ ReceiveE \/ ReceiveT
    BY <2>1, ReceiveTypes
  <2>2. CASE CopyByte \/ FileWritten
    <3>1. UNCHANGED <<depth, dir, time, file>>
      BY <2>2 DEF CopyByte, FileWritten
    <3> QED
      BY <2>2, <3>1, ContentTypes DEF SinkTypes
  <2>3. CASE SinkStarts \/ RejectMessage \/ ReceiveEnd \/ EndOfStream \/ SinkIOError
    <3>1. UNCHANGED <<depth, dir, timeSet, time, file, left, fs>>
      BY <2>3 DEF SinkStarts, RejectMessage, ReceiveEnd, EndOfStream, SinkIOError
    <3> QED
      BY <3>1 DEF SinkTypes
  <2> QED
    BY <2>1, <2>2, <2>3 DEF Sink
<1>4. SinkTypes' <=>
        /\ opts' \subseteq {"r", "p", "t", "f"} /\ Wires' /\ closed' \in BOOLEAN
        /\ phase' \in {"new", "header", "content", "end", "done"}
        /\ state' \in States \cup {"none"}
        /\ depth' \in Int /\ dir' \in Paths /\ timeSet' \in BOOLEAN /\ time' \in Int
        /\ file' \in Paths /\ left' \in Nat /\ result' \in {"running", "ok", "error"}
        /\ IsTree(fs') /\ faulty' \in BOOLEAN
  BY DEF SinkTypes, IsTree, Paths, States, NextState
<1> QED
  BY <1>1, <1>2, <1>3, <1>4

LEMMA SourceSinkTypes ==
  ASSUME SinkTypes, Wires', Source
  PROVE  SinkTypes'
<1>1. /\ UNCHANGED <<opts, phase, state, depth, dir, timeSet, time, file, left, result, fs>>
      /\ closed' \in {closed, TRUE} /\ faulty' \in {faulty, TRUE}
  BY DEF Source, SourceStats, SourceSends, SourceLists, SourceSendsData, SourceGetsAck,
         SourceGetsNoAck, SourceDone, SourceIOError, SourceFails, SourceUnchanged
<1> QED
  BY <1>1 DEF SinkTypes, IsTree, Paths, States, NextState

LEMMA EnvironmentWires ==
  ASSUME Wires, Change \/ Disconnect
  PROVE  Wires'
<1>1. CASE Change
  BY <1>1 DEF Change, sinkVars, Wires
<1>2. CASE Disconnect
  <2>1. PICK n \in 0 .. Len(stream) : stream' = SubSeq(stream, 1, n)
    BY <1>2 DEF Disconnect, Prefixes
  <2>2. stream \in Seq(Units) /\ acks' = << >>
    BY <1>2 DEF Wires, Disconnect
  <2>3. SubSeq(stream, 1, n) \in Seq(Units)
    BY <2>1, <2>2
  <2> QED
    BY <2>1, <2>2, <2>3 DEF Wires
<1> QED
  BY <1>1, <1>2

LEMMA EnvironmentSinkTypes ==
  ASSUME SinkTypes, Wires',
         Change \/ Disconnect \/ AnySends \/ AnyReads \/ AnyCloses \/ UNCHANGED vars
  PROVE  SinkTypes'
<1>1. /\ UNCHANGED <<opts, phase, state, depth, dir, timeSet, time, file, left, result, fs>>
      /\ closed' \in {closed, TRUE} /\ faulty' \in {faulty, TRUE}
  BY DEF Change, Disconnect, AnySends, AnyReads, AnyCloses, vars, sinkVars
<1> QED
  BY <1>1 DEF SinkTypes, IsTree, Paths, States, NextState

\* Any line that travels is a message of the language or none.
LEMMA AnyLine ==
  ASSUME NEW u \in AnyUnits
  PROVE  u \in Units
<1>1. ASSUME NEW m \in Sayable \cup {Invalid}, NEW k \in UnitKinds
      PROVE  [kind |-> k, message |-> m] \in Units
  BY <1>1 DEF Units
<1>2. CASE \E k \in {"byte", "nul"} : u = Unit(k)
  BY <1>1, <1>2 DEF Unit, UnitKinds
<1>3. ASSUME NEW l \in Lines, u = Line(l)
      PROVE  u \in Units
  <2>1. parseSCPMessage(l) \in Sayable \cup {Invalid}
    <3>1. CASE \E m \in Messages : l = String(m)
      <4>1. PICK m \in Messages : l = String(m)
        BY <3>1
      <4>2. m \in Sayable
        BY LengthsAssumption, TimesAssumption DEF Messages, Sayable
      <4> QED
        BY <4>1, <4>2, LanguageAgrees
    <3>2. CASE l \in Malformed
      BY <3>2, MalformedLines
    <3> QED
      BY <3>1, <3>2 DEF Lines
  <2> DEFINE m == parseSCPMessage(l)
  <2>2. u = [kind |-> "line", message |-> m]
    BY <1>3 DEF Line
  <2>3. "line" \in UnitKinds
    BY DEF UnitKinds
  <2> HIDE DEF m
  <2> QED
    BY <1>1, <2>1, <2>2, <2>3 DEF m
<1> QED
  BY <1>2, <1>3 DEF AnyUnits

LEMMA AnyWires ==
  ASSUME Wires, AnySends \/ AnyReads \/ AnyCloses
  PROVE  Wires'
<1>1. CASE AnySends
  <2>1. PICK u \in AnyUnits : stream' = Append(stream, u) /\ acks' = acks
    BY <1>1 DEF AnySends
  <2>2. u \in Units
    BY AnyLine
  <2>3. stream' \in Seq(Units)
    BY <2>1, <2>2, AppendUnit DEF Wires
  <2> QED
    BY <2>1, <2>3 DEF Wires
<1>2. CASE AnyReads
  <2>1. acks # << >> /\ acks' = Tail(acks) /\ stream' = stream
    BY <1>2 DEF AnyReads
  <2> QED
    BY <2>1 DEF Wires
<1>3. CASE AnyCloses
  BY <1>3 DEF AnyCloses, Wires
<1> QED
  BY <1>1, <1>2, <1>3

\* The other client has no tasks, and its tree is left alone.
LEMMA SinkClientTypes ==
  ASSUME ClientTypes, UNCHANGED clientVars
  PROVE  ClientTypes'
BY DEF ClientTypes, clientVars, IsTree

LEMMA SourceClientTypes ==
  ASSUME ClientTypes, Plan', Source
  PROVE  ClientTypes'
<1>1. /\ UNCHANGED <<client, src, linkUp, units, changes>>
      /\ waiting' \in {waiting, TRUE, FALSE} /\ outcome' \in {outcome, "ok", "error"}
  BY DEF Source, SourceStats, SourceSends, SourceLists, SourceSendsData, SourceGetsAck,
         SourceGetsNoAck, SourceDone, SourceIOError, SourceFails, SourceUnchanged, ClientTypes
<1>2. \A i \in DOMAIN todo' : todo'[i].op \in Ops
  <2>1. todo' \in Seq(TaskSet)
    BY DEF Plan, Walk, Steps
  <2>2. \A i \in DOMAIN todo' : todo'[i] \in TaskSet
    BY <2>1
  <2> QED
    BY <2>2 DEF TaskSet
<1> QED
  BY <1>1, <1>2 DEF ClientTypes, IsTree, Ops

LEMMA EnvironmentClientTypes ==
  ASSUME ClientTypes, client = "source" => Plan,
         Change \/ Disconnect \/ AnySends \/ AnyReads \/ AnyCloses \/ UNCHANGED vars
  PROVE  ClientTypes'
<1>1. CASE Change
  <2>1. PICK i \in DOMAIN todo, c \in Contents :
          /\ todo[i].op = "data"
          /\ src' = [src EXCEPT ![todo[i].path].content = c]
          /\ changes' = changes \cup {<<todo[i].path, todo[i].size>>}
          /\ client = "source"
    BY <1>1 DEF Change
  <2>2. UNCHANGED <<client, todo, waiting, outcome, linkUp, units>>
    BY <1>1 DEF Change
  <2>3. todo[i] \in TaskSet /\ todo[i].path \in DOMAIN src /\ todo[i].size \in Nat
    <3>1. todo \in Seq(TaskSet) /\ DOMAIN todo = 1 .. Len(todo) /\ IsTask(todo[i])
      BY <2>1 DEF Plan, Walk, Steps
    <3> QED
      BY <2>1, <3>1 DEF IsTask, TaskSet
  <2> DEFINE c1 == todo[i].path
             c2 == todo[i].size
  <2> HIDE DEF c1, c2
  <2>4. DOMAIN src' = DOMAIN src
    BY <2>1
  <2>5. IsTree(src')
    <3>1. c \in Seq(UnitKinds)
      BY ContentsAssumption DEF UnitKinds
    <3>2. \A p \in DOMAIN src : src'[p] = src[p] \/ src'[p] = [src[p] EXCEPT !.content = c]
      BY <2>1
    <3>3. \A n \in Nodes : [n EXCEPT !.content = c] \in Nodes
      BY <3>1 DEF Nodes
    <3> QED
      BY <2>4, <3>2, <3>3, TreeNodes DEF ClientTypes
  <2>6. \A e \in changes' : e[1] \in DOMAIN src' /\ e[2] \in Nat
    <3>1. changes' = changes \cup {<<c1, c2>>}
      BY <2>1 DEF c1, c2
    <3> QED
      BY <2>3, <2>4, <3>1 DEF ClientTypes, c1, c2
  <2> QED
    BY <2>2, <2>5, <2>6 DEF ClientTypes, IsTree, Ops
<1>2. CASE Disconnect
  BY <1>2 DEF Disconnect, ClientTypes, IsTree, Ops
<1>3. CASE AnySends
  <2>1. units' = units + 1 /\ units < MaxUnits
        /\ UNCHANGED <<client, src, todo, waiting, outcome, linkUp, changes>>
    BY <1>3 DEF AnySends, sourceVars
  <2>2. units' \in 0 .. MaxUnits
    BY <2>1, BoundsAssumption DEF ClientTypes
  <2> QED
    BY <2>1, <2>2 DEF ClientTypes, IsTree, Ops
<1>4. CASE AnyReads \/ AnyCloses \/ UNCHANGED vars
  BY <1>4 DEF AnyReads, AnyCloses, vars, clientVars, ClientTypes, IsTree, Ops
<1> QED
  BY <1>1, <1>2, <1>3, <1>4

LEMMA InitTypes ==
  ASSUME Init
  PROVE  SinkTypes /\ ClientTypes
<1>1. Target \in Paths /\ << >> \in Paths
  BY TargetAssumption DEF Paths
<1>2. IsTree(fs)
  <2>1. DOMAIN fs = Prefixes(Target) /\ \A q \in Prefixes(Target) : fs[q] = Directory
    BY DEF Init, SinkInit
  <2> QED
    BY <1>1, <2>1, PrefixTypes, NewNodes, TreeNodes
<1>3. SinkTypes
  <2>1. /\ stream = << >> /\ acks = << >> /\ closed = FALSE /\ phase = "new" /\ state = "none"
        /\ depth = 0 /\ dir = Target /\ timeSet = FALSE /\ time = 0 /\ file = << >>
        /\ left = 0 /\ result = "running" /\ faulty = FALSE
        /\ opts \subseteq {"r", "p", "t", "f"}
    BY DEF Init, SinkInit, Now
  <2>2. Wires
    BY <2>1 DEF Wires
  <2> QED
    <3>1. depth \in Int /\ time \in Int /\ left \in Nat /\ dir \in Paths /\ file \in Paths
      BY <1>1, <2>1
    <3>2. phase \in {"new", "header", "content", "end", "done"} /\ state \in States \cup {"none"}
          /\ result \in {"running", "ok", "error"}
      BY <2>1
    <3>3. closed \in BOOLEAN /\ timeSet \in BOOLEAN /\ faulty \in BOOLEAN
      BY <2>1
    <3> QED
      BY <1>2, <2>1, <2>2, <3>1, <3>2, <3>3 DEF SinkTypes
<1>4. IsTree(src)
  <2>1. src \in Trees
    BY DEF Init
  <2>2. ASSUME NEW p \in DOMAIN src PROVE p \in Paths /\ src[p] \in Nodes
    <3>1. p \in Seq(Names) /\ src[p] \in [dir : BOOLEAN, content : Seq({"byte", "nul"}), time : Int]
      BY <2>1, TreesAssumption
    <3> DEFINE n == src[p]
    <3> HIDE DEF n
    <3>2. n \in [dir : BOOLEAN, content : Seq({"byte", "nul"}), time : Int]
      BY <3>1 DEF n
    <3>3. n.content \in Seq(UnitKinds)
      BY <3>2 DEF UnitKinds
    <3>4. n \in Nodes
      BY <3>2, <3>3 DEF Nodes
    <3> QED
      BY <3>1, <3>4 DEF Paths, n
  <2> QED
    BY <2>2, TreeNodes
<1>5. \A i \in DOMAIN todo : todo[i].op \in Ops
  <2>1. todo = << >> \/ todo = <<Task("stat", Top)>>
    BY DEF Init
  <2>2. Task("stat", Top).op \in Ops
    BY DEF Task, Ops
  <2> QED
    BY <2>1, <2>2
<1>6. /\ client \in Clients /\ waiting \in BOOLEAN
      /\ outcome = "running" /\ linkUp \in BOOLEAN /\ units = 0 /\ changes = {}
  BY DEF Init
<1>7. 0 \in 0 .. MaxUnits
  BY BoundsAssumption
<1> QED
  BY <1>3, <1>4, <1>5, <1>6, <1>7 DEF ClientTypes

\* The invariant of all that follows.
SCPInv ==
  /\ client \in {"source", "any"}
  /\ client = "source" => Conversation
  /\ TimeInv
  /\ SinkTypes
  /\ ClientTypes

LEMMA InitSCPInv == Init => SCPInv
<1> SUFFICES ASSUME Init PROVE SCPInv
  OBVIOUS
<1>1. client \in {"source", "any"}
  BY ClientsAssumption DEF Init
<1> QED
  BY <1>1, InitConversation, InitTimeInv, InitTypes DEF SCPInv

LEMMA NextSCPInv == SCPInv /\ [Next]_vars => SCPInv'
<1> SUFFICES ASSUME SCPInv, [Next]_vars PROVE SCPInv'
  OBVIOUS
<1>1. client' = client /\ TimeInv'
  BY ClientStays, NextTimeInv DEF SCPInv
<1>2. client = "source" => Conversation'
  BY NextConversation DEF SCPInv
<1>3. Wires /\ SinkTypes /\ ClientTypes /\ TimeInv /\ (client = "source" => Conversation)
  BY DEF SCPInv, SinkTypes
<1>4. CASE Sink /\ UNCHANGED clientVars
  BY <1>1, <1>2, <1>3, <1>4, SinkStepTypes, SinkClientTypes DEF SCPInv
<1>5. CASE Source
  <2>1. client = "source"
    BY <1>5 DEF Source, SourceStats, SourceSends, SourceLists, SourceSendsData, SourceGetsAck,
                SourceGetsNoAck, SourceDone, SourceIOError, Sending
  <2>2. Plan' /\ Wires'
    BY <1>2, <2>1 DEF Conversation
  <2> QED
    BY <1>1, <1>2, <1>3, <1>5, <2>1, <2>2, SourceSinkTypes, SourceClientTypes DEF SCPInv
<1>6. CASE Change \/ Disconnect \/ AnySends \/ AnyReads \/ AnyCloses \/ UNCHANGED vars
  <2>1. Wires'
    <3>1. CASE Change \/ Disconnect
      BY <1>3, <3>1, EnvironmentWires
    <3>2. CASE AnySends \/ AnyReads \/ AnyCloses
      BY <1>3, <3>2, AnyWires
    <3>3. CASE UNCHANGED vars
      BY <1>3, <3>3 DEF Wires, vars, sinkVars
    <3> QED
      BY <1>6, <3>1, <3>2, <3>3
  <2>2. client = "source" => Plan
    BY <1>3 DEF Conversation
  <2> QED
    BY <1>1, <1>2, <1>3, <1>6, <2>1, <2>2, EnvironmentSinkTypes, EnvironmentClientTypes DEF SCPInv
<1>7. CASE Finished
  BY <1>6, <1>7 DEF Finished
<1> QED
  BY <1>4, <1>5, <1>6, <1>7 DEF Next

\* The variables have their types, whatever a client sends.
THEOREM Typing == Spec => []TypeOK
<1>1. SCPInv => TypeOK
  <2> SUFFICES ASSUME SinkTypes, ClientTypes PROVE TypeOK
    BY DEF SCPInv
  <2>1. \A i \in DOMAIN stream : stream[i].kind \in UnitKinds
    <3>1. stream \in Seq(Units)
      BY DEF SinkTypes, Wires
    <3>2. \A i \in DOMAIN stream : stream[i] \in Units
      BY <3>1
    <3> QED
      BY <3>2 DEF Units
  <2>2. \A i \in DOMAIN acks : acks[i] \in {"ok", "error"}
    <3>1. acks \in Seq({"ok", "error"})
      BY DEF SinkTypes, Wires
    <3> QED
      BY <3>1
  <2> QED
    BY <2>1, <2>2 DEF SinkTypes, ClientTypes, TypeOK, Paths, States, Ops
<1> QED
  BY <1>1, InitSCPInv, NextSCPInv, PTL DEF Spec

-----------------------------------------------------------------------------
(***************************************************************************)
(* Neither end fails unless the environment does.  The sizes that are      *)
(* announced are those of the files, what has been sent of a file is what  *)
(* the sink waits for, and what there is at the target is in no one's way. *)
(***************************************************************************)
LEMMA OwnPrefix ==
  ASSUME NEW p \in Paths
  PROVE  p \in Prefixes(p)
<1>1. SubSeq(p, 1, Len(p)) = p /\ Len(p) \in 0 .. Len(p)
  BY SubSeqFull DEF Paths
<1> QED
  BY <1>1 DEF Prefixes

LEMMA PrefixOfPrefix ==
  ASSUME NEW p \in Paths, NEW q \in Prefixes(p), NEW r \in Prefixes(q)
  PROVE  r \in Prefixes(p)
<1>1. q \in Paths /\ Len(q) \in 0 .. Len(p) /\ q = SubSeq(p, 1, Len(q))
  BY PrefixTypes
<1>2. r \in Paths /\ Len(r) \in 0 .. Len(q) /\ r = SubSeq(q, 1, Len(r))
  BY <1>1, PrefixTypes
<1> PICK n : n = Len(q)
  OBVIOUS
<1> PICK m : m = Len(r)
  OBVIOUS
<1>3. /\ n \in 0 .. Len(p) /\ m \in 0 .. n /\ p \in Seq(Names) /\ Len(p) \in Nat
      /\ q = SubSeq(p, 1, n) /\ r = SubSeq(q, 1, m)
  BY <1>1, <1>2 DEF Paths
<1>4. SubSeq(SubSeq(p, 1, n), 1, m) = SubSeq(p, 1, m)
  BY <1>3
<1>5. m \in 0 .. Len(p)
  BY <1>3
<1> QED
  BY <1>3, <1>4, <1>5 DEF Prefixes

LEMMA PrefixOfLonger ==
  ASSUME NEW p \in Paths, NEW n \in Names, NEW q \in Prefixes(Append(p, n))
  PROVE  q = Append(p, n) \/ q \in Prefixes(p)
<1> DEFINE l == Append(p, n)
<1>1. l \in Paths /\ Len(l) = Len(p) + 1 /\ p \in Seq(Names) /\ Len(p) \in Nat
  BY DEF Paths
<1>2. PICK k \in 0 .. Len(l) : q = SubSeq(l, 1, k)
  BY DEF Prefixes
<1>3. CASE k = Len(l)
  <2>1. SubSeq(l, 1, Len(l)) = l
    BY <1>1, SubSeqFull DEF Paths
  <2> QED
    BY <1>2, <1>3, <2>1
<1>4. CASE k # Len(l)
  <2>1. k \in 0 .. Len(p)
    BY <1>1, <1>4
  <2>2. SubSeq(Append(p, n), 1, k) = SubSeq(p, 1, k)
    BY <1>1, <2>1
  <2> QED
    BY <1>2, <2>1, <2>2 DEF Prefixes
<1> QED
  BY <1>3, <1>4

LEMMA ParentIsPrefix ==
  ASSUME NEW p \in Paths
  PROVE  Parent(p) \in Prefixes(p)
BY OwnPrefix, ParentOfPrefix

\* Nothing stands in the way of a transfer: what is to be sent can be sent, and the
\* environment has not failed.
Undisturbed == client = "source" /\ Transferable /\ ~faulty /\ changes = {}

\* The size in a task is the size of its file.
Exact(t) == t.op \in {"C", "data"} => t.size = Len(src[t.path].content)
ExactTasks == {t \in TaskSet : Exact(t)}

\* At the target there are the directories that lead there, and nodes like those of
\* the tree; and every node is in directories.
Image ==
  \A q \in DOMAIN fs :
    \/ q \in Prefixes(Target) /\ fs[q].dir
    \/ \E p \in DOMAIN src : q = Target \o p /\ fs[q].dir = src[p].dir

Nested == \A q \in DOMAIN fs : \A r \in Prefixes(q) : r = q \/ IsDirectory(r)

\* What has been sent of a file is what the sink waits for, with the byte after it.
Promised ==
  \/ stream = << >> /\ todo # << >> /\ todo[1].op = "data" /\ left = todo[1].size
  \/ stream # << >> /\ Len(stream) = left + 1 /\ stream[Len(stream)].kind = "nul"

Well ==
  /\ linkUp /\ src \in Trees /\ "t" \in opts /\ "f" \notin opts
  /\ outcome # "error" /\ result # "error"
  /\ closed \/ phase = "done" => outcome = "ok"
  /\ todo \in Seq(ExactTasks)

Copying ==
  /\ Image /\ Nested
  /\ phase # "done" => IsDirectory(dir)

Flowing ==
  /\ phase = "header" /\ stream # << >> => stream[1].message # Invalid
  /\ phase \in {"content", "end"} => Promised
  /\ phase = "end" => left = 0

Smooth == Well /\ Copying /\ Flowing

LEMMA InitSmooth ==
  ASSUME Init, Undisturbed
  PROVE  Smooth
<1>1. /\ stream = << >> /\ closed = FALSE /\ phase = "new" /\ dir = Target /\ result = "running"
      /\ fs = [p \in Prefixes(Target) |-> Directory]
      /\ linkUp = TRUE /\ src \in Trees /\ outcome = "running" /\ "t" \in opts /\ "f" \notin opts
      /\ todo = <<Task("stat", Top)>>
  BY DEF Init, SinkInit, Undisturbed
<1>2. todo \in Seq(ExactTasks)
  <2>1. Conversation /\ SourceTree
    BY InitConversation DEF Undisturbed, Conversation, Plan
  <2>2. Top \in DOMAIN src
    BY <2>1 DEF Top, SourceTree
  <2> DEFINE t == Task("stat", Top)
  <2>3. t \in TaskSet /\ t.op = "stat"
    BY <2>1, <2>2, OneTask DEF Ops
  <2>4. todo = <<t>>
    BY <1>1
  <2> HIDE DEF t
  <2>5. t \in ExactTasks
    BY <2>3 DEF ExactTasks, Exact
  <2> QED
    BY <2>4, <2>5
<1>3. DOMAIN fs = Prefixes(Target) /\ \A q \in Prefixes(Target) : fs[q].dir
  BY <1>1 DEF Directory
<1>4. Image
  BY <1>3 DEF Image
<1>5. Target \in Paths
  BY TargetAssumption DEF Paths
<1>6. Nested
  BY <1>3, <1>5, PrefixOfPrefix DEF Nested, IsDirectory
<1>7. IsDirectory(Target)
  BY <1>3, <1>5, OwnPrefix DEF IsDirectory
<1> QED
  BY <1>1, <1>2, <1>4, <1>6, <1>7 DEF Smooth, Well, Copying, Flowing

LEMMA Calm ==
  ASSUME Undisturbed', [Next]_vars
  PROVE  /\ Undisturbed
         /\ UNCHANGED <<client, opts, src, linkUp>>
         /\ \/ Sink /\ ~SinkIOError /\ UNCHANGED clientVars
            \/ Source /\ ~SourceIOError
            \/ UNCHANGED vars
<1>1. client = "source" /\ client' = client
  BY ClientStays DEF Undisturbed
<1>2. (Sink /\ UNCHANGED clientVars) \/ Source \/ Change \/ Disconnect \/ UNCHANGED vars
  BY <1>1, SourceOnly
<1>3. faulty' = FALSE /\ changes' = {}
  <2>1. ~faulty' /\ changes' = {}
    BY DEF Undisturbed
  <2> QED
    BY <2>1
<1>4. ~Change
  <2>1. Change => changes' # {}
    BY DEF Change
  <2> QED
    BY <1>3, <2>1
<1>5. ~Disconnect /\ ~SinkIOError /\ ~SourceIOError
  BY <1>3 DEF Disconnect, SinkIOError, SourceIOError
<1>6. opts' = opts
  BY ModeStays
<1>7. UNCHANGED <<src, linkUp, changes>>
  <2>1. Source => UNCHANGED <<src, linkUp, changes>>
    BY DEF Source, SourceStats, SourceSends, SourceLists, SourceSendsData, SourceGetsAck,
           SourceGetsNoAck, SourceDone, SourceIOError, SourceUnchanged
  <2>2. UNCHANGED clientVars \/ UNCHANGED vars => UNCHANGED <<src, linkUp, changes>>
    BY DEF clientVars, vars
  <2> QED
    BY <1>2, <1>4, <1>5, <2>1, <2>2
<1>8. faulty' = faulty
  <2>1. Source => faulty' = faulty
    BY <1>5 DEF Source, SourceStats, SourceSends, SourceLists, SourceSendsData, SourceGetsAck,
           SourceGetsNoAck, SourceDone
  <2>2. Sink => faulty' = faulty
    BY <1>5 DEF Sink, SinkStarts, ReceiveC, ReceiveD, ReceiveE, ReceiveT, RejectMessage,
           CopyByte, FileWritten, ReceiveEnd, EndOfStream
  <2>3. UNCHANGED vars => faulty' = faulty
    BY DEF vars, sinkVars
  <2> QED
    BY <1>2, <1>4, <1>5, <2>1, <2>2, <2>3
<1>9. Transferable' <=> Transferable
  BY <1>6, <1>7 DEF Transferable, times, recursive
<1>10. Undisturbed
  BY <1>1, <1>3, <1>7, <1>8, <1>9 DEF Undisturbed
<1> QED
  BY <1>1, <1>2, <1>4, <1>5, <1>6, <1>7, <1>10

\* What the sink has to do next is what the source means it to do, and it can.
LEMMA Expected ==
  ASSUME Conversation, Undisturbed, Smooth, phase = "header", LineEnds # {}
  PROVE  \E t \in TaskSet :
           /\ UnderWay(t) /\ IsTask(t) /\ t.op \in {"T", "C", "D", "E"}
           /\ NextMessage = MessageFor(t) /\ NextMessage.type = t.op
           /\ stream = <<Line(String(MessageFor(t)))>>
           /\ t.op \in DOMAIN NextState[state]
<1>1. stream # << >> /\ stream[1].message # Invalid
  BY NoLine DEF Smooth, Flowing
<1>2. ~New /\ ~Resting /\ ~Spoilt
  BY <1>1 DEF New, Resting, Spoilt
<1>3. PICK t \in TaskSet : UnderWay(t)
  BY <1>2 DEF Conversation, Talk
<1>4. /\ IsTask(t) /\ t.op \in {"T", "C", "D", "E"} /\ stream = <<Line(String(MessageFor(t)))>>
      /\ Ready(state, Before(t), <<t>>)
  BY <1>3 DEF UnderWay
<1>5. SourceTree
  BY DEF Conversation, Plan
<1> DEFINE u == Line(String(MessageFor(t)))
           m == MessageFor(t)
<1>6. /\ m.type = t.op /\ u.kind = "line"
      /\ u.message = IF Legible(m) THEN m ELSE Invalid
  BY <1>4, <1>5, Said
<1>7. stream = <<u>> /\ stream[1] = u
  BY <1>4
<1> HIDE DEF u, m
<1>8. u.message = m /\ NextMessage = u.message
  BY <1>1, <1>6, <1>7, OneLine
<1>9. t.op \in DOMAIN NextState[state]
  <2>1. /\ t.op = "T" => times
        /\ t.op = "D" => recursive
        /\ t.op = "E" => recursive /\ Before(t) # << >>
    <3>1. t.path \in DOMAIN src /\ (t.op \in {"D", "E"} => src[t.path].dir)
      BY <1>4 DEF IsTask
    <3>2. t.op \in {"D", "E"} => recursive
      BY <3>1 DEF Undisturbed, Transferable
    <3>3. t.op = "E" => Before(t) # << >>
      BY <1>4, <1>5, TaskPath DEF Before
    <3> QED
      BY <1>4, <3>2, <3>3 DEF IsTask
  <2>2. \/ times /\ t.op \in {"C", "D"} /\ FitsTimed(state)
        \/ ~(times /\ t.op \in {"C", "D"}) /\ Fits(state, Before(t))
    <3>1. <<t>> # << >> /\ <<t>>[1] = t
      OBVIOUS
    <3> QED
      BY <1>4, <3>1 DEF Ready
  <2>3. CASE t.op = "T"
    BY <2>1, <2>2, <2>3 DEF Fits, NextState
  <2>4. CASE t.op = "E"
    BY <2>1, <2>2, <2>4 DEF Fits, NextState
  <2>5. CASE t.op = "D"
    BY <2>1, <2>2, <2>5 DEF Fits, FitsTimed, NextState
  <2>6. CASE t.op = "C"
    BY <2>2, <2>6 DEF Fits, FitsTimed, NextState
  <2> QED
    BY <1>4, <2>3, <2>4, <2>5, <2>6
<1> QED
  BY <1>3, <1>4, <1>6, <1>8, <1>9 DEF m

\* The path of a node that is about to be created.
LEMMA NodePath ==
  ASSUME SourceTree, NEW t, IsTask(t), t.op \in {"C", "D"}, At(Before(t))
  PROVE  /\ dir \in Paths /\ Name(t.path) \in Names
         /\ Append(dir, Name(t.path)) = Target \o t.path
         /\ Len(Target \o t.path) = Len(dir) + 1
         /\ Len(Target \o t.path) > Len(Target)
<1>1. t.path \in Paths /\ t.path # << >>
  BY TaskPath
<1> DEFINE f == Front(t.path)
           n == Name(t.path)
<1>2. f \in Paths /\ Len(f) = Len(t.path) - 1 /\ n \in Names /\ Append(f, n) = t.path
  BY <1>1, PathFront
<1>3. dir = Target \o f
  BY DEF At, Before
<1> HIDE DEF f, n
<1>4. Append(dir, n) = Target \o t.path
  BY <1>2, <1>3, InTarget
<1>5. Len(t.path) \in Nat /\ Len(t.path) >= 1 /\ Len(Target) \in Nat
  BY <1>1, TargetAssumption DEF Paths
<1>6. Len(dir) = Len(Target) + Len(f) /\ dir \in Paths
  BY <1>2, <1>3, InTarget
<1>7. Len(Target \o t.path) = Len(Target) + Len(t.path)
  BY <1>1, InTarget
<1> QED
  BY <1>2, <1>4, <1>5, <1>6, <1>7 DEF n

\* A node at the target is like that of the tree.
LEMMA ImageOf ==
  ASSUME SourceTree, Image, NEW p \in Paths, Len(Target \o p) > Len(Target),
         Target \o p \in DOMAIN fs
  PROVE  p \in DOMAIN src /\ fs[Target \o p].dir = src[p].dir
<1>1. Target \o p \notin Prefixes(Target)
  <2>1. Target \in Paths /\ Len(Target) \in Nat
    BY TargetAssumption DEF Paths
  <2>2. \A q \in Prefixes(Target) : Len(q) \in 0 .. Len(Target)
    BY <2>1, PrefixTypes
  <2> DEFINE d == Target \o p
  <2>3. Len(d) > Len(Target)
    OBVIOUS
  <2> HIDE DEF d
  <2>4. d \notin Prefixes(Target)
    BY <2>1, <2>2, <2>3
  <2> QED
    BY <2>4 DEF d
<1>2. PICK r \in DOMAIN src : Target \o p = Target \o r /\ fs[Target \o p].dir = src[r].dir
  BY <1>1 DEF Image
<1>3. r \in Paths
  BY DEF SourceTree
<1>4. p = r
  BY <1>2, <1>3, InTarget
<1> QED
  BY <1>2, <1>4

LEMMA CanOpenNext ==
  ASSUME SourceTree, Undisturbed, Image, IsDirectory(dir),
         NEW t, IsTask(t), t.op = "C", At(Before(t))
  PROVE  /\ FilePath(dir, Name(t.path)) = Target \o t.path
         /\ CanOpen(Target \o t.path)
         /\ Parent(Target \o t.path) = dir
<1>1. /\ dir \in Paths /\ Name(t.path) \in Names
      /\ Append(dir, Name(t.path)) = Target \o t.path
      /\ Len(Target \o t.path) = Len(dir) + 1
      /\ Len(Target \o t.path) > Len(Target)
  BY NodePath
<1>2. t.path \in Paths /\ t.path # << >> /\ t.path \in DOMAIN src /\ ~src[t.path].dir
  BY TaskPath DEF IsTask
<1>3. Parent(Target \o t.path) = dir
  BY <1>2, ParentInTarget DEF At, Before
<1>4. dir # << >>
  <2> SUFFICES ASSUME dir = << >> PROVE FALSE
    OBVIOUS
  <2>1. Len(dir) = 0 /\ Len(Target) \in Nat /\ Len(t.path) \in Nat /\ Len(t.path) >= 1
    BY <1>2, TargetAssumption DEF Paths
  <2>2. Len(Target) + Len(t.path) = 1
    BY <1>1, <1>2, <2>1, InTarget
  <2>3. Len(t.path) = 1 /\ Len(Target) = 0
    <3> DEFINE a == Len(Target)
               b == Len(t.path)
    <3>1. a \in Nat /\ b \in Nat /\ b >= 1 /\ a + b = 1
      BY <2>1, <2>2
    <3> HIDE DEF a, b
    <3>2. b = 1 /\ a = 0
      BY <3>1
    <3> QED
      BY <3>2 DEF a, b
  <2>4. Target = << >>
    BY <2>3, TargetAssumption
  <2> QED
    BY <1>2, <2>3, <2>4 DEF Undisturbed, Transferable
<1>5. Parent(dir) # dir
  <2>1. Front(dir) \in Paths /\ Len(Front(dir)) = Len(dir) - 1 /\ Len(dir) \in Nat
    BY <1>1, <1>4, PathFront DEF Paths
  <2>2. Front(dir) # dir
    BY <2>1
  <2> QED
    BY <1>4, <2>2 DEF Parent
<1>6. ~IsDirectory(Target \o t.path)
  BY <1>1, <1>2, ImageOf DEF IsDirectory
<1> QED
  BY <1>1, <1>3, <1>5, <1>6 DEF FilePath, CanOpen

LEMMA CanMkdirNext ==
  ASSUME SourceTree, Image, Nested, IsDirectory(dir),
         NEW t, IsTask(t), t.op = "D", At(Before(t))
  PROVE  /\ Append(dir, Name(t.path)) = Target \o t.path
         /\ CanMkdir(Target \o t.path)
         /\ \A q \in Prefixes(Target \o t.path) : q = Target \o t.path \/ IsDirectory(q)
<1>1. /\ dir \in Paths /\ Name(t.path) \in Names
      /\ Append(dir, Name(t.path)) = Target \o t.path
      /\ Len(Target \o t.path) > Len(Target)
  BY NodePath
<1>2. t.path \in Paths /\ t.path \in DOMAIN src /\ src[t.path].dir
  BY TaskPath DEF IsTask
<1> DEFINE n == Name(t.path)
           d == Target \o t.path
<1> HIDE DEF n
<1>3. \A q \in Prefixes(d) : q = d \/ IsDirectory(q)
  <2> SUFFICES ASSUME NEW q \in Prefixes(d), q # d PROVE IsDirectory(q)
    OBVIOUS
  <2>1. q \in Prefixes(dir)
    BY <1>1, PrefixOfLonger DEF n
  <2> QED
    BY <2>1 DEF Nested, IsDirectory
<1>4. d \in DOMAIN fs => fs[d].dir
  BY <1>1, <1>2, ImageOf
<1> HIDE DEF d
<1>5. CanMkdir(d)
  BY <1>3, <1>4 DEF CanMkdir, IsDirectory
<1> QED
  BY <1>1, <1>3, <1>5 DEF d

LEMMA SameCopy ==
  ASSUME Image, Nested, src' = src, Kept(fs, fs'), DOMAIN fs' = DOMAIN fs
  PROVE  Image' /\ Nested' /\ \A q : IsDirectory(q) => IsDirectory(q)'
<1>1. \A q \in DOMAIN fs : fs'[q].dir = fs[q].dir
  BY DEF Kept
<1>2. Image'
  BY <1>1 DEF Image
<1>3. \A q : IsDirectory(q) => IsDirectory(q)'
  BY <1>1 DEF IsDirectory
<1>4. Nested'
  BY <1>3 DEF Nested
<1> QED
  BY <1>2, <1>3, <1>4

\* A node of the tree is created at the target.
LEMMA NewNode ==
  ASSUME Image, Nested, src' = src, NEW p \in DOMAIN src, NEW d, d = Target \o p,
         DOMAIN fs' = DOMAIN fs \cup {d},
         \A q \in DOMAIN fs \ {d} : fs'[q].dir = fs[q].dir,
         fs'[d].dir = src[p].dir, IsDirectory(d) => src[p].dir,
         \A r \in Prefixes(d) : r = d \/ IsDirectory(r)
  PROVE  Image' /\ Nested' /\ \A q : IsDirectory(q) => IsDirectory(q)'
<1>1. Image'
  <2> SUFFICES ASSUME NEW q \in DOMAIN fs'
               PROVE  \/ q \in Prefixes(Target) /\ fs'[q].dir
                      \/ \E r \in DOMAIN src : q = Target \o r /\ fs'[q].dir = src[r].dir
    BY DEF Image
  <2>1. CASE q = d
    BY <2>1
  <2>2. CASE q # d
    BY <2>2 DEF Image
  <2> QED
    BY <2>1, <2>2
<1>2. \A q : IsDirectory(q) => IsDirectory(q)'
  BY DEF IsDirectory
<1>3. Nested'
  BY <1>2 DEF Nested
<1> QED
  BY <1>1, <1>2, <1>3

\* What a step of the sink has to keep.
LEMMA SinkWell ==
  ASSUME Well, UNCHANGED clientVars, UNCHANGED <<opts, closed>>,
         result' # "error", phase' = "done" => closed \/ phase = "done"
  PROVE  Well'
<1>1. UNCHANGED <<linkUp, src, outcome, todo>>
  BY DEF clientVars
<1>2. ExactTasks' = ExactTasks
  BY <1>1 DEF ExactTasks, Exact
<1> QED
  BY <1>1, <1>2 DEF Well

LEMMA StartsSmooth ==
  ASSUME Conversation, Smooth, SinkStarts, UNCHANGED clientVars
  PROVE  Smooth'
<1>1. "t" \in opts /\ "f" \notin opts
  BY DEF Smooth, Well
<1>2. /\ phase = "new" /\ phase' = "header" /\ UNCHANGED <<opts, stream, closed, dir, result, fs>>
  BY <1>1 DEF SinkStarts
<1>3. stream' = << >>
  BY <1>2 DEF Conversation, Talk, New, Resting, UnderWay, Spoilt
<1>4. Well'
  BY <1>2, SinkWell DEF Smooth, Well
<1>5. src' = src
  BY DEF clientVars
<1>6. Copying'
  <2>1. Kept(fs, fs') /\ DOMAIN fs' = DOMAIN fs
    BY <1>2 DEF Kept
  <2> QED
    BY <1>2, <1>5, <2>1, SameCopy DEF Smooth, Copying
<1>7. Flowing'
  BY <1>2, <1>3 DEF Flowing
<1> QED
  BY <1>4, <1>6, <1>7 DEF Smooth

\* The size of a file fits into the 63 bits of the limit.
LEMMA Limited ==
  ASSUME Conversation, Smooth, todo # << >>, todo[1].op = "data"
  PROVE  /\ Limit(todo[1].size) = todo[1].size
         /\ todo[1].size = Len(src[todo[1].path].content)
         /\ todo[1].path \in DOMAIN src /\ ~src[todo[1].path].dir
<1>1. todo \in Seq(ExactTasks) /\ src \in Trees
  BY DEF Smooth, Well
<1>2. Walk(todo)
  BY DEF Conversation, Plan
<1>3. 1 \in 1 .. Len(todo)
  BY <1>1
<1>4. todo[1] \in ExactTasks /\ IsTask(todo[1])
  BY <1>1, <1>2, <1>3 DEF Walk, Steps
<1>5. todo[1].size = Len(src[todo[1].path].content)
  BY <1>4 DEF ExactTasks, Exact
<1>6. todo[1].path \in DOMAIN src /\ ~src[todo[1].path].dir
  BY <1>4 DEF IsTask
<1>7. Len(src[todo[1].path].content) < TwoTo63
  BY <1>1, <1>6, TreesAssumption
<1> QED
  BY <1>5, <1>6, <1>7 DEF Limit

LEMMA FileSmooth ==
  ASSUME SCPInv, Undisturbed, Smooth, ReceiveC, UNCHANGED clientVars
  PROVE  Smooth'
<1>1. Conversation /\ SourceTree /\ IsTree(fs) /\ UNCHANGED <<src, todo>>
  BY DEF SCPInv, Undisturbed, Conversation, Plan, SinkTypes, clientVars
<1>2. Receives("C") /\ phase = "header" /\ LineEnds # {} /\ NextMessage.type = "C"
      /\ UNCHANGED <<opts, closed, dir>> /\ ReadLine
  BY DEF ReceiveC, Receives
<1>3. PICK t \in TaskSet :
        /\ UnderWay(t) /\ t.op = "C" /\ IsTask(t)
        /\ NextMessage = MessageFor(t)
        /\ SubSeq(stream, FirstLineEnd + 1, Len(stream)) = << >>
  BY <1>1, <1>2, Taken
<1>4. NextMessage.name = Name(t.path) /\ NextMessage.length = t.size
  BY <1>3 DEF MessageFor, CMessage
<1> DEFINE d == Target \o t.path
<1>5. Image /\ Nested /\ IsDirectory(dir) /\ At(Before(t)) /\ Linked(t, todo)
  BY <1>2, <1>3 DEF Smooth, Copying, UnderWay
<1>6. /\ FilePath(dir, NextMessage.name) = d /\ CanOpen(d) /\ Parent(d) = dir
  BY <1>1, <1>3, <1>4, <1>5, CanOpenNext
<1>7. /\ fs' = WithNode(d, EmptyFile) /\ phase' = "content" /\ result' = result
      /\ left' = Limit(t.size) /\ stream' = << >>
  BY <1>2, <1>3, <1>4, <1>6 DEF ReceiveC, ReadLine
<1>8. Well'
  BY <1>2, <1>7, SinkWell DEF Smooth, Well
<1>9. todo # << >> /\ todo[1].op = "data" /\ todo[1].size = t.size
  BY <1>1, <1>3, <1>5, AfterTask DEF Conversation, Plan
<1>10. left' = todo[1].size
  BY <1>1, <1>7, <1>9, Limited
<1>11. Flowing'
  BY <1>1, <1>7, <1>9, <1>10 DEF Flowing, Promised
<1>12. d \in Paths /\ t.path \in DOMAIN src /\ ~src[t.path].dir
  <2>1. t.path \in Paths
    BY <1>1, <1>3, TaskPath
  <2> QED
    BY <1>3, <2>1, InTarget DEF IsTask
<1>13. \A r \in Prefixes(d) : r = d \/ IsDirectory(r)
  <2> SUFFICES ASSUME NEW r \in Prefixes(d), r # d PROVE IsDirectory(r)
    OBVIOUS
  <2>1. dir \in Paths /\ Name(t.path) \in Names /\ Append(dir, Name(t.path)) = d
    BY <1>1, <1>3, <1>5, NodePath
  <2>2. r \in Prefixes(dir)
    BY <2>1, PrefixOfLonger
  <2> QED
    BY <1>5, <2>2 DEF Nested, IsDirectory
<1> HIDE DEF d
<1>14. /\ DOMAIN fs' = DOMAIN fs \cup {d} /\ fs'[d] = EmptyFile
       /\ \A q \in DOMAIN fs \ {d} : fs'[q].dir = fs[q].dir
  BY <1>1, <1>7, <1>12, NodeAdded, NewNodes
<1>15. fs'[d].dir = src[t.path].dir
  <2>1. src[t.path].dir \in BOOLEAN
    BY <1>1, <1>12 DEF SourceTree
  <2>2. src[t.path].dir = FALSE
    BY <1>12, <2>1
  <2>3. EmptyFile.dir = FALSE
    BY DEF EmptyFile
  <2> QED
    BY <1>14, <2>2, <2>3
<1>16. Image' /\ Nested' /\ \A q : IsDirectory(q) => IsDirectory(q)'
  BY <1>1, <1>5, <1>6, <1>12, <1>13, <1>14, <1>15, NewNode DEF CanOpen, d
<1>17. Copying'
  BY <1>2, <1>5, <1>16 DEF Copying, IsDirectory
<1> QED
  BY <1>8, <1>11, <1>17 DEF Smooth

LEMMA DirectorySmooth ==
  ASSUME SCPInv, Undisturbed, Smooth, ReceiveD, UNCHANGED clientVars
  PROVE  Smooth'
<1>1. Conversation /\ SourceTree /\ IsTree(fs) /\ src' = src /\ time \in Int
  BY DEF SCPInv, Undisturbed, Conversation, Plan, SinkTypes, clientVars
<1>2. Receives("D") /\ phase = "header" /\ UNCHANGED <<opts, closed>> /\ ReadLine
  BY DEF ReceiveD, Receives
<1>3. PICK t \in TaskSet :
        /\ UnderWay(t) /\ t.op = "D" /\ IsTask(t)
        /\ NextMessage = MessageFor(t)
        /\ SubSeq(stream, FirstLineEnd + 1, Len(stream)) = << >>
  BY <1>1, <1>2, Taken
<1>4. NextMessage.name = Name(t.path) /\ NextMessage.length = 0
  BY <1>3 DEF MessageFor, DMessage
<1> DEFINE d == Target \o t.path
<1>5. Image /\ Nested /\ IsDirectory(dir) /\ At(Before(t))
  BY <1>2, <1>3 DEF Smooth, Copying, UnderWay
<1>6. /\ Append(dir, NextMessage.name) = d /\ CanMkdir(d)
      /\ \A q \in Prefixes(d) : q = d \/ IsDirectory(q)
  BY <1>1, <1>3, <1>4, <1>5, CanMkdirNext
<1> DEFINE made == WithDirectories(d)
<1>7. /\ fs' = (IF timeSet THEN [made EXCEPT ![d].time = time] ELSE made)
      /\ dir' = d /\ phase' = "header" /\ result' = result /\ stream' = << >>
  BY <1>2, <1>3, <1>4, <1>6 DEF ReceiveD, ReadLine
<1>8. Well'
  BY <1>2, <1>7, SinkWell DEF Smooth, Well
<1>9. Flowing'
  BY <1>7 DEF Flowing
<1>10. d \in Paths /\ t.path \in DOMAIN src /\ src[t.path].dir = TRUE
  <2>1. t.path \in Paths
    BY <1>1, <1>3, TaskPath
  <2>2. t.path \in DOMAIN src /\ src[t.path].dir
    BY <1>3 DEF IsTask
  <2>3. src[t.path].dir \in BOOLEAN
    BY <1>1, <2>2 DEF SourceTree
  <2> QED
    BY <2>1, <2>2, <2>3, InTarget
<1> HIDE DEF d, made
<1>11. /\ IsTree(made) /\ DOMAIN made = DOMAIN fs \cup Prefixes(d)
       /\ \A q \in DOMAIN fs : made[q].dir = fs[q].dir
       /\ \A q \in Prefixes(d) : made[q].dir
  BY <1>1, <1>6, <1>10, DirectoriesAdded DEF made
<1>12. d \in Prefixes(d)
  BY <1>10, OwnPrefix
<1>13. DOMAIN made = DOMAIN fs \cup {d}
  BY <1>6, <1>11, <1>12 DEF IsDirectory
<1>14. Kept(made, fs') /\ DOMAIN fs' = DOMAIN made
  <2>1. CASE timeSet
    BY <1>1, <1>7, <1>11, <2>1, DatedTree
  <2>2. CASE ~timeSet
    BY <1>7, <2>2 DEF Kept
  <2> QED
    BY <2>1, <2>2
<1>15. \A q \in DOMAIN fs \ {d} : fs'[q].dir = fs[q].dir
  BY <1>11, <1>14 DEF Kept
<1>16. fs'[d].dir = src[t.path].dir
  <2>1. made[d].dir \in BOOLEAN
    BY <1>11, <1>12, TreeNodes DEF Nodes
  <2>2. made[d].dir = TRUE
    BY <1>11, <1>12, <2>1
  <2> QED
    BY <1>10, <1>11, <1>12, <1>14, <2>2 DEF Kept
<1>17. Image' /\ Nested' /\ \A q : IsDirectory(q) => IsDirectory(q)'
  BY <1>1, <1>5, <1>6, <1>10, <1>13, <1>14, <1>15, <1>16, NewNode DEF d
<1>18. IsDirectory(d)'
  BY <1>10, <1>13, <1>14, <1>16 DEF IsDirectory
<1>19. Copying'
  BY <1>7, <1>17, <1>18 DEF Copying, IsDirectory
<1> QED
  BY <1>8, <1>9, <1>19 DEF Smooth

LEMMA LeavesSmooth ==
  ASSUME SCPInv, Undisturbed, Smooth, ReceiveE \/ ReceiveT, UNCHANGED clientVars
  PROVE  Smooth'
<1>1. Conversation /\ src' = src /\ dir \in Paths
  BY DEF SCPInv, Undisturbed, SinkTypes, clientVars
<1>2. PICK x \in {"E", "T"} : Receives(x)
  BY DEF ReceiveE, ReceiveT
<1>3. SubSeq(stream, FirstLineEnd + 1, Len(stream)) = << >>
  BY <1>1, <1>2, Taken
<1>4. /\ phase = "header" /\ UNCHANGED <<opts, closed, phase, result, fs>> /\ stream' = << >>
      /\ dir' = dir \/ dir' = Parent(dir)
  BY <1>2, <1>3 DEF ReceiveE, ReceiveT, Receives, ReadLine
<1>5. Well'
  BY <1>4, SinkWell DEF Smooth, Well
<1>6. Flowing'
  BY <1>4 DEF Flowing
<1>7. Image /\ Nested /\ IsDirectory(dir)
  BY <1>4 DEF Smooth, Copying
<1>8. Image' /\ Nested' /\ \A q : IsDirectory(q) => IsDirectory(q)'
  <2>1. Kept(fs, fs') /\ DOMAIN fs' = DOMAIN fs
    BY <1>4 DEF Kept
  <2> QED
    BY <1>1, <1>7, <2>1, SameCopy
<1>9. IsDirectory(dir')
  <2>1. Parent(dir) \in Prefixes(dir)
    BY <1>1, ParentIsPrefix
  <2> QED
    BY <1>4, <1>7, <2>1 DEF Nested, IsDirectory
<1>10. Copying'
  BY <1>4, <1>8, <1>9 DEF Copying, IsDirectory
<1> QED
  BY <1>5, <1>6, <1>10 DEF Smooth

\* The bytes that the sink copies are those that were sent, and none is missing.
LEMMA LastOfTail ==
  ASSUME NEW S, NEW s \in Seq(S), NEW n \in Nat, n > 0, Len(s) = n + 1,
         NEW k, s[Len(s)].kind = k
  PROVE  /\ Tail(s) # << >> /\ Len(Tail(s)) = (n - 1) + 1 /\ Tail(s)[Len(Tail(s))].kind = k
<1>1. s # << >>
  OBVIOUS
<1>2. Len(Tail(s)) = n /\ \A i \in 1 .. n : Tail(s)[i] = s[i + 1]
  BY <1>1
<1>3. Tail(s)[n] = s[n + 1]
  BY <1>2
<1> DEFINE l == Tail(s)
<1> HIDE DEF l
<1>4. Len(l) = n /\ l[n] = s[n + 1]
  BY <1>2, <1>3 DEF l
<1>5. l # << >>
  BY <1>4
<1> QED
  BY <1>4, <1>5 DEF l

LEMMA ContentSmooth ==
  ASSUME SCPInv, Undisturbed, Smooth, CopyByte \/ FileWritten, UNCHANGED clientVars
  PROVE  Smooth'
<1>1. Conversation /\ SinkTypes /\ UNCHANGED <<src, todo>> /\ left \in Nat /\ stream \in Seq(Units)
  BY DEF SCPInv, Undisturbed, SinkTypes, Wires, clientVars
<1>2. /\ phase = "content" /\ UNCHANGED <<opts, closed, dir, result>>
      /\ phase' \in {"content", "end"}
  BY DEF CopyByte, FileWritten
<1>3. Well'
  BY <1>2, SinkWell DEF Smooth, Well
<1>4. Copying'
  <2>1. Kept(fs, fs') /\ DOMAIN fs' = DOMAIN fs
    BY <1>1, ContentTypes
  <2>2. Image' /\ Nested' /\ \A q : IsDirectory(q) => IsDirectory(q)'
    BY <1>1, <2>1, SameCopy DEF Smooth, Copying
  <2> QED
    BY <1>2, <2>2 DEF Smooth, Copying, IsDirectory
<1>5. Promised
  BY <1>2 DEF Smooth, Flowing
<1>6. Flowing'
  <2>1. CASE CopyByte
    <3>1. left > 0 /\ stream # << >> /\ stream' = Tail(stream) /\ left' = left - 1
          /\ phase' = "content"
      BY <1>2, <2>1 DEF CopyByte
    <3>2. Len(stream) = left + 1 /\ stream[Len(stream)].kind = "nul"
      BY <1>5, <3>1 DEF Promised
    <3>3. /\ Tail(stream) # << >> /\ Len(Tail(stream)) = (left - 1) + 1
          /\ Tail(stream)[Len(Tail(stream))].kind = "nul"
      BY <1>1, <3>1, <3>2, LastOfTail
    <3>4. Promised'
      BY <3>1, <3>3 DEF Promised
    <3> QED
      BY <3>1, <3>4 DEF Flowing
  <2>2. CASE FileWritten
    <3>1. /\ left = 0 \/ (stream = << >> /\ closed)
          /\ UNCHANGED <<stream, left>> /\ phase' = "end"
      BY <2>2 DEF FileWritten
    <3>2. closed => todo = << >>
      BY <1>1 DEF Smooth, Well, Conversation, Plan
    <3>3. left = 0
      BY <1>5, <3>1, <3>2 DEF Promised
    <3>4. Promised'
      BY <1>1, <1>5, <3>1 DEF Promised
    <3> QED
      BY <3>1, <3>3, <3>4 DEF Flowing
  <2> QED
    BY <2>1, <2>2
<1> QED
  BY <1>3, <1>4, <1>6 DEF Smooth

LEMMA OnlyOne ==
  ASSUME NEW S, NEW s \in Seq(S), Len(s) = 1
  PROVE  Tail(s) = << >> /\ Head(s) = s[1]
<1>1. s # << >>
  OBVIOUS
<1>2. Len(Tail(s)) = 0 /\ Tail(s) \in Seq(S)
  BY <1>1, HeadTailProperties
<1>3. Tail(s) = << >>
  BY <1>2, EmptySeq
<1> QED
  BY <1>3

LEMMA EndSmooth ==
  ASSUME SCPInv, Undisturbed, Smooth, ReceiveEnd \/ EndOfStream \/ RejectMessage,
         UNCHANGED clientVars
  PROVE  Smooth'
<1>1. Conversation /\ UNCHANGED <<src, todo>> /\ stream \in Seq(Units)
  BY DEF SCPInv, Undisturbed, SinkTypes, Wires, clientVars
<1>2. UNCHANGED <<opts, closed, dir, fs>> /\ phase \in {"header", "end"}
  BY DEF ReceiveEnd, EndOfStream, RejectMessage
<1>3. closed => todo = << >>
  BY <1>1 DEF Smooth, Well, Conversation, Plan
<1>4. ~RejectMessage
  <2> SUFFICES ASSUME RejectMessage PROVE FALSE
    OBVIOUS
  <2>1. phase = "header" /\ LineEnds # {} /\ NextMessage.type \notin DOMAIN NextState[state]
    BY DEF RejectMessage
  <2>2. \E t \in TaskSet : NextMessage.type = t.op /\ t.op \in DOMAIN NextState[state]
    BY <1>1, <2>1, Expected
  <2> QED
    BY <2>1, <2>2
<1>5. ReceiveEnd => Head(stream).kind = "nul" /\ Tail(stream) = << >>
  <2> SUFFICES ASSUME ReceiveEnd PROVE Head(stream).kind = "nul" /\ Tail(stream) = << >>
    OBVIOUS
  <2>1. phase = "end" /\ stream # << >>
    BY DEF ReceiveEnd
  <2>2. left = 0 /\ Promised
    BY <2>1 DEF Smooth, Flowing
  <2>3. Len(stream) = 1 /\ stream[1].kind = "nul"
    BY <2>1, <2>2 DEF Promised
  <2>4. Tail(stream) = << >> /\ Head(stream) = stream[1]
    BY <1>1, <2>3, OnlyOne
  <2> QED
    BY <2>3, <2>4
<1>6. EndOfStream => phase = "header"
  <2> SUFFICES ASSUME EndOfStream, phase = "end" PROVE FALSE
    BY <1>2
  <2>1. closed /\ stream = << >>
    BY DEF EndOfStream
  <2> QED
    BY <1>3, <2>1 DEF Smooth, Flowing, Promised
<1>7. /\ phase' \in {"header", "done"} /\ (phase' = "done" => closed)
      /\ result' = result \/ result' = "ok"
      /\ phase' = "header" => stream' = << >>
  BY <1>4, <1>5, <1>6 DEF ReceiveEnd, EndOfStream
<1>8. Well'
  BY <1>2, <1>7, SinkWell DEF Smooth, Well
<1>9. Copying'
  <2>1. Kept(fs, fs') /\ DOMAIN fs' = DOMAIN fs
    BY <1>2 DEF Kept
  <2>2. Image' /\ Nested' /\ \A q : IsDirectory(q) => IsDirectory(q)'
    BY <1>1, <2>1, SameCopy DEF Smooth, Copying
  <2> QED
    BY <1>2, <2>2 DEF Smooth, Copying, IsDirectory
<1>10. Flowing'
  BY <1>7 DEF Flowing
<1> QED
  BY <1>8, <1>9, <1>10 DEF Smooth

LEMMA SinkSmooth ==
  ASSUME SCPInv, Undisturbed, Smooth, Sink, ~SinkIOError, UNCHANGED clientVars
  PROVE  Smooth'
<1>1. Conversation
  BY DEF SCPInv, Undisturbed
<1> QED
  BY <1>1, StartsSmooth, FileSmooth, DirectorySmooth, LeavesSmooth, ContentSmooth, EndSmooth
     DEF Sink

\* Where the source goes on the sink rests, and has read all that was sent.
LEMMA SourceRests ==
  ASSUME SCPInv, Undisturbed, Smooth, outcome = "running", ~waiting \/ acks # << >>
  PROVE  /\ Resting /\ stream = << >> /\ phase # "done" /\ ~closed /\ linkUp
         /\ acks = IF waiting THEN <<"ok">> ELSE << >>
<1>1. Conversation
  BY DEF SCPInv, Undisturbed
<1>2. linkUp /\ ~closed /\ phase # "done"
  BY DEF Smooth, Well
<1>3. Resting \/ Spoilt
  BY <1>1, <1>2, FreeSource
<1>4. ~Spoilt
  BY <1>2 DEF Spoilt, Smooth, Flowing
<1> QED
  BY <1>2, <1>3, <1>4 DEF Resting, Live

\* A step of the source leaves the sink where it is.
LEMMA SourceKeeps ==
  ASSUME Smooth, UNCHANGED <<opts, phase, dir, result, fs, src, linkUp>>,
         outcome' # "error", closed' => closed \/ outcome' = "ok", outcome = "ok" => outcome' = "ok",
         todo' \in Seq(ExactTasks)
  PROVE  Well' /\ Copying'
<1>1. ExactTasks' = ExactTasks
  BY DEF ExactTasks, Exact
<1>2. Well'
  BY <1>1 DEF Smooth, Well
<1>3. Image' /\ Nested'
  <2>1. Kept(fs, fs') /\ DOMAIN fs' = DOMAIN fs
    BY DEF Kept
  <2> QED
    BY <2>1, SameCopy DEF Smooth, Copying
<1>4. Copying'
  BY <1>3 DEF Smooth, Copying, IsDirectory
<1> QED
  BY <1>2, <1>4

LEMMA TasksExact ==
  ASSUME SourceTree, NEW p \in DOMAIN src
  PROVE  Tasks(p) \in Seq(ExactTasks)
<1> DEFINE tT == Task("T", p)
           tD == Task("D", p)
           tL == Task("list", p)
           tC == Task("C", p)
           tA == Task("data", p)
<1>1. \A op \in Ops : Task(op, p) \in ExactTasks
  <2> TAKE op \in Ops
  <2>1. Task(op, p) \in TaskSet
    BY OneTask
  <2>2. Exact(Task(op, p))
    BY DEF Exact, Task
  <2> QED
    BY <2>1, <2>2 DEF ExactTasks
<1>2. tT \in ExactTasks /\ tD \in ExactTasks /\ tL \in ExactTasks /\ tC \in ExactTasks
      /\ tA \in ExactTasks
  BY <1>1 DEF Ops
<1>3. Tasks(p) = (IF times THEN <<tT>> ELSE << >>)
                    \o (IF src[p].dir THEN <<tD, tL>> ELSE <<tC, tA>>)
  BY DEF Tasks
<1> HIDE DEF tT, tD, tL, tC, tA
<1> DEFINE s == IF times THEN <<tT>> ELSE << >>
           r == IF src[p].dir THEN <<tD, tL>> ELSE <<tC, tA>>
<1>4. s \in Seq(ExactTasks) /\ r \in Seq(ExactTasks)
  BY <1>2
<1> HIDE DEF s, r
<1>5. s \o r \in Seq(ExactTasks)
  BY <1>4
<1> QED
  BY <1>3, <1>5 DEF s, r

LEMMA FlattenTypes ==
  ASSUME NEW S, NEW n \in Nat, NEW s, Len(s) = n, n = 0 => s = << >>,
         \A i \in 1 .. n : s[i] \in Seq(S)
  PROVE  FlattenSeq(s) \in Seq(S)
<1>1. CASE n = 0
  BY <1>1 DEF FlattenSeq
<1>2. CASE n # 0
  <2>1. PICK f : /\ f[1] = s[1]
                 /\ \A i \in 1 .. n - 1 : f[i + 1] = f[i] \o s[i + 1]
                 /\ FlattenSeq(s) = f[n]
    BY <1>2, FlattenUnfold
  <2> DEFINE U == {i \in 0 .. n : i # 0 => f[i] \in Seq(S)}
  <2>2. ASSUME NEW i \in 0 .. n - 1, i \in U
        PROVE  i + 1 \in U
    <3>1. i \in Nat /\ i + 1 \in 1 .. n /\ i + 1 \in 0 .. n
      OBVIOUS
    <3>2. s[i + 1] \in Seq(S)
      BY <3>1
    <3>3. f[i + 1] \in Seq(S) => i + 1 \in U
      BY <3>1
    <3>4. i # 0 => f[i] \in Seq(S)
      BY <2>2
    <3> HIDE DEF U
    <3>5. CASE i = 0
      BY <2>1, <3>2, <3>3, <3>5
    <3>6. CASE i # 0
      <4>1. i \in 1 .. n - 1
        BY <3>1, <3>6
      <4>2. f[i + 1] = f[i] \o s[i + 1]
        BY <2>1, <4>1
      <4> DEFINE a == f[i]
                 b == s[i + 1]
      <4>3. a \in Seq(S) /\ b \in Seq(S)
        BY <3>2, <3>4, <3>6
      <4> HIDE DEF a, b
      <4>4. a \o b \in Seq(S)
        BY <4>3
      <4> QED
        BY <3>3, <4>2, <4>4 DEF a, b
    <3> QED
      BY <3>5, <3>6
  <2>3. 0 \in U
    OBVIOUS
  <2>4. 0 .. n \subseteq U
    <3> HIDE DEF U
    <3> QED
      BY <2>2, <2>3, Upwards
  <2> QED
    BY <1>2, <2>1, <2>4
<1> QED
  BY <1>1, <1>2

LEMMA ListedExact ==
  ASSUME SourceTree, NEW p
  PROVE  Listed(p) \in Seq(ExactTasks)
<1> DEFINE q == SetToSeq(Children(p))
           n == Cardinality(Children(p))
           s == [i \in DOMAIN q |-> Tasks(q[i])]
<1>1. IsFiniteSet(Children(p))
  <2>1. Children(p) \subseteq DOMAIN src
    BY DEF Children
  <2> QED
    BY <2>1, FS_Subset DEF SourceTree
<1>2. n \in Nat /\ q \in [1 .. n -> Children(p)]
  BY <1>1, EntriesAre
<1> HIDE DEF q, n
<1>3. \A i \in 1 .. n : q[i] \in DOMAIN src
  BY <1>2 DEF Children
<1>4. s = [i \in 1 .. n |-> Tasks(q[i])]
  BY <1>2
<1>5. Len(s) = n /\ (n = 0 => s = << >>)
  BY <1>2, <1>4
<1>6. \A i \in 1 .. n : s[i] \in Seq(ExactTasks)
  <2>1. \A i \in 1 .. n : Tasks(q[i]) \in Seq(ExactTasks)
    BY <1>3, TasksExact
  <2> QED
    BY <1>4, <2>1
<1> HIDE DEF s
<1>7. FlattenSeq(s) \in Seq(ExactTasks)
  BY <1>2, <1>5, <1>6, FlattenTypes
<1> QED
  BY <1>7 DEF Listed, s, q

LEMMA PlansSmooth ==
  ASSUME SCPInv, Undisturbed, Smooth, SourceStats \/ SourceLists
  PROVE  Smooth'
<1> DEFINE t == Head(todo)
<1>1. /\ outcome = "running" /\ ~waiting /\ todo # << >> /\ t.op \in {"stat", "list"}
      /\ UNCHANGED <<opts, phase, dir, left, result, fs, src, linkUp>>
  BY DEF SourceStats, SourceLists, Sending, SourceUnchanged
<1>2. Conversation /\ SourceTree /\ todo \in Seq(TaskSet) /\ todo \in Seq(ExactTasks)
  BY DEF SCPInv, Undisturbed, Conversation, Plan, Walk, Steps, Smooth, Well
<1>3. Resting /\ stream = << >> /\ ~closed
  BY <1>1, SourceRests
<1>4. t = todo[1] /\ Tail(todo) \in Seq(ExactTasks) /\ t \in TaskSet
  BY <1>1, <1>2
<1>5. phase = "header"
  BY <1>1, <1>3, <1>4 DEF Resting
<1>6. CASE SourceStats
  <2>1. Top \in DOMAIN src
    BY <1>2 DEF Top, SourceTree
  <2>2. ~(src[Top].dir /\ ~recursive)
    BY <2>1 DEF Undisturbed, Transferable
  <2>3. todo' = Tasks(Top) /\ UNCHANGED <<outcome, stream, closed>>
    BY <1>6, <2>2 DEF SourceStats
  <2>4. todo' \in Seq(ExactTasks)
    BY <1>2, <2>1, <2>3, TasksExact
  <2>5. Well' /\ Copying'
    BY <1>1, <2>3, <2>4, SourceKeeps
  <2>6. Flowing'
    BY <1>1, <1>3, <1>5, <2>3 DEF Flowing
  <2> QED
    BY <2>5, <2>6 DEF Smooth
<1>7. CASE SourceLists
  <2> DEFINE e == Task("E", t.path)
  <2>1. todo' = Listed(t.path) \o <<e>> \o Tail(todo) /\ UNCHANGED <<outcome, stream, closed>>
        /\ t.op = "list"
    BY <1>7 DEF SourceLists, Listed, Sending
  <2>2. e \in ExactTasks
    <3>1. Walk(todo) /\ 1 \in 1 .. Len(todo)
      BY <1>1, <1>2 DEF Conversation, Plan
    <3>2. t.path \in DOMAIN src
      BY <1>4, <3>1 DEF Walk, Steps, IsTask
    <3>3. e \in TaskSet /\ e.op = "E"
      BY <1>2, <3>2, OneTask DEF Ops
    <3> HIDE DEF e
    <3> QED
      BY <3>3 DEF ExactTasks, Exact
  <2> HIDE DEF e
  <2> DEFINE a == Listed(t.path)
             b == <<e>>
             c == Tail(todo)
  <2>3. a \in Seq(ExactTasks) /\ b \in Seq(ExactTasks) /\ c \in Seq(ExactTasks)
    BY <1>2, <1>4, <2>2, ListedExact
  <2> HIDE DEF a, b, c
  <2>4. a \o b \o c \in Seq(ExactTasks)
    BY <2>3
  <2>5. todo' \in Seq(ExactTasks)
    BY <2>1, <2>4 DEF a, b, c
  <2>6. Well' /\ Copying'
    BY <1>1, <2>1, <2>5, SourceKeeps
  <2>7. Flowing'
    BY <1>1, <1>3, <1>5, <2>1 DEF Flowing
  <2> QED
    BY <2>6, <2>7 DEF Smooth
<1> QED
  BY <1>6, <1>7

LEMMA SendsSmooth ==
  ASSUME SCPInv, Undisturbed, Smooth, SourceSends
  PROVE  Smooth'
<1> DEFINE t == Head(todo)
           m == MessageFor(t)
           u == Line(String(m))
<1>1. /\ outcome = "running" /\ ~waiting /\ todo # << >> /\ t.op \in {"T", "C", "D", "E"}
      /\ UNCHANGED <<opts, phase, dir, left, result, fs, src, linkUp, outcome, closed>>
      /\ stream' = Append(stream, u) /\ todo' = Tail(todo)
  BY DEF SourceSends, Sending, SourceUnchanged
<1>2. /\ Conversation /\ SourceTree /\ Walk(todo) /\ todo \in Seq(TaskSet)
      /\ todo \in Seq(ExactTasks)
  BY DEF SCPInv, Undisturbed, Conversation, Plan, Walk, Steps, Smooth, Well
<1>3. Resting /\ stream = << >>
  BY <1>1, SourceRests
<1>4. t = todo[1] /\ Tail(todo) \in Seq(ExactTasks) /\ 1 \in 1 .. Len(todo)
  BY <1>1, <1>2
<1>5. phase = "header"
  BY <1>1, <1>3, <1>4 DEF Resting
<1>6. IsTask(t)
  BY <1>2, <1>4 DEF Walk, Steps
<1>7. m \in Sayable /\ m.type = t.op /\ u.message = IF Legible(m) THEN m ELSE Invalid
  BY <1>1, <1>2, <1>6, Said
<1>8. Legible(m)
  <2>1. t.path \in DOMAIN src
    BY <1>6 DEF IsTask
  <2>2. t.op \in {"C", "D"} => m.name = Name(t.path) /\ Name(t.path) \notin Numeric
    BY <1>1, <1>2, <1>6, <2>1, Said DEF Undisturbed, Transferable
  <2>3. t.op = "T" => m.time \in Int /\ m.time >= 0
    <3> SUFFICES ASSUME t.op = "T" PROVE m.time \in Int /\ m.time >= 0
      OBVIOUS
    <3>1. src[t.path].time \in Int /\ src[t.path].time >= 0
      BY <1>2, <1>6, <2>1 DEF IsTask, Undisturbed, Transferable, SourceTree
    <3>2. m = TMessage(src[t.path].time)
      BY DEF MessageFor
    <3> DEFINE n == src[t.path].time
    <3> HIDE DEF n
    <3>3. TMessage(n).time = n
      BY DEF TMessage
    <3> HIDE DEF m
    <3> QED
      BY <3>1, <3>2, <3>3 DEF n
  <2> HIDE DEF m
  <2>4. t.op = "T" => ~(m.time < 0)
    BY <2>3
  <2> QED
    BY <1>1, <1>7, <2>2, <2>4 DEF Legible
<1>9. u.message # Invalid
  <2>1. Invalid.type = "invalid"
    BY DEF Invalid
  <2> HIDE DEF m, u
  <2> QED
    BY <1>1, <1>7, <1>8, <2>1
<1>10. Well' /\ Copying'
  BY <1>1, <1>4, SourceKeeps DEF Smooth, Well
<1>11. stream'[1] = u
  <2> HIDE DEF u
  <2> QED
    BY <1>1, <1>3
<1>12. Flowing'
  BY <1>1, <1>5, <1>9, <1>11 DEF Flowing
<1> QED
  BY <1>10, <1>12 DEF Smooth

\* What is sent of a file is as long as was announced, and the byte 0 follows.
LEMMA UnitsSent ==
  ASSUME NEW k \in Seq({"byte", "nul"})
  PROVE  LET s == << >> \o [i \in DOMAIN k |-> Unit(k[i])] \o <<Unit("nul")>>
         IN  s # << >> /\ Len(s) = Len(k) + 1 /\ s[Len(s)].kind = "nul"
<1> DEFINE c == [i \in DOMAIN k |-> Unit(k[i])]
           z == Unit("nul")
           U == {Unit("byte"), Unit("nul")}
<1>1. z.kind = "nul" /\ z \in U
  BY DEF Unit
<1>2. DOMAIN k = 1 .. Len(k) /\ Len(k) \in Nat /\ \A i \in 1 .. Len(k) : k[i] \in {"byte", "nul"}
  OBVIOUS
<1>3. \A i \in 1 .. Len(k) : Unit(k[i]) \in U
  BY <1>2
<1>4. c \in [1 .. Len(k) -> U]
  BY <1>2, <1>3
<1> HIDE DEF z, U
<1>5. c \in Seq(U) /\ Len(c) = Len(k)
  BY <1>2, <1>4
<1> HIDE DEF c
<1>6. << >> \o c = c
  BY <1>5
<1> DEFINE y == c \o <<z>>
<1>7. y = Append(c, z)
  BY <1>1, <1>5
<1>8. Len(Append(c, z)) = Len(c) + 1 /\ Append(c, z)[Len(c) + 1] = z
  BY <1>1, <1>5, AppendProperties
<1> HIDE DEF y
<1>9. Len(y) = Len(k) + 1 /\ y[Len(y)] = z
  BY <1>5, <1>7, <1>8
<1>10. y # << >>
  BY <1>2, <1>9
<1> QED
  BY <1>1, <1>6, <1>9, <1>10 DEF y, c, z

LEMMA DataSmooth ==
  ASSUME SCPInv, Undisturbed, Smooth, SourceSendsData
  PROVE  Smooth'
<1> DEFINE t == Head(todo)
           k == src[t.path].content
<1>1. /\ outcome = "running" /\ ~waiting /\ todo # << >> /\ t.op = "data"
      /\ UNCHANGED <<opts, phase, dir, left, result, fs, src, linkUp>>
  BY DEF SourceSendsData, Sending, SourceUnchanged
<1>2. /\ Conversation /\ SourceTree /\ Walk(todo) /\ todo \in Seq(TaskSet)
      /\ todo \in Seq(ExactTasks) /\ left \in Nat
  BY DEF SCPInv, Undisturbed, SinkTypes, Conversation, Plan, Walk, Steps, Smooth, Well
<1>3. Resting /\ stream = << >> /\ ~closed /\ phase # "done"
  BY <1>1, SourceRests
<1>4. t = todo[1] /\ Tail(todo) \in Seq(ExactTasks)
  BY <1>1, <1>2
<1>5. phase \in {"content", "end"}
  BY <1>1, <1>3, <1>4 DEF Resting
<1>6. t.path \in DOMAIN src /\ ~src[t.path].dir /\ left = Len(k)
  <2>1. todo[1].size = Len(src[todo[1].path].content)
        /\ todo[1].path \in DOMAIN src /\ ~src[todo[1].path].dir
    BY <1>1, <1>2, <1>4, Limited
  <2>2. left = todo[1].size
    BY <1>3, <1>5 DEF Smooth, Flowing, Promised
  <2> QED
    BY <1>4, <2>1, <2>2
<1>7. OpenedPath(t.path) = t.path
  <2>1. t.path \in Paths /\ t.path # << >>
    BY <1>2, <1>6 DEF SourceTree
  <2>2. Len(t.path) = 1 \/ Len(t.path) > 1
    <3>1. Len(t.path) \in Nat /\ Len(t.path) >= 1
      BY <2>1 DEF Paths
    <3> QED
      BY <3>1, OneOrMore
  <2> QED
    BY <1>2, <1>6, <2>2, Opened DEF Undisturbed, Transferable
<1>8. k \in Seq({"byte", "nul"})
  BY <1>2, <1>6 DEF SourceTree
<1>9. /\ stream' = << >> \o [i \in DOMAIN k |-> Unit(k[i])] \o <<Unit("nul")>>
      /\ todo' = Tail(todo) /\ UNCHANGED <<outcome, closed>>
  BY <1>3, <1>6, <1>7 DEF SourceSendsData
<1>10. Well' /\ Copying'
  BY <1>1, <1>4, <1>9, SourceKeeps DEF Smooth, Well
<1> HIDE DEF k
<1>11. stream' # << >> /\ Len(stream') = Len(k) + 1 /\ stream'[Len(stream')].kind = "nul"
  BY <1>8, <1>9, UnitsSent
<1>12. Promised'
  BY <1>1, <1>6, <1>11 DEF Promised
<1>13. Flowing'
  BY <1>1, <1>5, <1>12 DEF Smooth, Flowing
<1> QED
  BY <1>10, <1>13 DEF Smooth

LEMMA StopsSmooth ==
  ASSUME SCPInv, Undisturbed, Smooth, SourceGetsAck \/ SourceGetsNoAck \/ SourceDone
  PROVE  Smooth'
<1>1. /\ outcome = "running"
      /\ UNCHANGED <<opts, phase, dir, left, result, fs, src, linkUp, todo>>
      /\ todo \in Seq(ExactTasks)
  BY DEF SourceGetsAck, SourceGetsNoAck, SourceDone, SourceUnchanged, Smooth, Well
<1>2. ~SourceGetsNoAck
  BY DEF SourceGetsNoAck, Smooth, Well
<1>3. SourceGetsAck => UNCHANGED <<stream, outcome, closed>>
  <2> SUFFICES ASSUME SourceGetsAck PROVE UNCHANGED <<stream, outcome, closed>>
    OBVIOUS
  <2>1. waiting /\ acks # << >>
    BY DEF SourceGetsAck
  <2>2. acks = <<"ok">>
    BY <1>1, <2>1, SourceRests
  <2>3. Head(acks) = "ok"
    BY <2>2
  <2> QED
    BY <2>3 DEF SourceGetsAck
<1>4. SourceDone => stream' = stream /\ outcome' = "ok" /\ phase = "header"
  <2> SUFFICES ASSUME SourceDone PROVE stream' = stream /\ outcome' = "ok" /\ phase = "header"
    OBVIOUS
  <2>1. ~waiting /\ todo = << >> /\ stream' = stream /\ outcome' = "ok"
    BY DEF SourceDone
  <2>2. Resting
    BY <1>1, <2>1, SourceRests
  <2> QED
    BY <2>1, <2>2 DEF Resting
<1>5. Well' /\ Copying'
  BY <1>1, <1>2, <1>3, <1>4, SourceKeeps DEF Smooth, Well
<1>6. Flowing'
  BY <1>1, <1>2, <1>3, <1>4 DEF Smooth, Flowing, Promised
<1> QED
  BY <1>5, <1>6 DEF Smooth

LEMMA NextSmooth ==
  ASSUME SCPInv, Undisturbed => Smooth, [Next]_vars
  PROVE  (Undisturbed => Smooth)'
<1> SUFFICES ASSUME Undisturbed' PROVE Smooth'
  OBVIOUS
<1>1. Undisturbed /\ Smooth
  BY Calm
<1>2. CASE Sink /\ ~SinkIOError /\ UNCHANGED clientVars
  BY <1>1, <1>2, SinkSmooth
<1>3. CASE Source /\ ~SourceIOError
  BY <1>1, <1>3, PlansSmooth, SendsSmooth, DataSmooth, StopsSmooth DEF Source
<1>4. CASE UNCHANGED vars
  BY <1>1, <1>4 DEF vars, sinkVars, clientVars, Smooth, Well, Copying, Flowing, ExactTasks, Exact,
                    Image, Nested, IsDirectory, Promised
<1> QED
  BY <1>2, <1>3, <1>4, Calm

\* A tree that can be sent is copied without an error unless the environment fails:
\* source and sink speak one language in every mode, and nothing that the sink has
\* created is in the way of what follows (scp/source.go, scp/sink.go).
THEOREM FaultlessTransfer == Spec => []OnlyFaultsFail
<1>1. Init => SCPInv /\ (Undisturbed => Smooth)
  BY InitSCPInv, InitSmooth
<1>2. SCPInv /\ (Undisturbed => Smooth) /\ [Next]_vars => (SCPInv /\ (Undisturbed => Smooth))'
  BY NextSCPInv, NextSmooth
<1>3. SCPInv /\ (Undisturbed => Smooth) => OnlyFaultsFail
  BY DEF OnlyFaultsFail, Undisturbed, Smooth, Well
<1> QED
  BY <1>1, <1>2, <1>3, PTL DEF Spec

=============================================================================
