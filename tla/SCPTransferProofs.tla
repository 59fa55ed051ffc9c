-------------------------- MODULE SCPTransferProofs --------------------------
(***************************************************************************)
(* The language of source and sink, three promises of the sink for every   *)
(* client, tree and bound, and the plan of the source: what it has still to *)
(* do leads it down the tree and back, one directory at a time.            *)
(***************************************************************************)
EXTENDS SCPTransfer, SequenceTheorems, FiniteSetTheorems, WellFoundedInduction,
        TLAPS

-----------------------------------------------------------------------------
(***************************************************************************)
(* The source and the sink speak the same language: what is printed for a  *)
(* message is lexed and parsed to the same message.  The lexer is followed *)
(* along the lexemes of a line, of which there are at most eleven.         *)
(***************************************************************************)
\* Induction over an initial segment of the numbers.
LEMMA Upwards ==
  ASSUME NEW n \in Nat, NEW S, 0 \in S, \A i \in 0 .. n - 1 : i \in S => i + 1 \in S
  PROVE  0 .. n \subseteq S
<1> DEFINE T == {0 .. k : k \in (0 .. n) \ S}
<1> SUFFICES ASSUME (0 .. n) \ S # {} PROVE FALSE
  OBVIOUS
<1>1. \E x \in T : \A y \in T : <<y, x>> \notin StrictSubsetOrdering(0 .. n)
  <2>1. T \subseteq SUBSET (0 .. n) /\ T # {}
    OBVIOUS
  <2>2. T \subseteq FiniteSubsetsOf(0 .. n)
    <3>1. IsFiniteSet(0 .. n)
      BY FS_Interval
    <3> QED
      BY <2>1, <3>1, FS_Subset DEF FiniteSubsetsOf
  <2>3. IsWellFoundedOn(StrictSubsetOrdering(0 .. n), FiniteSubsetsOf(0 .. n))
    BY FS_StrictSubsetOrderingWellFounded
  <2> HIDE DEF T
  <2> QED
    BY <2>1, <2>2, <2>3, WFMin
<1>2. PICK m \in (0 .. n) \ S :
        \A k \in (0 .. n) \ S : <<0 .. k, 0 .. m>> \notin StrictSubsetOrdering(0 .. n)
  BY <1>1
<1>3. m - 1 \in 0 .. n - 1 /\ m - 1 \in S
  <2>1. m > 0
    BY <1>2
  <2>2. (0 .. m - 1) \subseteq 0 .. m /\ m \in 0 .. m /\ m \notin 0 .. m - 1
    BY <2>1
  <2>3. <<0 .. m - 1, 0 .. m>> \in StrictSubsetOrdering(0 .. n)
    BY <2>1, <2>2 DEF StrictSubsetOrdering
  <2> QED
    BY <1>2, <2>1, <2>3
<1> QED
  BY <1>2, <1>3

\* What the lexer does with the lines that are sent.
LEMMA LexTable ==
  /\ After("start", "letter") = "itemTyp"
  /\ After("start", "text") = "itemError"
  /\ After("itemTyp", "number") = "itemNumber"
  /\ After("itemTyp", "text") = "itemError"
  /\ After("itemTyp", "newline") = "itemEnd"
  /\ After("itemNumber", "space") = "itemSpace"
  /\ After("itemNumber", "text") = "itemError"
  /\ After("itemNumber", "newline") = "itemEnd"
  /\ After("itemSpace", "number") = "itemNumber"
  /\ After("itemSpace", "text") = "itemName"
  /\ After("itemName", "newline") = "itemEnd"
<1>1. After("start", "letter") = "itemTyp"
  BY DEF After, LexNext
<1>2. After("itemTyp", "number") = "itemNumber"
  BY DEF After, LexNext
<1>3. After("itemTyp", "text") = "itemError"
  BY DEF After, LexNext
<1>4. After("itemTyp", "newline") = "itemEnd"
  BY DEF After, LexNext
<1>5. After("itemNumber", "space") = "itemSpace"
  BY DEF After, LexNext
<1>6. After("itemNumber", "text") = "itemError"
  BY DEF After, LexNext
<1>7. After("itemNumber", "newline") = "itemEnd"
  BY DEF After, LexNext
<1>8. After("itemSpace", "number") = "itemNumber"
  BY DEF After, LexNext
<1>9. After("itemSpace", "text") = "itemName"
  BY DEF After, LexNext
<1>10. After("itemName", "newline") = "itemEnd"
  BY DEF After, LexNext
<1>11. After("start", "text") = "itemError"
  BY DEF After, LexNext
<1> QED
  BY <1>1, <1>2, <1>3, <1>4, <1>5, <1>6, <1>7, <1>8, <1>9, <1>10, <1>11

\* The lexer goes through a line lexeme by lexeme.
LEMMA KindsUnfold ==
  ASSUME NEW line, NEW n \in Nat, Len(line) = n
  PROVE  /\ Kinds(line)[0] = "start"
         /\ \A i \in 1 .. n : Kinds(line)[i] = After(Kinds(line)[i - 1], line[i].class)
<1> DEFINE eq(q, k) == [i \in 0 .. k |-> IF i = 0 THEN "start" ELSE After(q[i - 1], line[i].class)]
           S == {k \in 0 .. n : \E q : q = eq(q, k)}
<1>1. 0 \in S
  <2> DEFINE q == [i \in 0 .. 0 |-> "start"]
  <2>1. q = eq(q, 0)
    OBVIOUS
  <2> HIDE DEF q
  <2> QED
    BY <2>1
<1>2. ASSUME NEW k \in 0 .. n - 1, k \in S
      PROVE  k + 1 \in S
  <2>1. PICK q : q = eq(q, k)
    BY <1>2
  <2> DEFINE r == [i \in 0 .. k + 1 |->
                     IF i = k + 1 THEN After(q[k], line[k + 1].class) ELSE q[i]]
  <2>2. r = eq(r, k + 1)
    <3>1. \A i \in 0 .. k : r[i] = q[i]
      OBVIOUS
    <3>2. \A i \in 0 .. k : q[i] = IF i = 0 THEN "start" ELSE After(q[i - 1], line[i].class)
      BY <2>1
    <3>3. \A i \in 0 .. k + 1 :
            r[i] = IF i = 0 THEN "start" ELSE After(r[i - 1], line[i].class)
      <4> TAKE i \in 0 .. k + 1
      <4>1. CASE i = k + 1
        BY <4>1, <3>1
      <4>2. CASE i = 0
        BY <4>2, <3>2
      <4>3. CASE i \in 1 .. k
        <5>1. r[i] = q[i] /\ r[i - 1] = q[i - 1]
          BY <4>3, <3>1
        <5> HIDE DEF r
        <5> QED
          BY <4>3, <3>2, <5>1
      <4> QED
        BY <4>1, <4>2, <4>3
    <3> DEFINE e == eq(r, k + 1)
    <3>4. \A i \in 0 .. k + 1 : r[i] = e[i]
      <4> HIDE DEF r
      <4> QED
        BY <3>3
    <3>5. DOMAIN r = 0 .. k + 1 /\ DOMAIN e = 0 .. k + 1
          /\ r = [i \in DOMAIN r |-> r[i]] /\ e = [i \in DOMAIN e |-> e[i]]
      OBVIOUS
    <3> HIDE DEF r, e
    <3>6. r = e
      BY <3>4, <3>5
    <3> QED
      BY <3>6 DEF e
  <2> HIDE DEF r
  <2> QED
    BY <2>2
<1>3. 0 .. n \subseteq S
  <2> HIDE DEF S
  <2> QED
    BY <1>1, <1>2, Upwards
<1>4. PICK q : q = eq(q, n)
  BY <1>3
<1>5. Kinds(line) = CHOOSE g : g = eq(g, n)
  BY DEF Kinds
<1>6. Kinds(line) = eq(Kinds(line), n)
  <2> HIDE DEF eq
  <2> QED
    BY <1>4, <1>5
<1> QED
  BY <1>6

\* When no name has more than one lexeme the items are the lexemes of the line.
LEMMA ItemsAreLexemes ==
  ASSUME NEW line, NEW n \in Nat, Len(line) = n, DOMAIN line = 1 .. n,
         \A i \in 1 .. n : Kinds(line)[i] = "itemName" => Kinds(line)[i - 1] # "itemName"
  PROVE  lex(line) = [i \in 1 .. n |-> [type |-> Kinds(line)[i], val |-> line[i].val]]
BY DEF lex

\* A line is put together from its end.
LEMMA AppendOne ==
  ASSUME NEW S, NEW s \in Seq(S), NEW a \in S
  PROVE  s \o <<a>> = Append(s, a) /\ Append(s, a) \in Seq(S)
OBVIOUS

LEMMA AppendTwo ==
  ASSUME NEW S, NEW s \in Seq(S), NEW a \in S, NEW b \in S
  PROVE  s \o <<a, b>> = Append(Append(s, a), b)
<1> DEFINE l == s \o <<a, b>>
           r == Append(Append(s, a), b)
<1>1. <<a, b>> \in Seq(S) /\ Len(<<a, b>>) = 2
  OBVIOUS
<1>2. /\ l \in Seq(S) /\ Len(l) = Len(s) + 2
      /\ \A i \in 1 .. Len(s) + 2 : l[i] = IF i <= Len(s) THEN s[i] ELSE <<a, b>>[i - Len(s)]
  <2>1. /\ s \o <<a, b>> \in Seq(S) /\ Len(s \o <<a, b>>) = Len(s) + Len(<<a, b>>)
        /\ \A i \in 1 .. Len(s) + Len(<<a, b>>) :
             (s \o <<a, b>>)[i] = IF i <= Len(s) THEN s[i] ELSE <<a, b>>[i - Len(s)]
    BY <1>1, ConcatProperties
  <2> QED
    BY <1>1, <2>1
<1>3. /\ r \in Seq(S) /\ Len(r) = Len(s) + 2
      /\ \A i \in 1 .. Len(s) : r[i] = s[i]
      /\ r[Len(s) + 1] = a /\ r[Len(s) + 2] = b
  OBVIOUS
<1>4. \A i \in 1 .. Len(s) + 2 : i \in 1 .. Len(s) \/ i = Len(s) + 1 \/ i = Len(s) + 2
  OBVIOUS
<1>5. l[Len(s) + 1] = a /\ l[Len(s) + 2] = b
  <2>1. Len(s) + 1 - Len(s) = 1 /\ Len(s) + 2 - Len(s) = 2
    OBVIOUS
  <2> HIDE DEF l
  <2> QED
    BY <1>2, <2>1
<1> HIDE DEF l, r
<1>6. \A i \in 1 .. Len(s) + 2 : l[i] = r[i]
  BY <1>2, <1>3, <1>4, <1>5
<1>7. l = r
  BY <1>2, <1>3, <1>6, SeqEqual
<1> QED
  BY <1>7 DEF l, r

LEMMA AppendThree ==
  ASSUME NEW S, NEW s \in Seq(S), NEW a \in S, NEW b \in S, NEW c \in S
  PROVE  s \o <<a, b, c>> = Append(Append(Append(s, a), b), c)
<1>1. <<a, b>> \in Seq(S) /\ <<c>> \in Seq(S)
  OBVIOUS
<1>2. <<a, b>> \o <<c>> = <<a, b, c>>
  <2>1. /\ <<a, b>> \o <<c>> \in Seq(S) /\ Len(<<a, b>> \o <<c>>) = 3
        /\ (<<a, b>> \o <<c>>)[1] = a /\ (<<a, b>> \o <<c>>)[2] = b
        /\ (<<a, b>> \o <<c>>)[3] = c
    <3>1. <<a, b>> \o <<c>> = Append(<<a, b>>, c)
      BY <1>1, AppendOne
    <3> QED
      BY <1>1, <3>1
  <2>2. <<a, b, c>> \in Seq(S) /\ Len(<<a, b, c>>) = 3
    OBVIOUS
  <2>3. \A i \in 1 .. 3 : (<<a, b>> \o <<c>>)[i] = <<a, b, c>>[i]
    BY <2>1
  <2> DEFINE l == <<a, b>> \o <<c>>
             r == <<a, b, c>>
  <2> HIDE DEF l, r
  <2>4. l = r
    BY <2>1, <2>2, <2>3, SeqEqual DEF l, r
  <2> QED
    BY <2>4 DEF l, r
<1>3. s \o (<<a, b>> \o <<c>>) = (s \o <<a, b>>) \o <<c>>
  BY <1>1, ConcatAssociative
<1>4. s \o <<a, b>> = Append(Append(s, a), b) /\ Append(Append(s, a), b) \in Seq(S)
  BY AppendTwo
<1>5. Append(Append(s, a), b) \o <<c>> = Append(Append(Append(s, a), b), c)
  BY <1>4, AppendOne
<1> QED
  BY <1>2, <1>3, <1>4, <1>5

\* The lexemes stay where they are.
LEMMA LongerOne ==
  ASSUME NEW S, NEW s \in Seq(S), NEW a \in S
  PROVE  /\ s \o <<a>> \in Seq(S) /\ Len(s \o <<a>>) = Len(s) + 1
         /\ \A i \in 1 .. Len(s) : (s \o <<a>>)[i] = s[i]
BY AppendOne

LEMMA LastOne ==
  ASSUME NEW S, NEW s \in Seq(S), NEW a \in S
  PROVE  (s \o <<a>>)[Len(s) + 1] = a
BY AppendOne

LEMMA LongerTwo ==
  ASSUME NEW S, NEW s \in Seq(S), NEW a \in S, NEW b \in S
  PROVE  /\ s \o <<a, b>> \in Seq(S) /\ Len(s \o <<a, b>>) = Len(s) + 2
         /\ \A i \in 1 .. Len(s) : (s \o <<a, b>>)[i] = s[i]
BY AppendTwo

LEMMA LongerThree ==
  ASSUME NEW S, NEW s \in Seq(S), NEW a \in S, NEW b \in S, NEW c \in S
  PROVE  /\ s \o <<a, b, c>> \in Seq(S) /\ Len(s \o <<a, b, c>>) = Len(s) + 3
         /\ \A i \in 1 .. Len(s) : (s \o <<a, b, c>>)[i] = s[i]
BY AppendThree

LEMMA LastThree ==
  ASSUME NEW S, NEW s \in Seq(S), NEW a \in S, NEW b \in S, NEW c \in S
  PROVE  /\ (s \o <<a, b, c>>)[Len(s) + 1] = a
         /\ (s \o <<a, b, c>>)[Len(s) + 2] = b
         /\ (s \o <<a, b, c>>)[Len(s) + 3] = c
BY AppendThree

\* The lexemes of the line of a file or a directory.
LEMMA FileLine ==
  ASSUME NEW x \in {"C", "D"}, NEW m, NEW line, line = FileString(x, m)
  PROVE  /\ Len(line) = IF m.name \in Numeric THEN 8 ELSE 7
         /\ DOMAIN line = 1 .. Len(line)
         /\ line[1] = Letter(x) /\ line[2] = Number(0) /\ line[3] = Space
         /\ line[4] = Number(m.length) /\ line[5] = Space
         /\ m.name \notin Numeric => line[6] = Text(m.name) /\ line[7] = Newline
         /\ m.name \in Numeric =>
              line[6] = Number(0) /\ line[7] = Text(m.name) /\ line[8] = Newline
<1> DEFINE L == Letter(x)
           N == Number(m.length)
           Z == Number(0)
           X == Text(m.name)
           S == {L, N, Z, X, Space, Newline}
           s == <<L, Z, Space, N, Space>>
<1>1. s \in Seq(S)
  <2> HIDE DEF L, N, Z, X
  <2> QED
    OBVIOUS
<1>2. X \in S /\ Z \in S /\ Newline \in S
  OBVIOUS
<1>3. line = s \o Spelling(m.name) \o <<Newline>>
  BY DEF FileString
<1> HIDE DEF S, X, L, Z, N
<1>4. CASE m.name \notin Numeric
  <2>1. s \o <<X>> = Append(s, X) /\ Append(s, X) \in Seq(S)
    BY <1>1, <1>2, AppendOne
  <2>2. line = Append(Append(s, X), Newline)
    <3>1. line = Append(s, X) \o <<Newline>>
      BY <1>3, <1>4, <2>1 DEF Spelling, X
    <3> QED
      BY <1>2, <2>1, <3>1, AppendOne
  <2>3. /\ Len(line) = 7 /\ DOMAIN line = 1 .. 7
        /\ line[1] = L /\ line[2] = Z /\ line[3] = Space /\ line[4] = N /\ line[5] = Space
        /\ line[6] = X /\ line[7] = Newline
    BY <2>2
  <2> QED
    BY <1>4, <2>3 DEF L, N, Z, X
<1>5. CASE m.name \in Numeric
  <2>1. s \o <<Z, X>> = Append(Append(s, Z), X) /\ Append(Append(s, Z), X) \in Seq(S)
    BY <1>1, <1>2, AppendTwo, AppendOne
  <2>2. line = Append(Append(Append(s, Z), X), Newline)
    <3>1. line = Append(Append(s, Z), X) \o <<Newline>>
      BY <1>3, <1>5, <2>1 DEF Spelling, X, Z
    <3> QED
      BY <1>2, <2>1, <3>1, AppendOne
  <2>3. /\ Len(line) = 8 /\ DOMAIN line = 1 .. 8
        /\ line[1] = L /\ line[2] = Z /\ line[3] = Space /\ line[4] = N /\ line[5] = Space
        /\ line[6] = Z /\ line[7] = X /\ line[8] = Newline
    BY <2>2
  <2> QED
    BY <1>5, <2>3 DEF L, N, Z, X
<1> QED
  BY <1>4, <1>5

\* Once it has stopped the lexer does not go on.
LEMMA LexerStops ==
  ASSUME NEW line, NEW n \in Nat, Len(line) = n, NEW j \in 1 .. n,
         Kinds(line)[j] \in {"itemEnd", "itemError", "none"}
  PROVE  \A i \in j + 1 .. n : Kinds(line)[i] = "none"
<1> DEFINE k == Kinds(line)
           S == {i \in 0 .. n : i + j <= n => k[i + j] \in {"itemEnd", "itemError", "none"}}
<1>1. \A i \in 1 .. n : k[i] = After(k[i - 1], line[i].class)
  BY KindsUnfold
<1>2. ASSUME NEW q \in {"itemEnd", "itemError", "none"}, NEW c
      PROVE  After(q, c) = "none"
  BY DEF After, LexNext
<1> HIDE DEF k
<1>3. 0 \in S
  BY DEF k
<1>4. ASSUME NEW i \in 0 .. n - 1, i \in S
      PROVE  i + 1 \in S
  <2> SUFFICES ASSUME i + 1 + j <= n
               PROVE  k[i + 1 + j] = "none"
    OBVIOUS
  <2>1. k[i + j] \in {"itemEnd", "itemError", "none"}
    BY <1>4
  <2>2. k[i + 1 + j] = After(k[i + j], line[i + 1 + j].class)
    <3>1. i + 1 + j \in 1 .. n /\ i + 1 + j - 1 = i + j
      OBVIOUS
    <3> QED
      BY <1>1, <3>1
  <2> QED
    BY <1>2, <2>1, <2>2
<1>5. 0 .. n \subseteq S
  <2> HIDE DEF S
  <2> QED
    BY <1>3, <1>4, Upwards
<1> SUFFICES ASSUME NEW i \in j + 1 .. n
             PROVE  k[i] = "none"
  BY DEF k
<1>6. i - 1 - j \in S /\ i - 1 - j + j = i - 1
  BY <1>5
<1> QED
  BY <1>1, <1>2, <1>6

LEMMA FileLineParses ==
  ASSUME NEW x \in {"C", "D"}, NEW m
  PROVE  parseSCPMessage(FileString(x, m)) =
           IF m.name \in Numeric THEN Invalid
           ELSE IF x = "C" THEN CMessage(m.name, m.length) ELSE DMessage(m.name, m.length)
<1> DEFINE line == FileString(x, m)
           k == Kinds(line)
           n == Len(line)
           items == lex(line)
           name == line[Len(line) - 1].val
<1>0. /\ n = IF m.name \in Numeric THEN 8 ELSE 7
      /\ DOMAIN line = 1 .. n
      /\ line[1] = Letter(x) /\ line[2] = Number(0) /\ line[3] = Space
      /\ line[4] = Number(m.length) /\ line[5] = Space
      /\ m.name \notin Numeric => line[6] = Text(m.name) /\ line[7] = Newline
      /\ m.name \in Numeric =>
           line[6] = Number(0) /\ line[7] = Text(m.name) /\ line[8] = Newline
  BY FileLine
<1> HIDE DEF line
<1>1. n \in 7 .. 8 /\ DOMAIN line = 1 .. n
  BY <1>0
<1>2. /\ line[1].class = "letter" /\ line[2].class = "number" /\ line[3].class = "space"
      /\ line[4].class = "number" /\ line[5].class = "space"
      /\ line[1].val = x /\ line[4].val = m.length
  BY <1>0 DEF Letter, Number, Space
<1>3. m.name \notin Numeric =>
        n = 7 /\ line[6].class = "text" /\ line[7].class = "newline" /\ name = m.name
  BY <1>0 DEF Text, Newline
<1>4. m.name \in Numeric => n = 8 /\ line[6].class = "number" /\ line[7].class = "text"
  BY <1>0 DEF Text, Number
<1>5. k[0] = "start" /\ \A i \in 1 .. n : k[i] = After(k[i - 1], line[i].class)
  BY <1>1, KindsUnfold
<1> HIDE DEF line, k, n
<1>6. k[1] = "itemTyp"
  BY <1>1, <1>2, <1>5, LexTable
<1>7. k[2] = "itemNumber"
  BY <1>1, <1>2, <1>5, <1>6, LexTable
<1>8. k[3] = "itemSpace"
  BY <1>1, <1>2, <1>5, <1>7, LexTable
<1>9. k[4] = "itemNumber"
  BY <1>1, <1>2, <1>5, <1>8, LexTable
<1>10. k[5] = "itemSpace"
  BY <1>1, <1>2, <1>5, <1>9, LexTable
<1>11. m.name \notin Numeric => k[6] = "itemName"
  BY <1>1, <1>3, <1>5, <1>10, LexTable
<1>12. m.name \notin Numeric => k[7] = "itemEnd"
  BY <1>1, <1>3, <1>5, <1>11, LexTable
<1>13. m.name \in Numeric => k[6] = "itemNumber"
  BY <1>1, <1>4, <1>5, <1>10, LexTable
<1>14. m.name \in Numeric => k[7] = "itemError"
  BY <1>1, <1>4, <1>5, <1>13, LexTable
<1>15. m.name \in Numeric => k[8] = "none"
  <2> SUFFICES ASSUME m.name \in Numeric
               PROVE  k[8] = "none"
    OBVIOUS
  <2>1. n = 8 /\ Len(line) = 8 /\ 7 \in 1 .. 8 /\ Kinds(line)[7] = "itemError"
    BY <1>4, <1>14 DEF k, n
  <2>2. \A i \in 7 + 1 .. 8 : Kinds(line)[i] = "none"
    BY <2>1, LexerStops
  <2> QED
    BY <2>2 DEF k
<1>16. items = [i \in 1 .. n |-> [type |-> k[i], val |-> line[i].val]]
  <2>1. \A i \in 1 .. n : k[i] = "itemName" => k[i - 1] # "itemName"
    BY <1>1, <1>3, <1>4, <1>6, <1>7, <1>8, <1>9, <1>10, <1>11, <1>12, <1>13, <1>14, <1>15
  <2> QED
    BY <1>1, <2>1, ItemsAreLexemes DEF k, n
<1>17. /\ items # << >> /\ DOMAIN items = 1 .. n
       /\ items[1].type = "itemTyp" /\ items[1].val = x
       /\ items[2].type = "itemNumber" /\ items[3].type = "itemSpace"
       /\ items[4].type = "itemNumber" /\ items[4].val = m.length
       /\ items[5].type = "itemSpace" /\ items[6].type = k[6] /\ items[7].type = k[7]
  <2>1. DOMAIN items = 1 .. n
        /\ \A i \in 1 .. n : items[i].type = k[i] /\ items[i].val = line[i].val
    BY <1>16
  <2>2. \A i \in 1 .. 7 : i \in 1 .. n
    BY <1>1
  <2>3. items # << >>
    BY <2>1, <1>1
  <2> HIDE DEF items
  <2> QED
    BY <1>2, <1>6, <1>7, <1>8, <1>9, <1>10, <2>1, <2>2, <2>3
<1>18. binders[x] = CBinders /\ DOMAIN CBinders = 1 .. 6 /\ CBinders[5] = "itemName"
  BY DEF binders, DBinders, CBinders
<1> HIDE DEF items, name
<1>19. CASE m.name \in Numeric
  <2>1. 5 \in DOMAIN binders[x] /\ items[5 + 1].type # binders[x][5]
    BY <1>13, <1>17, <1>18, <1>19
  <2> QED
    BY <1>17, <1>19, <2>1 DEF parseSCPMessage, items, line
<1>20. CASE m.name \notin Numeric
  <2>1. ~ \E i \in DOMAIN binders[x] :
            i + 1 \notin DOMAIN items \/ items[i + 1].type # binders[x][i]
    BY <1>1, <1>3, <1>11, <1>12, <1>17, <1>18, <1>20 DEF CBinders
  <2>2. parseSCPMessage(line) = IF x = "C" THEN CMessage(name, items[4].val)
                                           ELSE DMessage(name, items[4].val)
    BY <1>17, <2>1 DEF parseSCPMessage, items, name
  <2> QED
    BY <1>3, <1>17, <1>20, <2>2 DEF line
<1> QED
  BY <1>19, <1>20

LEMMA EndLineParses == parseSCPMessage(EString) = EMessage
<1> DEFINE line == EString
           k == Kinds(line)
           items == lex(line)
<1>1. /\ Len(line) = 2 /\ DOMAIN line = 1 .. 2
      /\ line[1].class = "letter" /\ line[1].val = "E" /\ line[2].class = "newline"
  BY DEF EString, Letter, Newline
<1> HIDE DEF line
<1>2. k[0] = "start" /\ \A i \in 1 .. 2 : k[i] = After(k[i - 1], line[i].class)
  BY <1>1, KindsUnfold
<1> HIDE DEF k
<1>3. k[1] = "itemTyp"
  BY <1>1, <1>2, LexTable
<1>4. k[2] = "itemEnd"
  BY <1>1, <1>2, <1>3, LexTable
<1>5. items = [i \in 1 .. 2 |-> [type |-> k[i], val |-> line[i].val]]
  <2>1. \A i \in 1 .. 2 : k[i] # "itemName"
    BY <1>3, <1>4
  <2> QED
    BY <1>1, <2>1, ItemsAreLexemes DEF k
<1>6. /\ items # << >> /\ DOMAIN items = 1 .. 2
      /\ items[1].type = "itemTyp" /\ items[1].val = "E" /\ items[2].type = "itemEnd"
  BY <1>1, <1>3, <1>4, <1>5
<1> HIDE DEF items
<1>7. ~ \E i \in DOMAIN binders["E"] :
          i + 1 \notin DOMAIN items \/ items[i + 1].type # binders["E"][i]
  BY <1>6 DEF binders, EBinders
<1> QED
  BY <1>6, <1>7 DEF parseSCPMessage, items, line

\* The lexemes of the line of a time.
LEMMA TimeLine ==
  ASSUME NEW m, NEW line, line = TString(m)
  PROVE  /\ DOMAIN line = 1 .. Len(line)
         /\ line[1] = Letter("T")
         /\ m.time < 0 => Len(line) = 11 /\ line[2] = Text("-")
         /\ ~(m.time < 0) =>
              /\ Len(line) = 9
              /\ line[2] = Number(m.time) /\ line[3] = Space
              /\ line[4] = Number(0) /\ line[5] = Space
              /\ line[6] = Number(m.time) /\ line[7] = Space
              /\ line[8] = Number(0) /\ line[9] = Newline
<1> DEFINE L == Letter("T")
           N == Number(m.time)
           M == Number(-m.time)
           Z == Number(0)
           X == Text("-")
           S == {L, N, M, Z, X, Space, Newline}
<1>1. /\ L \in S /\ N \in S /\ M \in S /\ Z \in S /\ X \in S /\ Space \in S /\ Newline \in S
      /\ <<L>> \in Seq(S)
  <2> HIDE DEF L, N, M, Z, X
  <2> QED
    OBVIOUS
<1>2. line = <<L>> \o Signed(m.time) \o <<Space, Z, Space>> \o Signed(m.time)
               \o <<Space, Z, Newline>>
  BY DEF TString
<1> HIDE DEF S
<1>3. Len(<<L>>) = 1 /\ <<L>>[1] = L
  OBVIOUS
<1>4. CASE m.time < 0
  <2> DEFINE s1 == <<L>> \o <<X, M>>
             s2 == s1 \o <<Space, Z, Space>>
             s3 == s2 \o <<X, M>>
             s4 == s3 \o <<Space, Z, Newline>>
  <2>1. line = s4
    BY <1>2, <1>4 DEF Signed
  <2> HIDE DEF L, N, M, Z, X
  <2>2. s1 \in Seq(S)
    BY <1>1, LongerTwo
  <2>3. Len(s1) = 3 /\ s1[1] = L /\ s1[2] = X
    <3>1. <<L>> \o <<X, M>> = Append(Append(<<L>>, X), M)
      BY <1>1, AppendTwo
    <3> QED
      BY <1>1, <3>1
  <2> HIDE DEF s1
  <2>4. s2 \in Seq(S) /\ Len(s2) = Len(s1) + 3 /\ \A i \in 1 .. Len(s1) : s2[i] = s1[i]
    BY <1>1, <2>2, LongerThree
  <2>5. s2 \in Seq(S)
    BY <2>4
  <2> HIDE DEF s2
  <2>6. s3 \in Seq(S) /\ Len(s3) = Len(s2) + 2 /\ \A i \in 1 .. Len(s2) : s3[i] = s2[i]
    BY <1>1, <2>5, LongerTwo
  <2>7. s3 \in Seq(S)
    BY <2>6
  <2> HIDE DEF s3
  <2>8. s4 \in Seq(S) /\ Len(s4) = Len(s3) + 3 /\ \A i \in 1 .. Len(s3) : s4[i] = s3[i]
    BY <1>1, <2>7, LongerThree
  <2> HIDE DEF s4
  <2>9. Len(s4) = 11 /\ s4[1] = L /\ s4[2] = X /\ DOMAIN s4 = 1 .. Len(s4)
    BY <2>3, <2>4, <2>6, <2>8
  <2> QED
    BY <1>4, <2>1, <2>9 DEF L, X
<1>5. CASE ~(m.time < 0)
  <2> DEFINE s1 == <<L>> \o <<N>>
             s2 == s1 \o <<Space, Z, Space>>
             s3 == s2 \o <<N>>
             s4 == s3 \o <<Space, Z, Newline>>
  <2>1. line = s4
    BY <1>2, <1>5 DEF Signed
  <2> HIDE DEF L, N, M, Z, X
  <2>2. s1 \in Seq(S)
    BY <1>1, LongerOne
  <2>3. Len(s1) = 2 /\ s1[1] = L /\ s1[2] = N
    <3>1. <<L>> \o <<N>> = Append(<<L>>, N)
      BY <1>1, AppendOne
    <3> QED
      BY <1>1, <3>1
  <2> HIDE DEF s1
  <2>4. s2 \in Seq(S) /\ Len(s2) = Len(s1) + 3 /\ \A i \in 1 .. Len(s1) : s2[i] = s1[i]
    BY <1>1, <2>2, LongerThree
  <2>5. s2[Len(s1) + 1] = Space /\ s2[Len(s1) + 2] = Z /\ s2[Len(s1) + 3] = Space
    BY <1>1, <2>2, LastThree
  <2>6. s2 \in Seq(S)
    BY <2>4
  <2> HIDE DEF s2
  <2>7. Len(s2) = 5 /\ s2[1] = L /\ s2[2] = N /\ s2[3] = Space /\ s2[4] = Z /\ s2[5] = Space
    BY <2>3, <2>4, <2>5
  <2>8. s3 \in Seq(S) /\ Len(s3) = Len(s2) + 1 /\ \A i \in 1 .. Len(s2) : s3[i] = s2[i]
    BY <1>1, <2>6, LongerOne
  <2>9. s3[Len(s2) + 1] = N
    BY <1>1, <2>6, LastOne
  <2>10. s3 \in Seq(S)
    BY <2>8
  <2> HIDE DEF s3
  <2>11. /\ Len(s3) = 6 /\ s3[1] = L /\ s3[2] = N /\ s3[3] = Space /\ s3[4] = Z
         /\ s3[5] = Space /\ s3[6] = N
    BY <2>7, <2>8, <2>9
  <2>12. s4 \in Seq(S) /\ Len(s4) = Len(s3) + 3 /\ \A i \in 1 .. Len(s3) : s4[i] = s3[i]
    BY <1>1, <2>10, LongerThree
  <2>13. s4[Len(s3) + 1] = Space /\ s4[Len(s3) + 2] = Z /\ s4[Len(s3) + 3] = Newline
    BY <1>1, <2>10, LastThree
  <2> HIDE DEF s4
  <2>14. Len(s4) = 9 /\ DOMAIN s4 = 1 .. 9
    BY <2>11, <2>12
  <2>15. /\ s4[1] = L /\ s4[2] = N /\ s4[3] = Space /\ s4[4] = Z
         /\ s4[5] = Space /\ s4[6] = N
    BY <2>11, <2>12
  <2>16. s4[7] = Space /\ s4[8] = Z /\ s4[9] = Newline
    BY <2>11, <2>13
  <2> QED
    BY <1>5, <2>1, <2>14, <2>15, <2>16 DEF L, N, Z
<1> QED
  BY <1>4, <1>5

LEMMA TimeLineParses ==
  ASSUME NEW m
  PROVE  parseSCPMessage(TString(m)) = IF m.time < 0 THEN Invalid ELSE TMessage(m.time)
<1> DEFINE line == TString(m)
           k == Kinds(line)
           n == Len(line)
           items == lex(line)
<1>1. /\ DOMAIN line = 1 .. n
      /\ line[1] = Letter("T")
      /\ m.time < 0 => n = 11 /\ line[2] = Text("-")
      /\ ~(m.time < 0) =>
           /\ n = 9
           /\ line[2] = Number(m.time) /\ line[3] = Space
           /\ line[4] = Number(0) /\ line[5] = Space
           /\ line[6] = Number(m.time) /\ line[7] = Space
           /\ line[8] = Number(0) /\ line[9] = Newline
  BY TimeLine
<1> HIDE DEF line
<1>2. n \in 9 .. 11
  BY <1>1
<1>3. line[1].class = "letter" /\ line[1].val = "T"
  BY <1>1 DEF Letter
<1>4. m.time < 0 => line[2].class = "text"
  BY <1>1 DEF Text
<1>6. Len(line) = n
  OBVIOUS
<1> HIDE DEF n
<1>5. k[0] = "start" /\ \A i \in 1 .. n : k[i] = After(k[i - 1], line[i].class)
  BY <1>2, <1>6, KindsUnfold
<1> HIDE DEF k
<1>7. k[1] = "itemTyp"
  BY <1>2, <1>3, <1>5, LexTable
<1> HIDE DEF items
<1>8. CASE m.time < 0
  <2>1. k[2] = "itemError"
    BY <1>2, <1>4, <1>5, <1>7, <1>8, LexTable
  <2>2. \A i \in 3 .. n : k[i] = "none"
    <3>1. 2 \in 1 .. n /\ Kinds(line)[2] = "itemError" /\ n \in Nat
      BY <1>2, <2>1 DEF k
    <3>2. \A i \in 2 + 1 .. n : Kinds(line)[i] = "none"
      BY <1>6, <3>1, LexerStops
    <3> QED
      BY <3>2 DEF k
  <2>3. \A i \in 1 .. n : k[i] # "itemName"
    <3>1. \A i \in 1 .. n : i = 1 \/ i = 2 \/ i \in 3 .. n
      BY <1>2
    <3> QED
      BY <1>7, <2>1, <2>2, <3>1
  <2>4. items = [i \in 1 .. n |-> [type |-> k[i], val |-> line[i].val]]
    BY <1>1, <1>2, <1>6, <2>3, ItemsAreLexemes DEF k, items
  <2>5. /\ items # << >> /\ DOMAIN items = 1 .. n
        /\ items[1].type = "itemTyp" /\ items[1].val = "T" /\ items[2].type = "itemError"
    <3>1. 1 \in 1 .. n /\ 2 \in 1 .. n
      BY <1>2
    <3>2. DOMAIN items = 1 .. n /\ items # << >>
      BY <2>4, <3>1
    <3>3. items[1].type = k[1] /\ items[1].val = line[1].val /\ items[2].type = k[2]
      BY <2>4, <3>1
    <3> QED
      BY <1>3, <1>7, <2>1, <3>2, <3>3
  <2>6. 1 \in DOMAIN binders["T"] /\ items[1 + 1].type # binders["T"][1]
    BY <2>5 DEF binders, TBinders
  <2> QED
    BY <1>8, <2>5, <2>6 DEF parseSCPMessage, items, line
<1>9. CASE ~(m.time < 0)
  <2>1. /\ n = 9
        /\ line[2].class = "number" /\ line[3].class = "space" /\ line[4].class = "number"
        /\ line[5].class = "space" /\ line[6].class = "number" /\ line[7].class = "space"
        /\ line[8].class = "number" /\ line[9].class = "newline"
        /\ line[2].val = m.time
    BY <1>1, <1>9 DEF Number, Space, Newline
  <2>2. k[2] = "itemNumber"
    BY <1>5, <1>7, <2>1, LexTable
  <2>3. k[3] = "itemSpace"
    BY <1>5, <2>1, <2>2, LexTable
  <2>4. k[4] = "itemNumber"
    BY <1>5, <2>1, <2>3, LexTable
  <2>5. k[5] = "itemSpace"
    BY <1>5, <2>1, <2>4, LexTable
  <2>6. k[6] = "itemNumber"
    BY <1>5, <2>1, <2>5, LexTable
  <2>7. k[7] = "itemSpace"
    BY <1>5, <2>1, <2>6, LexTable
  <2>8. k[8] = "itemNumber"
    BY <1>5, <2>1, <2>7, LexTable
  <2>9. k[9] = "itemEnd"
    BY <1>5, <2>1, <2>8, LexTable
  <2>10. items = [i \in 1 .. n |-> [type |-> k[i], val |-> line[i].val]]
    <3>1. \A i \in 1 .. n : k[i] # "itemName"
      BY <1>7, <2>1, <2>2, <2>3, <2>4, <2>5, <2>6, <2>7, <2>8, <2>9
    <3> QED
      BY <1>1, <1>2, <1>6, <3>1, ItemsAreLexemes DEF k, items
  <2>11. /\ items # << >> /\ DOMAIN items = 1 .. 9
         /\ \A i \in 1 .. 9 : items[i].type = k[i] /\ items[i].val = line[i].val
    BY <2>1, <2>10
  <2>12. items[1].type = "itemTyp" /\ items[1].val = "T" /\ items[2].val = m.time
    BY <1>3, <1>7, <2>1, <2>11
  <2>13. ~ \E i \in DOMAIN binders["T"] :
             i + 1 \notin DOMAIN items \/ items[i + 1].type # binders["T"][i]
    <3>1. DOMAIN binders["T"] = 1 .. 8
          /\ binders["T"][1] = "itemNumber" /\ binders["T"][2] = "itemSpace"
          /\ binders["T"][3] = "itemNumber" /\ binders["T"][4] = "itemSpace"
          /\ binders["T"][5] = "itemNumber" /\ binders["T"][6] = "itemSpace"
          /\ binders["T"][7] = "itemNumber" /\ binders["T"][8] = "itemEnd"
      BY DEF binders, TBinders
    <3> QED
      BY <2>2, <2>3, <2>4, <2>5, <2>6, <2>7, <2>8, <2>9, <2>11, <3>1
  <2> QED
    BY <1>9, <2>11, <2>12, <2>13 DEF parseSCPMessage, items, line
<1> QED
  BY <1>8, <1>9

-----------------------------------------------------------------------------
(***************************************************************************)
(* What can be said in this language.  The parser has no names that begin  *)
(* with a digit and no times before 1970.                                  *)
(***************************************************************************)
Sayable ==
  {EMessage} \cup {TMessage(t) : t \in Int}
    \cup {CMessage(n, l) : n \in Names, l \in Nat}
    \cup {DMessage(n, l) : n \in Names, l \in Nat}

Legible(m) ==
  /\ m.type \in {"C", "D"} => m.name \notin Numeric
  /\ m.type = "T" => ~(m.time < 0)

\* The parser returns the message that was printed, or rejects the line if it is
\* about a name that begins with a digit or a time before 1970: no line is taken
\* for another message (messages.go: String; lex.go; sink.go: parseSCPMessage).
THEOREM LanguageAgrees ==
  \A m \in Sayable : parseSCPMessage(String(m)) = IF Legible(m) THEN m ELSE Invalid
<1> SUFFICES ASSUME NEW m \in Sayable
             PROVE  parseSCPMessage(String(m)) = IF Legible(m) THEN m ELSE Invalid
  OBVIOUS
<1>1. CASE m = EMessage
  <2>1. m.type = "E" /\ Legible(m) /\ String(m) = EString
    BY <1>1 DEF EMessage, Legible, String
  <2> QED
    BY <1>1, <2>1, EndLineParses
<1>2. CASE \E t \in Int : m = TMessage(t)
  <2>1. PICK t \in Int : m = TMessage(t)
    BY <1>2
  <2>2. m.type = "T" /\ m.time = t /\ String(m) = TString(m)
    BY <2>1 DEF TMessage, String
  <2>3. Legible(m) <=> ~(m.time < 0)
    BY <2>2 DEF Legible
  <2> QED
    BY <2>1, <2>2, <2>3, TimeLineParses
<1>3. CASE \E n \in Names, l \in Nat : m = CMessage(n, l)
  <2>1. PICK n \in Names, l \in Nat : m = CMessage(n, l)
    BY <1>3
  <2>2. m.type = "C" /\ m.name = n /\ m.length = l /\ String(m) = FileString("C", m)
    BY <2>1 DEF CMessage, String, CString
  <2>3. Legible(m) <=> m.name \notin Numeric
    BY <2>2 DEF Legible
  <2>4. parseSCPMessage(FileString("C", m)) =
          IF m.name \in Numeric THEN Invalid ELSE CMessage(m.name, m.length)
    BY FileLineParses
  <2> QED
    BY <2>1, <2>2, <2>3, <2>4
<1>4. CASE \E n \in Names, l \in Nat : m = DMessage(n, l)
  <2>1. PICK n \in Names, l \in Nat : m = DMessage(n, l)
    BY <1>4
  <2>2. m.type = "D" /\ m.name = n /\ m.length = l /\ String(m) = FileString("D", m)
    BY <2>1 DEF DMessage, String, DString
  <2>3. Legible(m) <=> m.name \notin Numeric
    BY <2>2 DEF Legible
  <2>4. parseSCPMessage(FileString("D", m)) =
          IF m.name \in Numeric THEN Invalid ELSE DMessage(m.name, m.length)
    BY FileLineParses
  <2> QED
    BY <2>1, <2>2, <2>3, <2>4
<1> QED
  BY <1>1, <1>2, <1>3, <1>4 DEF Sayable

\* What else may travel is no message: a letter with nothing after it, and a text.
LEMMA MalformedLines == \A l \in Malformed : parseSCPMessage(l) = Invalid
<1>1. parseSCPMessage(<<Letter("C"), Newline>>) = Invalid
  <2> DEFINE line == <<Letter("C"), Newline>>
             k == Kinds(line)
             items == lex(line)
  <2>1. /\ Len(line) = 2 /\ DOMAIN line = 1 .. 2
        /\ line[1].class = "letter" /\ line[1].val = "C" /\ line[2].class = "newline"
    BY DEF Letter, Newline
  <2> HIDE DEF line
  <2>2. k[0] = "start" /\ \A i \in 1 .. 2 : k[i] = After(k[i - 1], line[i].class)
    BY <2>1, KindsUnfold
  <2> HIDE DEF k
  <2>3. k[1] = "itemTyp"
    BY <2>1, <2>2, LexTable
  <2>4. k[2] = "itemEnd"
    BY <2>1, <2>2, <2>3, LexTable
  <2>5. items = [i \in 1 .. 2 |-> [type |-> k[i], val |-> line[i].val]]
    <3>1. \A i \in 1 .. 2 : k[i] # "itemName"
      BY <2>3, <2>4
    <3> QED
      BY <2>1, <3>1, ItemsAreLexemes DEF k
  <2>6. /\ items # << >> /\ DOMAIN items = 1 .. 2
        /\ items[1].type = "itemTyp" /\ items[1].val = "C" /\ items[2].type = "itemEnd"
    BY <2>1, <2>3, <2>4, <2>5
  <2> HIDE DEF items
  <2>7. 1 \in DOMAIN binders["C"] /\ items[1 + 1].type # binders["C"][1]
    BY <2>6 DEF binders, CBinders
  <2> QED
    BY <2>6, <2>7 DEF parseSCPMessage, items, line
<1>2. parseSCPMessage(<<Text("x"), Newline>>) = Invalid
  <2> DEFINE line == <<Text("x"), Newline>>
             k == Kinds(line)
             items == lex(line)
  <2>1. /\ Len(line) = 2 /\ DOMAIN line = 1 .. 2
        /\ line[1].class = "text" /\ line[2].class = "newline"
    BY DEF Text, Newline
  <2> HIDE DEF line
  <2>2. k[0] = "start" /\ \A i \in 1 .. 2 : k[i] = After(k[i - 1], line[i].class)
    BY <2>1, KindsUnfold
  <2> HIDE DEF k
  <2>3. k[1] = "itemError"
    BY <2>1, <2>2, LexTable
  <2>4. k[2] = "none"
    <3>1. Kinds(line)[1] = "itemError" /\ 1 \in 1 .. 2 /\ 2 \in Nat
      BY <2>3 DEF k
    <3>2. \A i \in 1 + 1 .. 2 : Kinds(line)[i] = "none"
      BY <2>1, <3>1, LexerStops
    <3> QED
      BY <3>2 DEF k
  <2>5. items = [i \in 1 .. 2 |-> [type |-> k[i], val |-> line[i].val]]
    <3>1. \A i \in 1 .. 2 : k[i] # "itemName"
      BY <2>3, <2>4
    <3> QED
      BY <2>1, <3>1, ItemsAreLexemes DEF k
  <2>6. items[1].type = "itemError"
    BY <2>3, <2>5
  <2> HIDE DEF items
  <2> QED
    BY <2>6 DEF parseSCPMessage, items, line
<1> QED
  BY <1>1, <1>2 DEF Malformed

-----------------------------------------------------------------------------
(***************************************************************************)
(* The parser and the times it is told.                                    *)
(***************************************************************************)
\* The states in which the message a time was announced for has to come next.
Timed == {"NoRecurseTimesC", "RecurseTimesCD"}
States == DOMAIN NextState

LEMMA StatesAre ==
  States = {"NoRecurseTimesCT", "NoRecurseTimesC", "NoRecurseNoTimesC",
            "RecurseTimesCDT", "RecurseTimesCDET", "RecurseTimesCD",
            "RecurseNoTimesCD", "RecurseNoTimesCDE"}
BY DEF States, NextState

\* Where the messages lead: only a time leads to a state of Timed, and the end of
\* a directory is accepted outside of them only.
LEMMA AfterC ==
  ASSUME NEW q \in States, "C" \in DOMAIN NextState[q]
  PROVE  NextState[q].C \in States \ Timed
BY StatesAre DEF NextState, Timed

LEMMA AfterD ==
  ASSUME NEW q \in States, "D" \in DOMAIN NextState[q]
  PROVE  NextState[q].D \in States \ Timed
BY StatesAre DEF NextState, Timed

LEMMA AfterT ==
  ASSUME NEW q \in States, "T" \in DOMAIN NextState[q]
  PROVE  NextState[q].T \in States \cap Timed
BY StatesAre DEF NextState, Timed

LEMMA AfterE ==
  ASSUME NEW q \in States, "E" \in DOMAIN NextState[q]
  PROVE  /\ q \notin Timed
         /\ NextState[q].E \in States \ Timed
         /\ TopState[q] \in States \ Timed
BY StatesAre DEF NextState, Timed, TopState

LEMMA Start == parserStart \in States \ Timed
BY StatesAre DEF parserStart, Timed

-----------------------------------------------------------------------------
(***************************************************************************)
(* A time belongs to the next message.  The invariant follows the parser   *)
(* through the contents of a file: a message for a file leaves the states  *)
(* of Timed at once, the time is used up when the file is written.         *)
(***************************************************************************)
TimeInv ==
  /\ timeSet \in BOOLEAN
  /\ phase = "new" => ~timeSet
  /\ phase \in {"header", "content", "end"} => state \in States
  /\ phase = "header" => (timeSet <=> state \in Timed)
  /\ phase \in {"content", "end"} => state \notin Timed
  /\ phase = "end" => ~timeSet

LEMMA InitTimeInv == Init => TimeInv
BY DEF Init, SinkInit, TimeInv

LEMMA SinkTimeInv ==
  ASSUME TimeInv, Sink
  PROVE  TimeInv'
<1>1. CASE SinkStarts
  BY <1>1, Start DEF TimeInv, SinkStarts, ack
<1>2. CASE ReceiveC
  <2>1. phase = "header" /\ state \in States /\ "C" \in DOMAIN NextState[state]
    BY <1>2 DEF TimeInv, ReceiveC, Receives
  <2>2. NextState[state].C \in States \ Timed
    BY <2>1, AfterC
  <2>3. \/ phase' = "content" /\ state' = NextState[state].C
        \/ phase' = "done"
    BY <1>2 DEF ReceiveC, Abort
  <2>4. timeSet' = timeSet
    BY <1>2 DEF ReceiveC
  <2> QED
    BY <2>2, <2>3, <2>4 DEF TimeInv
<1>3. CASE ReceiveD
  <2>1. phase = "header" /\ state \in States /\ "D" \in DOMAIN NextState[state]
    BY <1>3 DEF TimeInv, ReceiveD, Receives
  <2>2. NextState[state].D \in States \ Timed
    BY <2>1, AfterD
  <2>3. \/ phase' = "header" /\ state' = NextState[state].D /\ timeSet' = FALSE
        \/ phase' = "done" /\ timeSet' = timeSet
    BY <1>3, <2>1 DEF ReceiveD, Abort
  <2> QED
    BY <2>2, <2>3 DEF TimeInv
<1>4. CASE ReceiveE
  <2>1. phase = "header" /\ state \in States /\ "E" \in DOMAIN NextState[state]
    BY <1>4 DEF TimeInv, ReceiveE, Receives
  <2>2. /\ state \notin Timed
        /\ NextState[state].E \in States \ Timed
        /\ TopState[state] \in States \ Timed
    BY <2>1, AfterE
  <2>3. /\ phase' = phase /\ timeSet' = timeSet
        /\ state' \in {TopState[state], NextState[state].E}
    BY <1>4 DEF ReceiveE
  <2> QED
    BY <2>1, <2>2, <2>3 DEF TimeInv
<1>5. CASE ReceiveT
  <2>1. phase = "header" /\ state \in States /\ "T" \in DOMAIN NextState[state]
    BY <1>5 DEF TimeInv, ReceiveT, Receives
  <2>2. NextState[state].T \in States \cap Timed
    BY <2>1, AfterT
  <2>3. phase' = phase /\ timeSet' = TRUE /\ state' = NextState[state].T
    BY <1>5 DEF ReceiveT
  <2> QED
    BY <2>1, <2>2, <2>3 DEF TimeInv
<1>6. CASE RejectMessage
  BY <1>6 DEF TimeInv, RejectMessage, Abort
<1>7. CASE CopyByte
  BY <1>7 DEF TimeInv, CopyByte
<1>8. CASE FileWritten
  BY <1>8 DEF TimeInv, FileWritten
<1>9. CASE ReceiveEnd
  BY <1>9 DEF TimeInv, ReceiveEnd, Abort
<1>10. CASE EndOfStream
  BY <1>10 DEF TimeInv, EndOfStream, Abort
<1>11. CASE SinkIOError
  BY <1>11 DEF TimeInv, SinkIOError, Abort
<1> QED
  BY <1>1, <1>2, <1>3, <1>4, <1>5, <1>6, <1>7, <1>8, <1>9, <1>10, <1>11 DEF Sink

\* Nobody but the sink touches what the invariant is about.
SinkLeftAlone == UNCHANGED <<phase, state, timeSet, left>>

LEMMA OthersLeaveSink ==
  ASSUME Next, ~Sink
  PROVE  SinkLeftAlone
<1>1. CASE Source
  BY <1>1 DEF Source, SourceStats, SourceSends, SourceLists, SourceSendsData,
              SourceGetsAck, SourceGetsNoAck, SourceDone, SourceIOError,
              SourceUnchanged, SinkLeftAlone
<1>2. CASE Change \/ Finished
  BY <1>2 DEF Change, Finished, vars, sinkVars, SinkLeftAlone
<1>3. CASE Disconnect \/ AnySends \/ AnyReads \/ AnyCloses
  BY <1>3 DEF Disconnect, AnySends, AnyReads, AnyCloses, SinkLeftAlone
<1> QED
  BY <1>1, <1>2, <1>3 DEF Next

LEMMA NextTimeInv == TimeInv /\ [Next]_vars => TimeInv'
<1> SUFFICES ASSUME TimeInv, [Next]_vars
             PROVE  TimeInv'
  OBVIOUS
<1>1. CASE Sink
  BY <1>1, SinkTimeInv
<1>2. CASE Next /\ ~Sink
  BY <1>2, OthersLeaveSink DEF TimeInv, SinkLeftAlone
<1>3. CASE UNCHANGED vars
  BY <1>3 DEF TimeInv, vars, sinkVars
<1> QED
  BY <1>1, <1>2, <1>3

\* Whatever a client sends, a time that was announced is never set on another node
\* than the one it was announced for (timeSet of scpImp, the states of sink.go).
THEOREM TimesBelong == Spec => []TimesBelongToNext
<1>1. TimeInv => TimesBelongToNext
  BY DEF TimeInv, TimesBelongToNext, Timed
<1> QED
  BY <1>1, InitTimeInv, NextTimeInv, PTL DEF Spec

-----------------------------------------------------------------------------
(***************************************************************************)
(* No file that is cut short is acknowledged.  When contents end early the *)
(* stream is at its end for good, so the byte that would bring the         *)
(* acknowledgement about cannot come: a source that has closed its end is  *)
(* done or has no connection, another client does not send once closed.    *)
(***************************************************************************)
ShortInv ==
  /\ phase = "end" /\ left # 0 => stream = << >> /\ closed
  /\ closed /\ client = "source" => outcome # "running" \/ ~linkUp

LEMMA InitShortInv == Init => ShortInv
BY DEF Init, SinkInit, ShortInv

LEMMA SinkShortInv ==
  ASSUME ShortInv, Sink, UNCHANGED clientVars
  PROVE  ShortInv'
<1>1. client' = client /\ outcome' = outcome /\ linkUp' = linkUp
  BY DEF clientVars
<1>2. closed' = closed
  BY DEF Sink, SinkStarts, ReceiveC, ReceiveD, ReceiveE, ReceiveT, RejectMessage,
         CopyByte, FileWritten, ReceiveEnd, EndOfStream, SinkIOError
<1>3. phase' = "end" => FileWritten
  BY DEF Sink, SinkStarts, ReceiveC, ReceiveD, ReceiveE, ReceiveT, RejectMessage,
         CopyByte, FileWritten, ReceiveEnd, EndOfStream, SinkIOError, Receives, Abort
<1>4. FileWritten => (left' = 0 \/ (stream' = << >> /\ closed'))
  BY DEF FileWritten
<1> QED
  BY <1>1, <1>2, <1>3, <1>4 DEF ShortInv

LEMMA SourceShortInv ==
  ASSUME ShortInv, Source
  PROVE  ShortInv'
<1>1. client = "source" /\ client' = client /\ linkUp' = linkUp
      /\ phase' = phase /\ left' = left /\ outcome = "running"
  BY DEF Source, SourceStats, SourceSends, SourceLists, SourceSendsData,
         SourceGetsAck, SourceGetsNoAck, SourceDone, SourceIOError, SourceUnchanged,
         Sending
<1>2. closed' = closed \/ outcome' # "running"
  BY DEF Source, SourceStats, SourceSends, SourceLists, SourceSendsData,
         SourceGetsAck, SourceGetsNoAck, SourceDone, SourceIOError, SourceFails
<1>3. outcome' = outcome \/ (closed' /\ outcome' # "running")
  BY DEF Source, SourceStats, SourceSends, SourceLists, SourceSendsData,
         SourceGetsAck, SourceGetsNoAck, SourceDone, SourceIOError, SourceFails
<1>4. ~linkUp => stream' = stream
  BY DEF Source, SourceStats, SourceSends, SourceLists, SourceSendsData,
         SourceGetsAck, SourceGetsNoAck, SourceDone, SourceIOError, SourceFails, Sending
<1>5. phase = "end" /\ left # 0 => ~linkUp
  BY <1>1 DEF ShortInv
<1>6. ~linkUp => (closed => closed')
  BY DEF Source, SourceStats, SourceSends, SourceLists, SourceSendsData,
         SourceGetsAck, SourceGetsNoAck, SourceDone, SourceIOError, SourceFails, Sending
<1> QED
  BY <1>1, <1>2, <1>3, <1>4, <1>5, <1>6 DEF ShortInv

LEMMA EnvironmentShortInv ==
  ASSUME ShortInv, Change \/ Disconnect \/ AnySends \/ AnyReads \/ AnyCloses
  PROVE  ShortInv'
<1>1. CASE Change
  BY <1>1 DEF ShortInv, Change, sinkVars
<1>2. CASE Disconnect
  <2>1. stream = << >> => stream' = << >>
    BY <1>2 DEF Disconnect, Prefixes
  <2> QED
    BY <1>2, <2>1 DEF ShortInv, Disconnect
<1>3. CASE AnySends
  BY <1>3 DEF ShortInv, AnySends, sourceVars
<1>4. CASE AnyReads
  BY <1>4 DEF ShortInv, AnyReads, clientVars
<1>5. CASE AnyCloses
  BY <1>5 DEF ShortInv, AnyCloses, clientVars
<1> QED
  BY <1>1, <1>2, <1>3, <1>4, <1>5

LEMMA NextShortInv == ShortInv /\ [Next]_vars => ShortInv'
<1> SUFFICES ASSUME ShortInv, [Next]_vars
             PROVE  ShortInv'
  OBVIOUS
<1>1. CASE Sink /\ UNCHANGED clientVars
  BY <1>1, SinkShortInv
<1>2. CASE Source
  BY <1>2, SourceShortInv
<1>3. CASE Change \/ Disconnect \/ AnySends \/ AnyReads \/ AnyCloses
  BY <1>3, EnvironmentShortInv
<1>4. CASE Finished \/ UNCHANGED vars
  BY <1>4 DEF ShortInv, Finished, vars, sinkVars, clientVars
<1> QED
  BY <1>1, <1>2, <1>3, <1>4 DEF Next

LEMMA AcknowledgedWhole ==
  ASSUME ShortInv, [Next]_vars, phase = "end", phase' = "header"
  PROVE  left = 0
<1>1. CASE Sink
  <2>1. ReceiveEnd
    BY <1>1 DEF Sink, SinkStarts, ReceiveC, ReceiveD, ReceiveE, ReceiveT,
           RejectMessage, CopyByte, FileWritten, EndOfStream, SinkIOError, Receives,
           Abort
  <2> QED
    BY <2>1 DEF ReceiveEnd, ShortInv
<1>2. CASE Next /\ ~Sink
  BY <1>2, OthersLeaveSink DEF SinkLeftAlone
<1>3. CASE UNCHANGED vars
  BY <1>3 DEF vars, sinkVars
<1> QED
  BY <1>1, <1>2, <1>3

\* A file is acknowledged only when all of the announced bytes have been written,
\* whatever client, connection and file system do (io.Copy of scpCMessage.process
\* takes the end of the stream for the end of the file).
THEOREM WholeFilesAcknowledged == Spec => NoShortFileAcknowledged
<1>1. ShortInv /\ [Next]_vars => [phase = "end" /\ phase' = "header" => left = 0]_vars
  BY AcknowledgedWhole
<1> QED
  BY <1>1, InitShortInv, NextShortInv, PTL DEF Spec, NoShortFileAcknowledged

-----------------------------------------------------------------------------
(***************************************************************************)
(* The sink stays in its target directory, unless it runs with -r and -p.  *)
(* Of the states of the other modes only one accepts the end of a          *)
(* directory, and it is entered with a directory and left at depth 0.      *)
(***************************************************************************)
OtherMode == ~(recursive /\ times)
OtherStates == {"NoRecurseTimesCT", "NoRecurseTimesC", "NoRecurseNoTimesC",
                "RecurseNoTimesCD", "RecurseNoTimesCDE"}

IsSeq(s) == \E S : s \in Seq(S)
Inside == IsPrefix(Target, dir) /\ Len(dir) = Len(Target) + depth

InsideInv ==
  /\ IsSeq(dir)
  /\ phase # "done" =>
       /\ depth \in Nat
       /\ Inside
       /\ phase # "new" => state \in OtherStates
       /\ state = "RecurseNoTimesCDE" => depth > 0

LEMMA AppendIsSeq ==
  ASSUME NEW s, IsSeq(s), NEW x
  PROVE  IsSeq(Append(s, x)) /\ Len(Append(s, x)) = Len(s) + 1
<1>1. PICK S : s \in Seq(S)
  BY DEF IsSeq
<1>2. s \in Seq(S \cup {x})
  BY <1>1
<1>3. Append(s, x) \in Seq(S \cup {x}) /\ Len(Append(s, x)) = Len(s) + 1
  BY <1>2
<1> QED
  BY <1>3 DEF IsSeq

LEMMA AppendInside ==
  ASSUME NEW s, IsSeq(s), NEW x, IsPrefix(Target, s)
  PROVE  IsPrefix(Target, Append(s, x))
<1>1. PICK S : s \in Seq(S)
  BY DEF IsSeq
<1>2. s \in Seq(S \cup {x})
  BY <1>1
<1>3. Target \in Seq(Names)
  BY TargetAssumption
<1>4. Len(Target) <= Len(s) /\ SubSeq(Target, 1, Len(Target)) = SubSeq(s, 1, Len(Target))
  BY DEF IsPrefix
<1>5. SubSeq(Append(s, x), 1, Len(Target)) = SubSeq(s, 1, Len(Target))
  BY <1>2, <1>3, <1>4
<1> QED
  BY <1>2, <1>3, <1>4, <1>5 DEF IsPrefix

LEMMA ParentInside ==
  ASSUME NEW s, IsSeq(s), IsPrefix(Target, s), Len(Target) < Len(s)
  PROVE  /\ IsSeq(Parent(s))
         /\ IsPrefix(Target, Parent(s))
         /\ Len(Parent(s)) = Len(s) - 1
<1>1. PICK S : s \in Seq(S)
  BY DEF IsSeq
<1>2. Target \in Seq(Names) /\ Len(Target) \in Nat /\ Len(s) \in Nat
  BY <1>1, TargetAssumption
<1>3. Parent(s) = SubSeq(s, 1, Len(s) - 1)
  BY <1>1, <1>2 DEF Parent, Front
<1>4. Parent(s) \in Seq(S) /\ Len(Parent(s)) = Len(s) - 1
  <2>1. Len(s) - 1 \in Int /\ 1 <= Len(s) - 1 + 1 /\ Len(s) >= 1
    BY <1>2
  <2>2. \A i \in 1 .. (Len(s) - 1) : s[i] \in S
    BY <1>1, <2>1
  <2>3. /\ SubSeq(s, 1, Len(s) - 1) \in Seq(S)
        /\ Len(SubSeq(s, 1, Len(s) - 1)) =
             IF 1 <= Len(s) - 1 THEN Len(s) - 1 - 1 + 1 ELSE 0
    BY <2>1, <2>2, SubSeqProperties
  <2>4. Len(SubSeq(s, 1, Len(s) - 1)) = Len(s) - 1
    <3>1. ASSUME NEW n \in Nat, NEW l \in Int, n >= 1,
                 l = IF 1 <= n - 1 THEN n - 1 - 1 + 1 ELSE 0
          PROVE  l = n - 1
      BY <3>1
    <3>2. Len(SubSeq(s, 1, Len(s) - 1)) \in Int
      BY <1>2, <2>3
    <3> QED
      BY <1>2, <2>1, <2>3, <3>1, <3>2
  <2> QED
    BY <1>3, <2>3, <2>4
<1>5. SubSeq(Parent(s), 1, Len(Target)) = SubSeq(s, 1, Len(Target))
  BY <1>1, <1>2, <1>3
<1> QED
  BY <1>2, <1>4, <1>5 DEF IsSeq, IsPrefix

LEMMA InitInsideInv == Init => InsideInv
<1>1. Target \in Seq(Names) /\ IsPrefix(Target, Target)
  BY TargetAssumption DEF IsPrefix
<1>2. ASSUME Init PROVE dir = Target /\ depth = 0 /\ phase = "new" /\ state = "none"
  BY <1>2 DEF Init, SinkInit
<1>3. Len(Target) \in Nat
  BY <1>1
<1> QED
  BY <1>1, <1>2, <1>3 DEF InsideInv, IsSeq, Inside

LEMMA SinkInsideInv ==
  ASSUME InsideInv, OtherMode, Sink
  PROVE  InsideInv'
<1>1. CASE SinkStarts
  <2>1. dir' = dir /\ depth' = depth /\ phase = "new"
    BY <1>1 DEF SinkStarts
  <2>2. phase' = "done" \/ (phase' = "header" /\ state' = parserStart)
    BY <1>1 DEF SinkStarts
  <2>3. parserStart \in OtherStates \ {"RecurseNoTimesCDE"}
    BY DEF OtherMode, OtherStates, parserStart
  <2> QED
    BY <2>1, <2>2, <2>3 DEF InsideInv, Inside
<1>2. CASE ReceiveC
  <2>1. phase = "header" /\ state \in OtherStates
    BY <1>2 DEF ReceiveC, Receives, InsideInv
  <2>2. dir' = dir /\ depth' = depth
    BY <1>2 DEF ReceiveC
  <2>3. phase' = "done" \/ state' = NextState[state].C
    BY <1>2 DEF ReceiveC, Abort
  <2>4. "C" \in DOMAIN NextState[state]
    BY <1>2 DEF ReceiveC, Receives
  <2>5. /\ NextState[state].C \in OtherStates
        /\ NextState[state].C = "RecurseNoTimesCDE" => state = "RecurseNoTimesCDE"
    BY <2>1, <2>4 DEF OtherStates, NextState
  <2> QED
    BY <2>1, <2>2, <2>3, <2>5 DEF InsideInv, Inside
<1>3. CASE ReceiveD
  <2>1. phase = "header" /\ state \in OtherStates /\ "D" \in DOMAIN NextState[state]
    BY <1>3 DEF ReceiveD, Receives, InsideInv
  <2>2. NextState[state].D = "RecurseNoTimesCDE"
    BY <2>1 DEF OtherStates, NextState
  <2>3. \/ phase' = "done" /\ (dir' = dir \/ dir' = Append(dir, NextMessage.name))
        \/ /\ phase' = "header"
           /\ dir' = Append(dir, NextMessage.name)
           /\ depth' = depth + 1
           /\ state' = NextState[state].D
    BY <1>3, <2>1 DEF ReceiveD, Abort
  <2>4. /\ IsSeq(Append(dir, NextMessage.name))
        /\ Len(Append(dir, NextMessage.name)) = Len(dir) + 1
        /\ IsPrefix(Target, Append(dir, NextMessage.name))
    BY <2>1, AppendIsSeq, AppendInside DEF InsideInv, Inside
  <2>5. Len(Target) \in Nat
    BY TargetAssumption
  <2>6. CASE phase' = "done"
    BY <2>3, <2>4, <2>6 DEF InsideInv
  <2>7. CASE phase' = "header"
    <3>1. /\ dir' = Append(dir, NextMessage.name) /\ depth' = depth + 1
          /\ state' = "RecurseNoTimesCDE"
      BY <2>2, <2>3, <2>7
    <3>2. depth \in Nat /\ Len(dir) = Len(Target) + depth
      BY <2>1 DEF InsideInv, Inside
    <3>3. IsSeq(dir)'
      BY <2>4, <3>1
    <3>4. depth' \in Nat /\ depth' > 0 /\ Inside'
      BY <2>4, <2>5, <3>1, <3>2 DEF Inside
    <3> QED
      BY <3>1, <3>3, <3>4 DEF InsideInv, OtherStates
  <2> QED
    BY <2>3, <2>6, <2>7
<1>4. CASE ReceiveE
  <2>1. phase = "header" /\ state \in OtherStates /\ "E" \in DOMAIN NextState[state]
    BY <1>4 DEF ReceiveE, Receives, InsideInv
  <2>2. state = "RecurseNoTimesCDE"
    BY <2>1 DEF OtherStates, NextState
  <2>3. NextState[state].E = "RecurseNoTimesCDE" /\ TopState[state] = "RecurseNoTimesCD"
    BY <2>2 DEF NextState, TopState
  <2>4. /\ dir' = Parent(dir) /\ depth' = depth - 1 /\ phase' = phase
        /\ state' = IF depth' = 0 THEN TopState[state] ELSE NextState[state].E
    BY <1>4 DEF ReceiveE
  <2>5. depth \in Nat /\ depth > 0 /\ Len(Target) \in Nat
    BY <2>1, <2>2, TargetAssumption DEF InsideInv
  <2>6. /\ IsSeq(Parent(dir)) /\ IsPrefix(Target, Parent(dir))
        /\ Len(Parent(dir)) = Len(dir) - 1
    BY <2>1, <2>5, ParentInside DEF InsideInv, Inside
  <2> QED
    BY <2>1, <2>3, <2>4, <2>5, <2>6 DEF InsideInv, Inside, OtherStates
<1>5. CASE ReceiveT
  <2>1. phase = "header" /\ state \in OtherStates /\ "T" \in DOMAIN NextState[state]
    BY <1>5 DEF ReceiveT, Receives, InsideInv
  <2>2. NextState[state].T \in OtherStates \ {"RecurseNoTimesCDE"}
    BY <2>1 DEF OtherStates, NextState
  <2>3. dir' = dir /\ depth' = depth /\ phase' = phase /\ state' = NextState[state].T
    BY <1>5 DEF ReceiveT
  <2> QED
    BY <2>1, <2>2, <2>3 DEF InsideInv, Inside
<1>6. CASE RejectMessage
  BY <1>6 DEF InsideInv, RejectMessage, Abort
<1>7. CASE CopyByte
  BY <1>7 DEF InsideInv, Inside, CopyByte
<1>8. CASE FileWritten
  BY <1>8 DEF InsideInv, Inside, FileWritten
<1>9. CASE ReceiveEnd
  BY <1>9 DEF InsideInv, Inside, ReceiveEnd, Abort
<1>10. CASE EndOfStream
  BY <1>10 DEF InsideInv, EndOfStream, Abort
<1>11. CASE SinkIOError
  BY <1>11 DEF InsideInv, SinkIOError, Abort
<1> QED
  BY <1>1, <1>2, <1>3, <1>4, <1>5, <1>6, <1>7, <1>8, <1>9, <1>10, <1>11 DEF Sink

LEMMA OthersLeaveDirectory ==
  ASSUME Next, ~Sink
  PROVE  UNCHANGED <<dir, depth>>
<1>1. CASE Source
  BY <1>1 DEF Source, SourceStats, SourceSends, SourceLists, SourceSendsData,
              SourceGetsAck, SourceGetsNoAck, SourceDone, SourceIOError,
              SourceUnchanged
<1>2. CASE Change \/ Finished
  BY <1>2 DEF Change, Finished, vars, sinkVars
<1>3. CASE Disconnect \/ AnySends \/ AnyReads \/ AnyCloses
  BY <1>3 DEF Disconnect, AnySends, AnyReads, AnyCloses
<1> QED
  BY <1>1, <1>2, <1>3 DEF Next

LEMMA NextInsideInv == OtherMode /\ InsideInv /\ [Next]_vars => InsideInv'
<1> SUFFICES ASSUME OtherMode, InsideInv, [Next]_vars
             PROVE  InsideInv'
  OBVIOUS
<1>1. CASE Sink
  BY <1>1, SinkInsideInv
<1>2. CASE Next /\ ~Sink
  BY <1>2, OthersLeaveSink, OthersLeaveDirectory DEF InsideInv, Inside, SinkLeftAlone
<1>3. CASE UNCHANGED vars
  BY <1>3 DEF InsideInv, Inside, vars, sinkVars
<1> QED
  BY <1>1, <1>2, <1>3

LEMMA ModeStays == [Next]_vars => opts' = opts
<1> SUFFICES ASSUME [Next]_vars
             PROVE  opts' = opts
  OBVIOUS
<1>1. CASE Sink
  BY <1>1 DEF Sink, SinkStarts, ReceiveC, ReceiveD, ReceiveE, ReceiveT, RejectMessage,
         CopyByte, FileWritten, ReceiveEnd, EndOfStream, SinkIOError
<1>2. CASE Source
  BY <1>2 DEF Source, SourceStats, SourceSends, SourceLists, SourceSendsData,
              SourceGetsAck, SourceGetsNoAck, SourceDone, SourceIOError,
              SourceUnchanged
<1>3. CASE Change \/ Finished \/ UNCHANGED vars
  BY <1>3 DEF Change, Finished, vars, sinkVars
<1>4. CASE Disconnect \/ AnySends \/ AnyReads \/ AnyCloses
  BY <1>4 DEF Disconnect, AnySends, AnyReads, AnyCloses
<1> QED
  BY <1>1, <1>2, <1>3, <1>4 DEF Next

\* A sink without -r or without -p never leaves its target directory, and its depth
\* counts the directories it is in, whatever a client sends (sink.go, messages.go).
THEOREM StaysInsideOtherModes == Spec => [](OtherMode => StaysInside)
<1> DEFINE Inv == OtherMode => InsideInv
<1>1. Init => Inv
  BY InitInsideInv
<1>2. Inv /\ [Next]_vars => Inv'
  <2>1. [Next]_vars => (OtherMode' <=> OtherMode)
    BY ModeStays DEF OtherMode, recursive, times
  <2> QED
    BY <2>1, NextInsideInv
<1>3. Inv => (OtherMode => StaysInside)
  BY DEF InsideInv, Inside, StaysInside
<1> QED
  BY <1>1, <1>2, <1>3, PTL DEF Spec

-----------------------------------------------------------------------------
(***************************************************************************)
(* Paths, and where they are below the target.                             *)
(***************************************************************************)
Paths == Seq(Names)

LEMMA PathFront ==
  ASSUME NEW p \in Paths, p # << >>
  PROVE  /\ Front(p) \in Paths /\ Len(Front(p)) = Len(p) - 1
         /\ Name(p) \in Names
         /\ Append(Front(p), Name(p)) = p
<1>1. Len(p) \in Nat /\ Len(p) >= 1 /\ \A i \in 1 .. Len(p) : p[i] \in Names
  BY DEF Paths
<1>2. Front(p) \in Paths /\ Len(Front(p)) = Len(p) - 1
      /\ \A i \in 1 .. Len(p) - 1 : Front(p)[i] = p[i]
  <2>1. \A i \in 1 .. Len(p) - 1 : p[i] \in Names
    BY <1>1
  <2>2. SubSeq(p, 1, Len(p) - 1) \in Seq(Names)
        /\ Len(SubSeq(p, 1, Len(p) - 1)) = IF 1 <= Len(p) - 1 THEN Len(p) - 1 - 1 + 1 ELSE 0
    <3>1. Len(p) - 1 \in Int
      BY <1>1
    <3> QED
      BY <2>1, <3>1, SubSeqProperties
  <2>3. Len(SubSeq(p, 1, Len(p) - 1)) = Len(p) - 1
    <3>1. ASSUME NEW n \in Nat, NEW l \in Int, n >= 1,
                 l = IF 1 <= n - 1 THEN n - 1 - 1 + 1 ELSE 0
          PROVE  l = n - 1
      BY <3>1
    <3>2. Len(SubSeq(p, 1, Len(p) - 1)) \in Int
      BY <1>1, <2>2
    <3> QED
      BY <1>1, <2>2, <3>1, <3>2
  <2>4. \A i \in 1 .. Len(p) - 1 : SubSeq(p, 1, Len(p) - 1)[i] = p[i]
    BY <1>1
  <2> QED
    BY <2>2, <2>3, <2>4 DEF Front, Paths
<1>3. Name(p) \in Names /\ Name(p) = p[Len(p)]
  BY <1>1 DEF Name, Last
<1> DEFINE q == Append(Front(p), Name(p))
<1>4. q \in Paths /\ Len(q) = Len(p) /\ q[Len(p)] = p[Len(p)]
      /\ \A i \in 1 .. Len(p) - 1 : q[i] = p[i]
  <2> DEFINE f == Front(p)
             n == Name(p)
  <2> HIDE DEF f, n
  <2>1. /\ f \in Seq(Names) /\ n \in Names /\ Len(f) = Len(p) - 1
        /\ n = p[Len(p)] /\ \A i \in 1 .. Len(p) - 1 : f[i] = p[i]
    BY <1>2, <1>3 DEF f, n, Paths
  <2>2. /\ Append(f, n) \in Seq(Names) /\ Len(Append(f, n)) = Len(f) + 1
        /\ \A i \in 1 .. Len(f) : Append(f, n)[i] = f[i]
        /\ Append(f, n)[Len(f) + 1] = n
    BY <2>1, AppendProperties
  <2> QED
    BY <1>1, <2>1, <2>2 DEF f, n, Paths
<1> HIDE DEF q
<1>5. \A i \in 1 .. Len(q) : q[i] = p[i]
  <2>1. \A i \in 1 .. Len(q) : i \in 1 .. Len(p) - 1 \/ i = Len(p)
    BY <1>1, <1>4
  <2> QED
    BY <1>4, <2>1
<1>6. q = p
  <2>1. q \in Seq(Names) /\ p \in Seq(Names)
    BY <1>4 DEF Paths
  <2> QED
    BY <1>4, <1>5, <2>1, SeqEqual
<1> QED
  BY <1>2, <1>3, <1>6 DEF q

LEMMA InTarget ==
  ASSUME NEW p \in Paths
  PROVE  /\ Target \o p \in Paths /\ Len(Target \o p) = Len(Target) + Len(p)
         /\ \A n \in Names : Append(Target \o p, n) = Target \o Append(p, n)
         /\ IsPrefix(Target, Target \o p)
         /\ \A q \in Paths : Target \o p = Target \o q => p = q
<1>1. Target \in Seq(Names) /\ p \in Seq(Names)
  BY TargetAssumption DEF Paths
<1>2. Target \o p \in Seq(Names) /\ Len(Target \o p) = Len(Target) + Len(p)
  BY <1>1
<1>3. \A n \in Names : Append(Target \o p, n) = Target \o Append(p, n)
  BY <1>1
<1>4. IsPrefix(Target, Target \o p)
  <2>1. SubSeq(Target, 1, Len(Target)) = SubSeq(Target \o p, 1, Len(Target))
    BY <1>1
  <2> QED
    BY <1>1, <1>2, <2>1 DEF IsPrefix
<1>5. \A q \in Paths : Target \o p = Target \o q => p = q
  BY <1>1, ConcatSimplifications DEF Paths
<1> QED
  BY <1>1, <1>2, <1>3, <1>4, <1>5 DEF Paths

LEMMA ParentInTarget ==
  ASSUME NEW p \in Paths, p # << >>
  PROVE  Parent(Target \o p) = Target \o Front(p)
<1> DEFINE f == Front(p)
           n == Name(p)
<1>1. f \in Paths /\ n \in Names /\ Append(f, n) = p
  BY PathFront
<1> HIDE DEF f, n
<1>2. Target \o p = Append(Target \o f, n)
  BY <1>1, InTarget
<1> DEFINE d == Target \o f
<1>3. d \in Seq(Names)
  BY <1>1, InTarget DEF Paths
<1> HIDE DEF d
<1>4. Append(d, n) # << >> /\ Len(Append(d, n)) = Len(d) + 1 /\ SubSeq(Append(d, n), 1, Len(d)) = d
  BY <1>1, <1>3
<1>5. Len(d) \in Nat /\ Len(d) + 1 - 1 = Len(d)
  BY <1>3
<1>6. Front(Append(d, n)) = d
  BY <1>4, <1>5 DEF Front
<1> QED
  BY <1>2, <1>4, <1>6 DEF Parent, d, f

-----------------------------------------------------------------------------
(***************************************************************************)
(* The plan of the source.                                                 *)
(***************************************************************************)
Ops == {"stat", "T", "C", "D", "E", "list", "data"}
TaskSet == [op : Ops, path : Paths, size : Nat]

\* The tree is one throughout; only contents change.
SourceTree ==
  /\ IsFiniteSet(DOMAIN src)
  /\ \E p \in DOMAIN src : Len(p) = 1
  /\ \A p \in DOMAIN src :
       /\ p \in Paths /\ p # << >>
       /\ src[p] \in [dir : BOOLEAN, content : Seq({"byte", "nul"}), time : Int]
       /\ Len(p) > 1 => Front(p) \in DOMAIN src /\ src[Front(p)].dir

\* The directory, below the target, in which a task begins, and in which it ends.
Before(t) == IF t.op \in {"list", "E"} THEN t.path ELSE Front(t.path)
Behind(t) == IF t.op = "D" THEN t.path ELSE Front(t.path)

IsTask(t) ==
  /\ t \in TaskSet
  /\ t.path \in DOMAIN src
  /\ t.op \in {"D", "list", "E"} => src[t.path].dir
  /\ t.op \in {"C", "data"} => ~src[t.path].dir
  /\ t.op = "T" => times

\* Whether a node, or the end of a directory, begins or ends with a task.
Starts(t) == t.op = "E" \/ (IF times THEN t.op = "T" ELSE t.op \in {"C", "D"})
Ends(t) == t.op \in {"list", "data", "E"}

Follows(t, u) ==
  /\ Behind(t) = Before(u)
  /\ \/ t.op = "T" /\ u.op \in {"C", "D"} /\ u.path = t.path
     \/ t.op = "D" /\ u.op = "list" /\ u.path = t.path
     \/ t.op = "C" /\ u.op = "data" /\ u.path = t.path /\ u.size = t.size
     \/ Ends(t) /\ Starts(u)

Steps(s) ==
  /\ s \in Seq(TaskSet)
  /\ \A i \in 1 .. Len(s) : IsTask(s[i])
  /\ \A i \in 1 .. Len(s) - 1 : Follows(s[i], s[i + 1])

\* The tasks s begin and end in directory p.
Stretch(s, p) ==
  /\ Steps(s)
  /\ s # << >> =>
       /\ Starts(s[1]) /\ Before(s[1]) = p
       /\ Ends(s[Len(s)]) /\ Behind(s[Len(s)]) = p

\* All that is left to do: it ends outside of the root of the tree.
Walk(s) ==
  /\ Steps(s)
  /\ s # << >> =>
       /\ Ends(s[Len(s)]) \/ s[Len(s)].op = "stat"
       /\ Behind(s[Len(s)]) = << >>

Linked(t, s) ==
  IF s = << >> THEN Ends(t) /\ Behind(t) = << >> ELSE Follows(t, s[1])

LEMMA JoinSteps ==
  ASSUME NEW s, NEW r, Steps(s), Steps(r),
         s # << >> /\ r # << >> => Follows(s[Len(s)], r[1])
  PROVE  /\ Steps(s \o r)
         /\ s = << >> => s \o r = r
         /\ r = << >> => s \o r = s
         /\ s # << >> => s \o r # << >> /\ (s \o r)[1] = s[1]
         /\ r # << >> => s \o r # << >> /\ (s \o r)[Len(s \o r)] = r[Len(r)]
<1>1. s \in Seq(TaskSet) /\ r \in Seq(TaskSet)
  BY DEF Steps
<1> DEFINE j == s \o r
<1>2. /\ j \in Seq(TaskSet) /\ Len(j) = Len(s) + Len(r)
      /\ \A i \in 1 .. Len(j) : j[i] = IF i <= Len(s) THEN s[i] ELSE r[i - Len(s)]
  BY <1>1
<1>3. s = << >> => j = r
  BY <1>1
<1>4. r = << >> => j = s
  BY <1>1
<1>5. /\ Len(s) \in Nat /\ Len(r) \in Nat
      /\ s # << >> => Len(s) >= 1
      /\ r # << >> => Len(r) >= 1
  BY <1>1
<1> HIDE DEF j
<1>6. s # << >> => j # << >> /\ j[1] = s[1]
  BY <1>1, <1>2, <1>5
<1>7. r # << >> => j # << >> /\ j[Len(j)] = r[Len(r)]
  <2> SUFFICES ASSUME Len(r) >= 1 PROVE j # << >> /\ j[Len(j)] = r[Len(r)]
    BY <1>5
  <2>1. Len(j) \in 1 .. Len(j) /\ ~(Len(j) <= Len(s)) /\ Len(j) - Len(s) = Len(r)
    BY <1>2, <1>5
  <2>2. j[Len(j)] = r[Len(r)]
    BY <1>2, <2>1
  <2>3. j # << >>
    BY <2>1
  <2> QED
    BY <2>2, <2>3
<1>8. \A i \in 1 .. Len(j) : IsTask(j[i])
  <2> TAKE i \in 1 .. Len(j)
  <2>1. CASE i <= Len(s)
    BY <1>2, <1>5, <2>1 DEF Steps
  <2>2. CASE ~(i <= Len(s))
    <3>1. i - Len(s) \in 1 .. Len(r) /\ j[i] = r[i - Len(s)]
      BY <1>2, <1>5, <2>2
    <3> QED
      BY <3>1 DEF Steps
  <2> QED
    BY <2>1, <2>2
<1>9. \A i \in 1 .. Len(j) - 1 : Follows(j[i], j[i + 1])
  <2> SUFFICES ASSUME NEW i \in 1 .. Len(j) - 1 PROVE Follows(j[i], j[i + 1])
    OBVIOUS
  <2>1. CASE i < Len(s)
    <3>1. i \in 1 .. Len(s) - 1 /\ j[i] = s[i] /\ j[i + 1] = s[i + 1]
      BY <1>2, <1>5, <2>1
    <3> QED
      BY <3>1 DEF Steps
  <2>2. CASE i = Len(s)
    <3>1. j[i] = s[Len(s)] /\ s # << >> /\ r # << >>
      BY <1>1, <1>2, <1>5, <2>2
    <3>2. i + 1 \in 1 .. Len(j) /\ ~(i + 1 <= Len(s)) /\ i + 1 - Len(s) = 1
      BY <1>2, <1>5, <2>2
    <3>3. j[i + 1] = r[1]
      BY <1>2, <3>2
    <3> QED
      BY <3>1, <3>3
  <2>3. CASE i > Len(s)
    <3>1. i - Len(s) \in 1 .. Len(r) - 1 /\ i + 1 - Len(s) = i - Len(s) + 1
      BY <1>2, <1>5, <2>3
    <3>2. j[i] = r[i - Len(s)] /\ j[i + 1] = r[i - Len(s) + 1]
      BY <1>2, <1>5, <2>3, <3>1
    <3> QED
      BY <3>1, <3>2 DEF Steps
  <2> QED
    BY <1>2, <1>5, <2>1, <2>2, <2>3
<1> QED
  BY <1>2, <1>3, <1>4, <1>6, <1>7, <1>8, <1>9 DEF Steps, j

LEMMA OneStep ==
  ASSUME NEW t, IsTask(t)
  PROVE  Steps(<<t>>)
<1>1. t \in TaskSet
  BY DEF IsTask
<1> QED
  BY <1>1 DEF Steps

LEMMA TwoSteps ==
  ASSUME NEW t, NEW u, IsTask(t), IsTask(u), Follows(t, u)
  PROVE  Steps(<<t, u>>)
<1> DEFINE s == <<t, u>>
<1>1. t \in TaskSet /\ u \in TaskSet
  BY DEF IsTask
<1>2. s \in Seq(TaskSet) /\ Len(s) = 2 /\ s[1] = t /\ s[2] = u
  BY <1>1
<1>3. \A i \in 1 .. Len(s) : i = 1 \/ i = 2
  BY <1>2
<1>4. \A i \in 1 .. Len(s) - 1 : i = 1
  BY <1>2
<1> HIDE DEF s
<1> QED
  BY <1>2, <1>3, <1>4 DEF Steps, s

LEMMA JoinStretch ==
  ASSUME NEW p, NEW s, NEW r, Stretch(s, p), Stretch(r, p)
  PROVE  Stretch(s \o r, p)
<1>1. Steps(s) /\ Steps(r)
  BY DEF Stretch
<1>2. s # << >> /\ r # << >> => Follows(s[Len(s)], r[1])
  BY DEF Stretch, Follows
<1> DEFINE j == s \o r
<1>3. /\ Steps(j)
      /\ s = << >> => j = r
      /\ r = << >> => j = s
      /\ s # << >> => j # << >> /\ j[1] = s[1]
      /\ r # << >> => j # << >> /\ j[Len(j)] = r[Len(r)]
  BY <1>1, <1>2, JoinSteps
<1> HIDE DEF j
<1>4. Stretch(j, p)
  BY <1>3 DEF Stretch
<1> QED
  BY <1>4 DEF j

\* The tasks s come before what is left to do.
LEMMA StretchThenWalk ==
  ASSUME NEW p, NEW s, NEW r, Stretch(s, p), Walk(r),
         r # << >> /\ Starts(r[1]) /\ Before(r[1]) = p
  PROVE  /\ Walk(s \o r) /\ s \o r # << >>
         /\ Starts((s \o r)[1]) /\ Before((s \o r)[1]) = p
<1>1. Steps(s) /\ Steps(r)
  BY DEF Stretch, Walk
<1>2. s # << >> /\ r # << >> => Follows(s[Len(s)], r[1])
  BY DEF Stretch, Follows
<1> DEFINE j == s \o r
<1>3. /\ Steps(j)
      /\ s = << >> => j = r
      /\ s # << >> => j # << >> /\ j[1] = s[1]
      /\ j # << >> /\ j[Len(j)] = r[Len(r)]
  BY <1>1, <1>2, JoinSteps
<1> HIDE DEF j
<1>4. Walk(j) /\ j # << >> /\ Starts(j[1]) /\ Before(j[1]) = p
  BY <1>3 DEF Stretch, Walk
<1> QED
  BY <1>4 DEF j

LEMMA WalkTail ==
  ASSUME NEW s, Walk(s), s # << >>, s[1].op # "stat"
  PROVE  /\ Walk(Tail(s)) /\ Head(s) = s[1] /\ IsTask(s[1])
         /\ Linked(s[1], Tail(s))
<1>1. s \in Seq(TaskSet) /\ Len(s) \in Nat /\ Len(s) >= 1 /\ Head(s) = s[1]
  BY DEF Walk, Steps
<1> DEFINE r == Tail(s)
<1>2. r \in Seq(TaskSet) /\ Len(r) = Len(s) - 1 /\ \A i \in 1 .. Len(r) : r[i] = s[i + 1]
  BY <1>1
<1> HIDE DEF r
<1>3. Steps(r)
  <2>1. \A i \in 1 .. Len(r) : i + 1 \in 1 .. Len(s)
    BY <1>1, <1>2
  <2>2. \A i \in 1 .. Len(r) : IsTask(r[i])
    BY <1>2, <2>1 DEF Walk, Steps
  <2>3. ASSUME NEW i \in 1 .. Len(r) - 1 PROVE Follows(r[i], r[i + 1])
    <3>1. i + 1 \in 1 .. Len(s) - 1 /\ i \in 1 .. Len(r) /\ i + 1 \in 1 .. Len(r)
      BY <1>1, <1>2
    <3>2. r[i] = s[i + 1] /\ r[i + 1] = s[i + 1 + 1]
      BY <1>2, <3>1
    <3> QED
      BY <3>1, <3>2 DEF Walk, Steps
  <2> QED
    BY <1>2, <2>2, <2>3 DEF Steps
<1>4. CASE r = << >>
  <2>1. Len(s) = 1
    BY <1>1, <1>2, <1>4
  <2> QED
    BY <1>1, <1>3, <1>4, <2>1 DEF Walk, Linked, r, Steps
<1>5. CASE r # << >>
  <2>1. Len(r) >= 1 /\ 1 \in 1 .. Len(r) /\ Len(r) \in 1 .. Len(r) /\ 1 \in 1 .. Len(s) - 1
    BY <1>1, <1>2, <1>5
  <2>2. r[1] = s[1 + 1] /\ r[Len(r)] = s[Len(r) + 1] /\ Len(r) + 1 = Len(s)
    BY <1>1, <1>2, <2>1
  <2>3. Follows(s[1], r[1])
    BY <2>1, <2>2 DEF Walk, Steps
  <2>4. IsTask(s[1])
    BY <1>1 DEF Walk, Steps
  <2>5. Walk(r)
    BY <1>3, <2>2, <1>5 DEF Walk
  <2> QED
    BY <1>1, <1>5, <2>3, <2>4, <2>5 DEF Linked, r
<1> QED
  BY <1>4, <1>5

-----------------------------------------------------------------------------
(***************************************************************************)
(* The entries of a directory, one after the other.                        *)
(***************************************************************************)
LEMMA FlattenUnfold ==
  ASSUME NEW s, NEW n \in Nat, Len(s) = n, n # 0
  PROVE  \E f : /\ f[1] = s[1]
                /\ \A i \in 1 .. n - 1 : f[i + 1] = f[i] \o s[i + 1]
                /\ FlattenSeq(s) = f[n]
<1> DEFINE more(e, i) == e \o s[i]
           eq(f, k) == [i \in 1 .. k |-> IF i = 1 THEN s[i] ELSE more(f[i - 1], i)]
           S == {k \in 0 .. n : \E f : f = eq(f, k)}
<1> HIDE DEF more
<1>1. 0 \in S
  <2> DEFINE f == [i \in 1 .. 0 |-> s[i]]
  <2>1. f = eq(f, 0)
    OBVIOUS
  <2> HIDE DEF f, eq
  <2>2. \E h : h = eq(h, 0)
    BY <2>1
  <2> QED
    BY <2>2
<1>2. ASSUME NEW k \in 0 .. n - 1, k \in S
      PROVE  k + 1 \in S
  <2>1. PICK f : f = eq(f, k)
    BY <1>2
  <2> DEFINE last == IF k = 0 THEN s[1] ELSE more(f[k], k + 1)
             r == [i \in 1 .. k + 1 |-> IF i = k + 1 THEN last ELSE f[i]]
  <2>2. r = eq(r, k + 1)
    <3>1. \A i \in 1 .. k : r[i] = f[i]
      OBVIOUS
    <3>2. \A i \in 1 .. k : f[i] = IF i = 1 THEN s[i] ELSE more(f[i - 1], i)
      BY <2>1
    <3>3. \A i \in 1 .. k + 1 :
            r[i] = IF i = 1 THEN s[i] ELSE more(r[i - 1], i)
      <4> TAKE i \in 1 .. k + 1
      <4>1. CASE i = k + 1 /\ k = 0
        BY <4>1
      <4>2. CASE i = k + 1 /\ k # 0
        <5>1. r[i] = more(f[k], k + 1) /\ r[k] = f[k] /\ i - 1 = k /\ i # 1
          BY <4>2, <3>1
        <5> HIDE DEF r
        <5> QED
          BY <4>2, <5>1
      <4>3. CASE i = 1 /\ i # k + 1
        BY <4>3, <3>2
      <4>4. CASE i \in 2 .. k
        <5>1. r[i] = f[i] /\ r[i - 1] = f[i - 1]
          BY <4>4, <3>1
        <5> HIDE DEF r
        <5> QED
          BY <4>4, <3>2, <5>1
      <4> QED
        BY <4>1, <4>2, <4>3, <4>4
    <3> DEFINE e == eq(r, k + 1)
    <3>4. \A i \in 1 .. k + 1 : r[i] = e[i]
      <4> HIDE DEF r
      <4> QED
        BY <3>3
    <3>5. DOMAIN r = 1 .. k + 1 /\ DOMAIN e = 1 .. k + 1
          /\ r = [i \in DOMAIN r |-> r[i]] /\ e = [i \in DOMAIN e |-> e[i]]
      OBVIOUS
    <3> HIDE DEF r, e
    <3>6. r = e
      BY <3>4, <3>5
    <3> QED
      BY <3>6 DEF e
  <2> HIDE DEF r
  <2> QED
    BY <2>2
<1>3. 0 .. n \subseteq S
  <2> HIDE DEF S
  <2> QED
    BY <1>1, <1>2, Upwards
<1>4. PICK f : f = eq(f, n)
  BY <1>3
<1> DEFINE g == CHOOSE h : h = eq(h, n)
<1>5. g = eq(g, n)
  <2> HIDE DEF eq
  <2> QED
    BY <1>4
<1>6. FlattenSeq(s) = g[n]
  BY DEF FlattenSeq, more
<1>7. \A i \in 1 .. n : g[i] = IF i = 1 THEN s[i] ELSE more(g[i - 1], i)
  BY <1>5
<1> HIDE DEF g, eq, S
<1>8. g[1] = s[1]
  BY <1>7
<1>9. \A i \in 1 .. n - 1 : g[i + 1] = more(g[i], i + 1)
  <2> TAKE i \in 1 .. n - 1
  <2>1. i + 1 \in 1 .. n /\ i + 1 # 1 /\ i + 1 - 1 = i
    OBVIOUS
  <2> QED
    BY <1>7, <2>1
<1> QED
  BY <1>6, <1>8, <1>9 DEF more

LEMMA FlattenStretch ==
  ASSUME NEW p, NEW n \in Nat, NEW s, Len(s) = n, n = 0 => s = << >>,
         \A i \in 1 .. n : Stretch(s[i], p)
  PROVE  Stretch(FlattenSeq(s), p)
<1>1. CASE n = 0
  <2>1. FlattenSeq(s) = << >>
    BY <1>1 DEF FlattenSeq
  <2> QED
    BY <2>1 DEF Stretch, Steps
<1>2. CASE n # 0
  <2>1. PICK f : /\ f[1] = s[1]
                 /\ \A i \in 1 .. n - 1 : f[i + 1] = f[i] \o s[i + 1]
                 /\ FlattenSeq(s) = f[n]
    BY <1>2, FlattenUnfold
  <2> DEFINE S == {i \in 0 .. n : i # 0 => Stretch(f[i], p)}
  <2>2. ASSUME NEW i \in 0 .. n - 1, i \in S
        PROVE  i + 1 \in S
    <3>1. i \in Nat /\ i + 1 \in 1 .. n /\ i + 1 \in 0 .. n
      OBVIOUS
    <3>4. Stretch(s[i + 1], p)
      BY <3>1
    <3>5. Stretch(f[i + 1], p) => i + 1 \in S
      BY <3>1
    <3>6. i # 0 => Stretch(f[i], p)
      BY <2>2
    <3> HIDE DEF S
    <3>2. CASE i = 0
      <4>1. f[i + 1] = s[i + 1]
        BY <2>1, <3>1, <3>2
      <4> QED
        BY <3>4, <3>5, <4>1
    <3>3. CASE i # 0
      <4>1. i \in 1 .. n - 1
        BY <3>1, <3>3
      <4>3. f[i + 1] = f[i] \o s[i + 1]
        BY <2>1, <4>1
      <4>2. Stretch(f[i] \o s[i + 1], p)
        <5>1. Stretch(f[i], p)
          BY <3>3, <3>6
        <5> QED
          BY <3>4, <5>1, JoinStretch
      <4> QED
        BY <3>5, <4>2, <4>3
    <3> QED
      BY <3>2, <3>3
  <2>3. 0 \in S
    OBVIOUS
  <2>4. 0 .. n \subseteq S
    <3> HIDE DEF S
    <3> QED
      BY <2>2, <2>3, Upwards
  <2> QED
    BY <1>2, <2>1, <2>4
<1> QED
  BY <1>1, <1>2

LEMMA EntriesAre ==
  ASSUME NEW S, IsFiniteSet(S)
  PROVE  /\ Cardinality(S) \in Nat
         /\ SetToSeq(S) \in [1 .. Cardinality(S) -> S]
<1>1. PICK n \in Nat : n = Cardinality(S) /\ ExistsBijection(1 .. n, S)
  BY FS_CardinalityType
<1>2. PICK f : f \in Bijection(1 .. n, S)
  BY <1>1 DEF ExistsBijection
<1>3. f \in [1 .. n -> S] /\ IsInjective(f)
  BY <1>2 DEF Bijection, Injection, IsInjective
<1> QED
  BY <1>1, <1>3 DEF SetToSeq

LEMMA OneTask ==
  ASSUME SourceTree, NEW p \in DOMAIN src, NEW op \in Ops
  PROVE  Task(op, p) \in TaskSet /\ Task(op, p).op = op /\ Task(op, p).path = p
<1>1. p \in Paths /\ Len(src[p].content) \in Nat
  BY DEF SourceTree
<1> QED
  BY <1>1 DEF Task, TaskSet

LEMMA TasksStretch ==
  ASSUME SourceTree, NEW p \in DOMAIN src
  PROVE  Stretch(Tasks(p), Front(p)) /\ Tasks(p) # << >>
<1> DEFINE tT == Task("T", p)
           tD == Task("D", p)
           tL == Task("list", p)
           tC == Task("C", p)
           tA == Task("data", p)
<1>1. /\ tT \in TaskSet /\ tT.op = "T" /\ tT.path = p
      /\ tD \in TaskSet /\ tD.op = "D" /\ tD.path = p
      /\ tL \in TaskSet /\ tL.op = "list" /\ tL.path = p
      /\ tC \in TaskSet /\ tC.op = "C" /\ tC.path = p
      /\ tA \in TaskSet /\ tA.op = "data" /\ tA.path = p
      /\ tA.size = tC.size
  <2>1. tA.size = tC.size
    BY DEF Task
  <2> QED
    BY <2>1, OneTask DEF Ops
<1>2. Tasks(p) = (IF times THEN <<tT>> ELSE << >>)
                    \o (IF src[p].dir THEN <<tD, tL>> ELSE <<tC, tA>>)
  BY DEF Tasks
<1> HIDE DEF tT, tD, tL, tC, tA
<1> DEFINE s == IF times THEN <<tT>> ELSE << >>
           r == IF src[p].dir THEN <<tD, tL>> ELSE <<tC, tA>>
<1>3. /\ Steps(r) /\ r # << >>
      /\ r[1].op \in {"C", "D"} /\ r[1].path = p /\ Before(r[1]) = Front(p)
      /\ Ends(r[Len(r)]) /\ Behind(r[Len(r)]) = Front(p)
  <2>1. CASE src[p].dir
    <3>1. IsTask(tD) /\ IsTask(tL) /\ Follows(tD, tL)
      BY <1>1, <2>1 DEF IsTask, Follows, Before, Behind
    <3>2. Steps(<<tD, tL>>)
      BY <3>1, TwoSteps
    <3> QED
      BY <1>1, <2>1, <3>2 DEF Before, Behind, Ends
  <2>2. CASE ~src[p].dir
    <3>1. IsTask(tC) /\ IsTask(tA) /\ Follows(tC, tA)
      BY <1>1, <2>2 DEF IsTask, Follows, Before, Behind
    <3>2. Steps(<<tC, tA>>)
      BY <3>1, TwoSteps
    <3> QED
      BY <1>1, <2>2, <3>2 DEF Before, Behind, Ends
  <2> QED
    BY <2>1, <2>2
<1>4. Steps(s)
  <2>1. times => Steps(<<tT>>)
    BY <1>1, OneStep DEF IsTask
  <2>2. Steps(<< >>)
    BY DEF Steps
  <2> QED
    BY <2>1, <2>2
<1>5. times => s # << >> /\ s[1] = tT /\ s[Len(s)] = tT
  OBVIOUS
<1>6. ~times => s = << >>
  OBVIOUS
<1> HIDE DEF s, r
<1>7. s # << >> /\ r # << >> => Follows(s[Len(s)], r[1])
  BY <1>1, <1>3, <1>5, <1>6 DEF Follows, Before, Behind
<1> DEFINE j == s \o r
<1>8. /\ Steps(j)
      /\ s = << >> => j = r
      /\ s # << >> => j # << >> /\ j[1] = s[1]
      /\ j # << >> /\ j[Len(j)] = r[Len(r)]
  BY <1>3, <1>4, <1>7, JoinSteps
<1> HIDE DEF j
<1>9. Starts(j[1]) /\ Before(j[1]) = Front(p)
  BY <1>1, <1>3, <1>5, <1>6, <1>8 DEF Starts, Before
<1>10. Stretch(j, Front(p)) /\ j # << >>
  BY <1>3, <1>8, <1>9 DEF Stretch
<1> QED
  BY <1>2, <1>10 DEF j, s, r

\* What the source makes of a directory that it has read.
Listed(p) ==
  FlattenSeq([i \in DOMAIN SetToSeq(Children(p)) |-> Tasks(SetToSeq(Children(p))[i])])

LEMMA ListedStretch ==
  ASSUME SourceTree, NEW p
  PROVE  Stretch(Listed(p), p)
<1> DEFINE q == SetToSeq(Children(p))
           n == Cardinality(Children(p))
           s == [i \in DOMAIN q |-> Tasks(q[i])]
<1>1. IsFiniteSet(Children(p))
  <2>1. Children(p) \subseteq DOMAIN src
    BY DEF Children
  <2> QED
    BY <2>1, FS_Subset DEF SourceTree
<1>2. n \in Nat /\ q \in [1 .. n -> Children(p)]
  BY <1>1, EntriesAre
<1> HIDE DEF q, n
<1>3. \A i \in 1 .. n : q[i] \in DOMAIN src /\ Front(q[i]) = p
  BY <1>2 DEF Children
<1>4. s = [i \in 1 .. n |-> Tasks(q[i])]
  BY <1>2
<1>5. Len(s) = n /\ (n = 0 => s = << >>)
  BY <1>2, <1>4
<1>6. \A i \in 1 .. n : Stretch(s[i], p)
  <2>1. \A i \in 1 .. n : Stretch(Tasks(q[i]), Front(q[i]))
    BY <1>3, TasksStretch
  <2> QED
    BY <1>3, <1>4, <2>1
<1> HIDE DEF s
<1>7. Stretch(FlattenSeq(s), p)
  BY <1>2, <1>5, <1>6, FlattenStretch
<1> QED
  BY <1>7 DEF Listed, s, q

=============================================================================
