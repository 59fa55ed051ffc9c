---------------------------- MODULE SCPCopyProofs ----------------------------
(***************************************************************************)
(* A transfer is a recursive copy, and a file that changed does not arrive *)
(* in part unnoticed.  The first part of the invariant says that what the  *)
(* source has still to create is not there, so that a node arrives once    *)
(* and nothing that is there is written over.  The second one says that    *)
(* no node is forgotten: as long as the source has not to learn of an      *)
(* error each node is still to be sent, on its way, or complete.           *)
(***************************************************************************)
EXTENDS SCPConversationProofs

-----------------------------------------------------------------------------
(***************************************************************************)
(* What the source has still to do.                                        *)
(***************************************************************************)
\* The sequence s has a member of X, and at most one.
Meets(s, X) == \E i \in 1 .. Len(s) : s[i] \in X
AtMostOnce(s, X) == \A i, j \in 1 .. Len(s) : s[i] \in X /\ s[j] \in X => i = j

\* The tasks that lead to the creation of node p, and those that are to be done
\* before it is complete.
Creators(p) ==
  {t \in TaskSet : \/ t.op = "stat"
                   \/ t.op \in {"C", "D"} /\ t.path = p
                   \/ t.op = "list" /\ IsStrictPrefix(t.path, p)}
Makers(p) == Creators(p) \cup {t \in TaskSet : t.op = "data" /\ t.path = p}

DataNext == todo # << >> /\ todo[1].op = "data"

\* Node p is what the next message is about, or the file that is being received.
Coming(p) ==
  /\ phase = "header" /\ stream # << >>
  /\ stream[1].message.type \in {"C", "D"}
  /\ Target \o p = Append(dir, stream[1].message.name)
Busy == phase \in {"content", "end"}
Receiving(p) == Busy /\ file = Target \o p

-----------------------------------------------------------------------------
(***************************************************************************)
(* The first part.                                                         *)
(***************************************************************************)
Planned == \A p \in DOMAIN src : AtMostOnce(todo, Creators(p))

Fresh ==
  \A p \in DOMAIN src :
    /\ Meets(todo, Creators(p)) \/ Coming(p) => Target \o p \notin DOMAIN fs
    /\ Coming(p) => ~Meets(todo, Creators(p))

FileOpen ==
  Busy => \E p \in DOMAIN src :
            /\ Receiving(p) /\ ~src[p].dir
            /\ file \in DOMAIN fs /\ ~fs[file].dir
            /\ DataNext => todo[1].path = p

\* There is one root, and directories have no contents.
Rooted ==
  /\ \A p, q \in DOMAIN src : Len(p) = 1 /\ Len(q) = 1 => p = q
  /\ \A p \in DOMAIN src : src[p].dir => src[p].content = << >>
  /\ \A q \in DOMAIN fs : fs[q].dir => fs[q].content = << >>

Orderly ==
  /\ "t" \in opts /\ "f" \notin opts
  /\ Rooted
  /\ Nested
  /\ phase # "done" => IsDirectory(dir)
  /\ Planned /\ Fresh /\ FileOpen

-----------------------------------------------------------------------------
(***************************************************************************)
(* The second part.                                                        *)
(***************************************************************************)
\* The source will read an error before it is done: one that the sink has sent, or
\* will send for a line that is no message.
Doomed ==
  \/ waiting /\ phase = "done" /\ acks = <<"error">>
  \/ DataNext /\ phase = "done" /\ acks = (IF waiting THEN <<"ok">> ELSE << >>) \o <<"error">>
  \/ waiting /\ phase = "header" /\ acks = << >> /\ LineEnds # {} /\ NextMessage = Invalid

\* Unless it will, the sink goes on, and what it has not read is no message only
\* when it is the rest of a file that has grown.
Exchange ==
  /\ ~closed
  /\ phase = "done" => Doomed
  /\ phase = "header" /\ stream # << >> /\ stream[1].message = Invalid /\ ~Doomed =>
       /\ LineEnds = {}
       /\ acks = IF waiting THEN <<"ok">> ELSE << >>
       /\ todo # << >> => todo[1].op \in {"T", "C", "D", "E"}

\* What is at the target is the content of the node, or ends before a byte 0 of it.
Settled(p) ==
  LET old == src[p].content
      new == fs[Target \o p].content
  IN  \/ new = old
      \/ IsStrictPrefix(new, old) /\ old[Len(new) + 1] = "nul"
Complete(p) == Arrived(p) /\ Settled(p)

Progress ==
  ~Doomed => \A p \in DOMAIN src :
               Meets(todo, Makers(p)) \/ Coming(p) \/ Receiving(p) \/ Complete(p)

KindsOf(s) == [i \in 1 .. Len(s) |-> s[i].kind]

\* What has been written, what has been sent and what is to be sent of a file.
Filling(p) ==
  LET f == fs[file]
      c == src[p].content
  IN  /\ times /\ phase = "content" => timeSet /\ time = src[p].time
      /\ times /\ phase = "end" => f.time = src[p].time
      /\ phase = "end" => left = 0
      /\ Changed(p) \/ Len(f.content) + left = Len(c)
      /\ IF DataNext THEN f.content = << >>
                     ELSE f.content \o KindsOf(stream) = c \o <<"nul">>

\* The node that the time is set for, if times are.
Due(p) ==
  /\ phase = "header"
  /\ \/ Coming(p)
     \/ stream = << >> /\ todo # << >> /\ todo[1].op \in {"C", "D"} /\ todo[1].path = p

Sized ==
  /\ \A i \in 1 .. Len(todo) : todo[i].op \in {"C", "data"} =>
       Changed(todo[i].path) \/ todo[i].size = Len(src[todo[i].path].content)
  /\ \A p \in DOMAIN src : Changed(p) \/ Len(src[p].content) < TwoTo63

Fills == \A p \in DOMAIN src : Receiving(p) => Filling(p)
OnTime == times => \A p \in DOMAIN src : Due(p) => time = src[p].time
Lively == Exchange /\ Progress /\ Fills /\ OnTime

\* The source has nothing left to do.
Finishing == outcome # "error" /\ todo = << >> /\ ~waiting
Success ==
  /\ \A p \in DOMAIN src : Complete(p)
  /\ phase \in {"header", "done"} /\ LineEnds = {}

CopyInv ==
  /\ client = "any" => outcome = "running"
  /\ client = "source" =>
       /\ Orderly
       /\ Sized
       /\ Live => Lively
       /\ Finishing => Success

-----------------------------------------------------------------------------
(***************************************************************************)
(* Sequences, and what is in them.                                         *)
(***************************************************************************)
LEMMA JoinIndices ==
  ASSUME NEW S, NEW s \in Seq(S), NEW r \in Seq(S)
  PROVE  /\ Len(s \o r) = Len(s) + Len(r) /\ Len(s) \in Nat /\ Len(r) \in Nat
         /\ \A i \in 1 .. Len(s) : i \in 1 .. Len(s \o r) /\ (s \o r)[i] = s[i]
         /\ \A i \in 1 .. Len(r) : Len(s) + i \in 1 .. Len(s \o r) /\ (s \o r)[Len(s) + i] = r[i]
         /\ \A k \in 1 .. Len(s \o r) :
              \/ k \in 1 .. Len(s)
              \/ \E i \in 1 .. Len(r) : k = Len(s) + i
<1>1. Len(s \o r) = Len(s) + Len(r) /\ Len(s) \in Nat /\ Len(r) \in Nat
  OBVIOUS
<1>2. \A i \in 1 .. Len(s) : (s \o r)[i] = s[i]
  OBVIOUS
<1>3. \A i \in 1 .. Len(r) : (s \o r)[Len(s) + i] = r[i]
  OBVIOUS
<1> DEFINE m == Len(s)
           n == Len(r)
           l == Len(s \o r)
<1>4. l = m + n /\ m \in Nat /\ n \in Nat
  BY <1>1
<1> HIDE DEF m, n, l
<1>5. /\ \A i \in 1 .. m : i \in 1 .. l
      /\ \A i \in 1 .. n : m + i \in 1 .. l
  BY <1>4
<1>6. ASSUME NEW k \in 1 .. l, k \notin 1 .. m
      PROVE  \E i \in 1 .. n : k = m + i
  <2>1. k - m \in 1 .. n /\ k = m + (k - m)
    BY <1>4, <1>6
  <2> QED
    BY <2>1
<1> QED
  BY <1>1, <1>2, <1>3, <1>5, <1>6 DEF m, n, l

LEMMA MeetsJoin ==
  ASSUME NEW S, NEW X, NEW s \in Seq(S), NEW r \in Seq(S)
  PROVE  /\ Meets(s \o r, X) <=> Meets(s, X) \/ Meets(r, X)
         /\ AtMostOnce(s, X) /\ AtMostOnce(r, X) /\ ~(Meets(s, X) /\ Meets(r, X)) =>
              AtMostOnce(s \o r, X)
<1> DEFINE j == s \o r
           m == Len(s)
           n == Len(r)
<1>1. /\ \A i \in 1 .. m : i \in 1 .. Len(j) /\ j[i] = s[i]
      /\ \A i \in 1 .. n : m + i \in 1 .. Len(j) /\ j[m + i] = r[i]
      /\ \A k \in 1 .. Len(j) : k \in 1 .. m \/ \E i \in 1 .. n : k = m + i
  BY JoinIndices
<1> HIDE DEF j, m, n
<1>2. Meets(j, X) <=> Meets(s, X) \/ Meets(r, X)
  BY <1>1 DEF Meets, m, n
<1>3. ASSUME AtMostOnce(s, X), AtMostOnce(r, X), ~(Meets(s, X) /\ Meets(r, X))
      PROVE  AtMostOnce(j, X)
  <2> SUFFICES ASSUME NEW k \in 1 .. Len(j), NEW l \in 1 .. Len(j), j[k] \in X, j[l] \in X
               PROVE  k = l
    BY DEF AtMostOnce
  <2>1. CASE k \in 1 .. m /\ l \in 1 .. m
    BY <1>1, <1>3, <2>1 DEF AtMostOnce, m
  <2>2. CASE k \in 1 .. m /\ l \notin 1 .. m
    BY <1>1, <1>3, <2>2 DEF Meets, m, n
  <2>3. CASE k \notin 1 .. m /\ l \in 1 .. m
    BY <1>1, <1>3, <2>3 DEF Meets, m, n
  <2>4. CASE k \notin 1 .. m /\ l \notin 1 .. m
    <3>1. PICK a \in 1 .. n : k = m + a
      BY <1>1, <2>4
    <3>2. PICK b \in 1 .. n : l = m + b
      BY <1>1, <2>4
    <3>3. r[a] \in X /\ r[b] \in X
      BY <1>1, <3>1, <3>2
    <3>4. a = b
      BY <1>3, <3>3 DEF AtMostOnce, n
    <3> QED
      BY <3>1, <3>2, <3>4
  <2> QED
    BY <2>1, <2>2, <2>3, <2>4
<1> QED
  BY <1>2, <1>3 DEF j

LEMMA MeetsOne ==
  ASSUME NEW X, NEW t
  PROVE  (Meets(<<t>>, X) <=> t \in X) /\ AtMostOnce(<<t>>, X)
<1>1. Len(<<t>>) = 1 /\ <<t>>[1] = t
  OBVIOUS
<1> DEFINE s == <<t>>
<1> HIDE DEF s
<1>2. Len(s) = 1 /\ s[1] = t /\ \A i \in 1 .. 1 : i = 1
  BY <1>1 DEF s
<1>3. (Meets(s, X) <=> t \in X) /\ AtMostOnce(s, X)
  BY <1>2 DEF Meets, AtMostOnce
<1> QED
  BY <1>3 DEF s

LEMMA MeetsNone ==
  ASSUME NEW X
  PROVE  ~Meets(<< >>, X) /\ AtMostOnce(<< >>, X)
BY DEF Meets, AtMostOnce

LEMMA MeetsTail ==
  ASSUME NEW S, NEW X, NEW s \in Seq(S), s # << >>
  PROVE  /\ Meets(s, X) <=> s[1] \in X \/ Meets(Tail(s), X)
         /\ AtMostOnce(s, X) =>
              AtMostOnce(Tail(s), X) /\ ~(s[1] \in X /\ Meets(Tail(s), X))
<1> DEFINE r == Tail(s)
           n == Len(r)
<1>1. Len(s) = n + 1 /\ n \in Nat /\ \A i \in 1 .. n : r[i] = s[i + 1]
  OBVIOUS
<1> HIDE DEF r, n
<1>2. /\ 1 \in 1 .. Len(s)
      /\ \A i \in 1 .. n : i + 1 \in 1 .. Len(s) /\ i + 1 # 1
      /\ \A k \in 1 .. Len(s) : k = 1 \/ \E i \in 1 .. n : k = i + 1
  <2>1. \A i \in 1 .. n : i + 1 \in 1 .. n + 1 /\ i + 1 # 1
    BY <1>1
  <2>2. ASSUME NEW k \in 1 .. n + 1, k # 1 PROVE \E i \in 1 .. n : k = i + 1
    <3>1. k - 1 \in 1 .. n /\ k = (k - 1) + 1
      BY <1>1, <2>2
    <3> QED
      BY <3>1
  <2> QED
    BY <1>1, <2>1, <2>2
<1>3. Meets(s, X) <=> s[1] \in X \/ Meets(r, X)
  BY <1>1, <1>2 DEF Meets, n
<1>4. ASSUME AtMostOnce(s, X)
      PROVE  AtMostOnce(r, X) /\ ~(s[1] \in X /\ Meets(r, X))
  <2>1. ASSUME NEW k \in 1 .. n, NEW l \in 1 .. n, r[k] \in X, r[l] \in X
        PROVE  k = l
    <3>1. k + 1 = l + 1
      BY <1>1, <1>2, <1>4, <2>1 DEF AtMostOnce
    <3> QED
      BY <3>1
  <2>2. ASSUME NEW k \in 1 .. n, s[1] \in X, r[k] \in X PROVE FALSE
    BY <1>1, <1>2, <1>4, <2>2 DEF AtMostOnce
  <2> QED
    BY <2>1, <2>2 DEF AtMostOnce, Meets, n
<1> QED
  BY <1>3, <1>4 DEF r

LEMMA MeetsFlatten ==
  ASSUME NEW S, NEW X, NEW n \in Nat, NEW s, Len(s) = n, n = 0 => s = << >>,
         \A i \in 1 .. n : s[i] \in Seq(S)
  PROVE  /\ FlattenSeq(s) \in Seq(S)
         /\ Meets(FlattenSeq(s), X) <=> \E i \in 1 .. n : Meets(s[i], X)
         /\ /\ \A i \in 1 .. n : AtMostOnce(s[i], X)
            /\ \A i, j \in 1 .. n : Meets(s[i], X) /\ Meets(s[j], X) => i = j
            => AtMostOnce(FlattenSeq(s), X)
<1> DEFINE H == /\ \A i \in 1 .. n : AtMostOnce(s[i], X)
                /\ \A i, j \in 1 .. n : Meets(s[i], X) /\ Meets(s[j], X) => i = j
<1>1. CASE n = 0
  <2>1. FlattenSeq(s) = << >>
    BY <1>1 DEF FlattenSeq
  <2>2. ~ \E i \in 1 .. n : Meets(s[i], X)
    BY <1>1
  <2>3. << >> \in Seq(S)
    OBVIOUS
  <2> QED
    BY <2>1, <2>2, <2>3, MeetsNone
<1>2. CASE n # 0
  <2>1. PICK f : /\ f[1] = s[1]
                 /\ \A i \in 1 .. n - 1 : f[i + 1] = f[i] \o s[i + 1]
                 /\ FlattenSeq(s) = f[n]
    BY <1>2, FlattenUnfold
  <2> DEFINE G(k) == /\ f[k] \in Seq(S)
                     /\ Meets(f[k], X) <=> \E i \in 1 .. k : Meets(s[i], X)
                     /\ H => AtMostOnce(f[k], X)
             U == {k \in 0 .. n : k # 0 => G(k)}
  <2>2. ASSUME NEW k \in 0 .. n - 1, k \in U
        PROVE  k + 1 \in U
    <3>1. k \in Nat /\ k + 1 \in 1 .. n /\ k + 1 \in 0 .. n
      OBVIOUS
    <3>2. s[k + 1] \in Seq(S) /\ (H => AtMostOnce(s[k + 1], X))
      BY <3>1
    <3>3. G(k + 1) => k + 1 \in U
      BY <3>1
    <3>4. k # 0 => G(k)
      BY <2>2
    <3> HIDE DEF U
    <3>5. CASE k = 0
      <4>1. f[k + 1] = s[k + 1]
        BY <2>1, <3>1, <3>5
      <4>2. \A i \in 1 .. k + 1 : i = k + 1
        BY <3>5
      <4>3. k + 1 \in 1 .. k + 1
        BY <3>1
      <4>4. (\E i \in 1 .. k + 1 : Meets(s[i], X)) <=> Meets(s[k + 1], X)
        BY <4>2, <4>3
      <4>5. G(k + 1)
        BY <3>2, <4>1, <4>4
      <4> QED
        BY <3>3, <4>5
    <3>6. CASE k # 0
      <4>1. k \in 1 .. n - 1 /\ G(k)
        BY <3>1, <3>4, <3>6
      <4>2. f[k + 1] = f[k] \o s[k + 1]
        BY <2>1, <4>1
      <4> DEFINE a == f[k]
                 b == s[k + 1]
      <4>3. a \in Seq(S) /\ b \in Seq(S)
        BY <3>2, <4>1
      <4> HIDE DEF a, b
      <4>4. /\ a \o b \in Seq(S)
            /\ Meets(a \o b, X) <=> Meets(a, X) \/ Meets(b, X)
            /\ AtMostOnce(a, X) /\ AtMostOnce(b, X) /\ ~(Meets(a, X) /\ Meets(b, X)) =>
                 AtMostOnce(a \o b, X)
        BY <4>3, MeetsJoin
      <4>5. /\ \A i \in 1 .. k : i \in 1 .. n /\ i \in 1 .. k + 1 /\ i # k + 1
            /\ k + 1 \in 1 .. k + 1
            /\ \A i \in 1 .. k + 1 : i = k + 1 \/ i \in 1 .. k
        BY <3>1
      <4>6. Meets(a, X) <=> \E i \in 1 .. k : Meets(s[i], X)
        BY <4>1 DEF a
      <4>7. (\E i \in 1 .. k + 1 : Meets(s[i], X)) <=> Meets(a, X) \/ Meets(b, X)
        BY <4>5, <4>6 DEF b
      <4>8. H => ~(Meets(a, X) /\ Meets(b, X))
        BY <3>1, <4>5, <4>6 DEF b
      <4>9. H => AtMostOnce(a \o b, X)
        BY <3>2, <4>1, <4>4, <4>8 DEF a, b
      <4>10. f[k + 1] = a \o b
        BY <4>2 DEF a, b
      <4>11. G(k + 1)
        <5> HIDE DEF H
        <5> QED
          BY <4>4, <4>7, <4>9, <4>10
      <4> QED
        BY <3>3, <4>11
    <3> QED
      BY <3>5, <3>6
  <2>3. 0 \in U
    OBVIOUS
  <2>4. 0 .. n \subseteq U
    <3> HIDE DEF U
    <3> QED
      BY <2>2, <2>3, Upwards
  <2>5. n \in U
    BY <1>2, <2>4
  <2>6. G(n)
    BY <1>2, <2>5
  <2> QED
    BY <2>1, <2>6
<1> QED
  BY <1>1, <1>2

-----------------------------------------------------------------------------
(***************************************************************************)
(* The tree, and the tasks for it.                                         *)
(***************************************************************************)
\* The directories above a node are in the tree.
LEMMA AboveInTree ==
  ASSUME SourceTree, NEW p \in DOMAIN src
  PROVE  \A i \in 1 .. Len(p) - 1 :
           SubSeq(p, 1, i) \in DOMAIN src /\ src[SubSeq(p, 1, i)].dir
<1>1. p \in Seq(Names) /\ p # << >> /\ Len(p) \in Nat /\ Len(p) >= 1
  BY DEF SourceTree, Paths
<1> DEFINE n == Len(p) - 1
           U == {k \in 0 .. n : \/ k = 0
                                \/ /\ SubSeq(p, 1, Len(p) - k) \in DOMAIN src
                                   /\ src[SubSeq(p, 1, Len(p) - k)].dir}
<1>2. n \in Nat
  BY <1>1
<1>3. ASSUME NEW k \in 0 .. n - 1, k \in U
      PROVE  k + 1 \in U
  <2> DEFINE q == SubSeq(p, 1, Len(p) - k)
  <2>1. k \in Nat /\ k + 1 \in 0 .. n /\ Len(p) - k > 1 /\ Len(p) - k \in 1 .. Len(p)
    BY <1>1, <1>2
  <2>2. q \in DOMAIN src
    <3>1. CASE k = 0
      <4>1. Len(p) - k = Len(p)
        BY <1>1, <3>1
      <4>2. SubSeq(p, 1, Len(p)) = p
        BY <1>1, SubSeqFull
      <4> QED
        BY <4>1, <4>2
    <3>2. CASE k # 0
      BY <1>3, <3>2
    <3> QED
      BY <3>1, <3>2
  <2> PICK m : m = Len(p) - k
    OBVIOUS
  <2>3. m \in 1 .. Len(p) /\ m > 1 /\ q = SubSeq(p, 1, m)
    BY <2>1
  <2>4. Len(SubSeq(p, 1, m)) = m
    BY <1>1, <2>3
  <2>5. Len(q) = m
    BY <2>3, <2>4
  <2>6. Front(q) = SubSeq(q, 1, m - 1)
    BY <2>5 DEF Front
  <2>7. SubSeq(SubSeq(p, 1, m), 1, m - 1) = SubSeq(p, 1, m - 1)
    BY <1>1, <2>3
  <2>8. Front(q) \in DOMAIN src /\ src[Front(q)].dir
    BY <2>2, <2>3, <2>5 DEF SourceTree
  <2>9. m - 1 = Len(p) - (k + 1)
    BY <1>1, <2>1
  <2>10. SubSeq(p, 1, Len(p) - (k + 1)) = Front(q)
    BY <2>3, <2>6, <2>7, <2>9
  <2> QED
    BY <2>1, <2>8, <2>10
<1>4. 0 \in U
  BY <1>2
<1>5. 0 .. n \subseteq U
  <2> HIDE DEF U, n
  <2> QED
    BY <1>2, <1>3, <1>4, Upwards
<1>6. ASSUME NEW i \in 1 .. Len(p) - 1
      PROVE  SubSeq(p, 1, i) \in DOMAIN src /\ src[SubSeq(p, 1, i)].dir
  <2>1. Len(p) - i \in 0 .. n /\ Len(p) - i # 0 /\ Len(p) - (Len(p) - i) = i
    BY <1>1
  <2>2. Len(p) - i \in U
    BY <1>5, <2>1
  <2> QED
    BY <2>1, <2>2
<1> QED
  BY <1>6

\* A node that is below another one of the tree is in it through its directory.
LEMMA Below ==
  ASSUME SourceTree, NEW p \in Paths, NEW r \in DOMAIN src
  PROVE  /\ IsStrictPrefix(p, r) <=> Len(p) < Len(r) /\ SubSeq(r, 1, Len(p)) = p
         /\ p # << >> /\ IsStrictPrefix(p, r) => p \in DOMAIN src /\ src[p].dir
<1>1. r \in Paths /\ Len(p) \in Nat /\ Len(r) \in Nat
  BY DEF SourceTree, Paths
<1>2. SubSeq(p, 1, Len(p)) = p /\ SubSeq(r, 1, Len(r)) = r
  BY <1>1, SubSeqFull DEF Paths
<1>3. IsStrictPrefix(p, r) <=> Len(p) < Len(r) /\ SubSeq(r, 1, Len(p)) = p
  BY <1>1, <1>2 DEF IsStrictPrefix, IsPrefix
<1>4. ASSUME p # << >>, IsStrictPrefix(p, r)
      PROVE  p \in DOMAIN src /\ src[p].dir
  <2>1. Len(p) # 0
    BY <1>4 DEF Paths
  <2>2. Len(p) \in 1 .. Len(r) - 1
    BY <1>1, <1>3, <1>4, <2>1
  <2> QED
    BY <1>3, <1>4, <2>2, AboveInTree
<1> QED
  BY <1>3, <1>4

LEMMA MeetsPair ==
  ASSUME NEW X, NEW t, NEW u
  PROVE  /\ Meets(<<t, u>>, X) <=> t \in X \/ u \in X
         /\ ~(t \in X /\ u \in X) => AtMostOnce(<<t, u>>, X)
<1>1. Len(<<t, u>>) = 2 /\ <<t, u>>[1] = t /\ <<t, u>>[2] = u
  OBVIOUS
<1> DEFINE s == <<t, u>>
<1> HIDE DEF s
<1>2. Len(s) = 2 /\ s[1] = t /\ s[2] = u
  BY <1>1 DEF s
<1>3. 1 \in 1 .. 2 /\ 2 \in 1 .. 2 /\ \A i \in 1 .. 2 : i = 1 \/ i = 2
  OBVIOUS
<1>4. Meets(s, X) <=> t \in X \/ u \in X
  BY <1>2, <1>3 DEF Meets
<1>5. ~(t \in X /\ u \in X) => AtMostOnce(s, X)
  BY <1>2, <1>3 DEF AtMostOnce
<1> QED
  BY <1>4, <1>5 DEF s

\* The tasks for node q lead to q and to what is below it, to each once.
LEMMA TasksMeet ==
  ASSUME SourceTree, NEW q \in DOMAIN src, NEW r \in DOMAIN src
  PROVE  /\ Tasks(q) \in Seq(TaskSet)
         /\ Meets(Tasks(q), Creators(r)) <=> q = r \/ IsStrictPrefix(q, r)
         /\ Meets(Tasks(q), Makers(r)) <=> q = r \/ IsStrictPrefix(q, r)
         /\ AtMostOnce(Tasks(q), Creators(r))
<1> DEFINE tT == Task("T", q)
           tD == Task("D", q)
           tL == Task("list", q)
           tC == Task("C", q)
           tA == Task("data", q)
<1>1. /\ tT \in TaskSet /\ tT.op = "T" /\ tT.path = q
      /\ tD \in TaskSet /\ tD.op = "D" /\ tD.path = q
      /\ tL \in TaskSet /\ tL.op = "list" /\ tL.path = q
      /\ tC \in TaskSet /\ tC.op = "C" /\ tC.path = q
      /\ tA \in TaskSet /\ tA.op = "data" /\ tA.path = q
  BY OneTask DEF Ops
<1>2. Tasks(q) = (IF times THEN <<tT>> ELSE << >>)
                    \o (IF src[q].dir THEN <<tD, tL>> ELSE <<tC, tA>>)
  BY DEF Tasks
<1> HIDE DEF tT, tD, tL, tC, tA
<1> DEFINE s == IF times THEN <<tT>> ELSE << >>
           w == IF src[q].dir THEN <<tD, tL>> ELSE <<tC, tA>>
           C == Creators(r)
           M == Makers(r)
<1>3. q \in Paths /\ q # << >> /\ (IsStrictPrefix(q, r) => src[q].dir)
  BY Below DEF SourceTree
<1>4. ~IsStrictPrefix(q, q) /\ (IsStrictPrefix(q, r) => q # r)
  BY DEF IsStrictPrefix
<1>5. /\ tT \notin C /\ tT \notin M
      /\ tD \in C <=> q = r
      /\ tD \in M <=> q = r
      /\ tC \in C <=> q = r
      /\ tC \in M <=> q = r
      /\ tL \in C <=> IsStrictPrefix(q, r)
      /\ tL \in M <=> IsStrictPrefix(q, r)
      /\ tA \notin C
      /\ tA \in M <=> q = r
  BY <1>1 DEF Creators, Makers
<1> HIDE DEF C, M
<1>6. ~Meets(s, C) /\ AtMostOnce(s, C) /\ ~Meets(s, M) /\ s \in Seq(TaskSet)
  <2>1. /\ ~Meets(<<tT>>, C) /\ AtMostOnce(<<tT>>, C) /\ ~Meets(<<tT>>, M)
        /\ ~Meets(<< >>, C) /\ AtMostOnce(<< >>, C) /\ ~Meets(<< >>, M)
    BY <1>5, MeetsOne, MeetsNone
  <2>2. <<tT>> \in Seq(TaskSet)
    BY <1>1
  <2> QED
    BY <2>1, <2>2
<1>7. /\ Meets(w, C) <=> q = r \/ IsStrictPrefix(q, r)
      /\ Meets(w, M) <=> q = r \/ IsStrictPrefix(q, r)
      /\ AtMostOnce(w, C) /\ w \in Seq(TaskSet)
  <2>1. /\ Meets(<<tD, tL>>, C) <=> tD \in C \/ tL \in C
        /\ Meets(<<tD, tL>>, M) <=> tD \in M \/ tL \in M
        /\ ~(tD \in C /\ tL \in C) => AtMostOnce(<<tD, tL>>, C)
    BY <1>1, MeetsPair
  <2>2. /\ Meets(<<tC, tA>>, C) <=> tC \in C \/ tA \in C
        /\ Meets(<<tC, tA>>, M) <=> tC \in M \/ tA \in M
        /\ ~(tC \in C /\ tA \in C) => AtMostOnce(<<tC, tA>>, C)
    BY <1>1, MeetsPair
  <2>3. <<tD, tL>> \in Seq(TaskSet) /\ <<tC, tA>> \in Seq(TaskSet)
    BY <1>1
  <2>4. CASE src[q].dir
    BY <1>4, <1>5, <2>1, <2>3, <2>4
  <2>5. CASE ~src[q].dir
    BY <1>3, <1>5, <2>2, <2>3, <2>5
  <2> QED
    BY <2>4, <2>5
<1> HIDE DEF s, w
<1>8. /\ Meets(s \o w, C) <=> Meets(s, C) \/ Meets(w, C)
      /\ Meets(s \o w, M) <=> Meets(s, M) \/ Meets(w, M)
      /\ AtMostOnce(s, C) /\ AtMostOnce(w, C) /\ ~(Meets(s, C) /\ Meets(w, C)) =>
           AtMostOnce(s \o w, C)
  BY <1>6, <1>7, MeetsJoin
<1>9. s \o w \in Seq(TaskSet)
  BY <1>6, <1>7
<1>10. Tasks(q) = s \o w
  BY <1>2 DEF s, w
<1> QED
  BY <1>6, <1>7, <1>8, <1>9, <1>10 DEF C, M

LEMMA EntriesOnce ==
  ASSUME NEW S, IsFiniteSet(S)
  PROVE  /\ \A i, j \in 1 .. Cardinality(S) : SetToSeq(S)[i] = SetToSeq(S)[j] => i = j
         /\ \A x \in S : \E i \in 1 .. Cardinality(S) : SetToSeq(S)[i] = x
<1>1. PICK n \in Nat : n = Cardinality(S) /\ ExistsBijection(1 .. n, S)
  BY FS_CardinalityType
<1>2. PICK f : f \in Bijection(1 .. n, S)
  BY <1>1 DEF ExistsBijection
<1>3. f \in [1 .. n -> S] /\ IsInjective(f)
  BY <1>2 DEF Bijection, Injection, IsInjective
<1> DEFINE q == SetToSeq(S)
<1>4. q \in [1 .. n -> S] /\ IsInjective(q)
  BY <1>1, <1>3 DEF SetToSeq
<1> HIDE DEF q
<1>5. \A i, j \in 1 .. n : q[i] = q[j] => i = j
  BY <1>4 DEF IsInjective
<1>6. {q[i] : i \in 1 .. n} = S
  <2> DEFINE R == {q[i] : i \in 1 .. n}
  <2>1. R \subseteq S
    BY <1>4
  <2>2. q \in Bijection(1 .. n, R)
    BY <1>4, <1>5 DEF Bijection, Injection, Surjection, IsInjective
  <2>3. ExistsBijection(1 .. n, R)
    BY <2>2 DEF ExistsBijection
  <2> HIDE DEF R
  <2>4. IsFiniteSet(R) /\ Cardinality(R) = n
    <3>1. IsFiniteSet(R)
      BY <2>1, FS_Subset
    <3> QED
      BY <1>1, <2>3, <3>1, FS_CardinalityType, FS_CountingElements
  <2> QED
    BY <1>1, <2>1, <2>4, FS_Subset DEF R
<1> QED
  BY <1>1, <1>5, <1>6 DEF q

\* One entry of a directory leads to each node below it.
LEMMA EntryTowards ==
  ASSUME SourceTree, NEW p \in Paths, NEW r \in DOMAIN src
  PROVE  /\ \A c \in Children(p) :
              c = r \/ IsStrictPrefix(c, r) => /\ c = SubSeq(r, 1, Len(p) + 1)
                                               /\ IsStrictPrefix(p, r)
         /\ IsStrictPrefix(p, r) =>
              \E c \in Children(p) : c = r \/ IsStrictPrefix(c, r)
<1>1. r \in Paths /\ p \in Seq(Names) /\ r \in Seq(Names) /\ Len(p) \in Nat /\ Len(r) \in Nat
  BY DEF SourceTree, Paths
<1>2. IsStrictPrefix(p, r) <=> Len(p) < Len(r) /\ SubSeq(r, 1, Len(p)) = p
  BY Below
<1> PICK n \in Nat : n = Len(p)
  BY <1>1
<1>3. ASSUME NEW c \in Children(p), c = r \/ IsStrictPrefix(c, r)
      PROVE  c = SubSeq(r, 1, n + 1) /\ IsStrictPrefix(p, r)
  <2>1. c \in DOMAIN src /\ c \in Paths /\ Len(c) = n + 1 /\ Front(c) = p
    BY <1>3 DEF Children, SourceTree
  <2>2. n + 1 - 1 = n
    OBVIOUS
  <2>3. SubSeq(c, 1, n) = p
    BY <2>1, <2>2 DEF Front
  <2>4. Len(c) <= Len(r) /\ SubSeq(r, 1, n + 1) = c
    <3>1. CASE c = r
      <4>1. SubSeq(c, 1, Len(c)) = c
        BY <2>1, SubSeqFull DEF Paths
      <4> QED
        BY <1>1, <2>1, <3>1, <4>1
    <3>2. CASE IsStrictPrefix(c, r)
      <4>1. Len(c) < Len(r) /\ SubSeq(r, 1, Len(c)) = c
        BY <2>1, <3>2, Below
      <4> QED
        BY <1>1, <2>1, <4>1
    <3> QED
      BY <1>3, <3>1, <3>2
  <2>5. n + 1 <= Len(r)
    BY <2>1, <2>4
  <2>6. SubSeq(SubSeq(r, 1, n + 1), 1, n) = SubSeq(r, 1, n)
    BY <1>1, <2>5
  <2>7. SubSeq(r, 1, n) = p /\ n < Len(r)
    BY <1>1, <2>3, <2>4, <2>5, <2>6
  <2> QED
    BY <1>2, <2>4, <2>7
<1>4. ASSUME IsStrictPrefix(p, r)
      PROVE  \E c \in Children(p) : c = r \/ IsStrictPrefix(c, r)
  <2>1. n < Len(r) /\ SubSeq(r, 1, n) = p
    BY <1>2, <1>4
  <2> DEFINE c == SubSeq(r, 1, n + 1)
  <2>2. c \in Paths /\ Len(c) = n + 1 /\ SubSeq(c, 1, n) = SubSeq(r, 1, n)
    <3>1. SubSeq(r, 1, n + 1) \in Seq(Names) /\ Len(SubSeq(r, 1, n + 1)) = n + 1
      BY <1>1, <2>1
    <3>2. SubSeq(SubSeq(r, 1, n + 1), 1, n) = SubSeq(r, 1, n)
      BY <1>1, <2>1
    <3> QED
      BY <3>1, <3>2 DEF Paths
  <2>3. n + 1 - 1 = n
    OBVIOUS
  <2>4. Front(c) = p
    BY <2>1, <2>2, <2>3 DEF Front
  <2>5. c = r \/ (c \in DOMAIN src /\ n + 1 < Len(r))
    <3>1. CASE n + 1 = Len(r)
      <4>1. SubSeq(r, 1, Len(r)) = r
        BY <1>1, SubSeqFull
      <4> QED
        BY <3>1, <4>1
    <3>2. CASE n + 1 # Len(r)
      <4>1. n + 1 \in 1 .. Len(r) - 1 /\ n + 1 < Len(r)
        BY <1>1, <2>1, <3>2
      <4> QED
        BY <4>1, AboveInTree
    <3> QED
      BY <3>1, <3>2
  <2>6. c \in Children(p)
    BY <2>2, <2>4, <2>5 DEF Children
  <2>7. c = r \/ IsStrictPrefix(c, r)
    <3>1. CASE c # r
      <4>1. Len(c) < Len(r) /\ SubSeq(r, 1, Len(c)) = c
        BY <2>2, <2>5, <3>1
      <4> QED
        BY <2>2, <4>1, Below
    <3> QED
      BY <3>1
  <2> QED
    BY <2>6, <2>7
<1> QED
  BY <1>3, <1>4

\* What is made of a directory leads to what is below it, to each once.
LEMMA ListedMeet ==
  ASSUME SourceTree, NEW p \in Paths, NEW r \in DOMAIN src
  PROVE  /\ Listed(p) \in Seq(TaskSet)
         /\ Meets(Listed(p), Creators(r)) <=> IsStrictPrefix(p, r)
         /\ Meets(Listed(p), Makers(r)) <=> IsStrictPrefix(p, r)
         /\ AtMostOnce(Listed(p), Creators(r))
<1> DEFINE q == SetToSeq(Children(p))
           n == Cardinality(Children(p))
           s == [i \in DOMAIN q |-> Tasks(q[i])]
           C == Creators(r)
           M == Makers(r)
<1>1. IsFiniteSet(Children(p))
  <2>1. Children(p) \subseteq DOMAIN src
    BY DEF Children
  <2> QED
    BY <2>1, FS_Subset DEF SourceTree
<1>2. n \in Nat /\ q \in [1 .. n -> Children(p)]
  BY <1>1, EntriesAre
<1>3. /\ \A i, j \in 1 .. n : q[i] = q[j] => i = j
      /\ \A x \in Children(p) : \E i \in 1 .. n : q[i] = x
  BY <1>1, EntriesOnce
<1> HIDE DEF q, n
<1>4. \A i \in 1 .. n : q[i] \in DOMAIN src /\ q[i] \in Children(p)
  BY <1>2 DEF Children
<1>5. s = [i \in 1 .. n |-> Tasks(q[i])]
  BY <1>2
<1>6. Len(s) = n /\ (n = 0 => s = << >>)
  BY <1>2, <1>5
<1>7. \A i \in 1 .. n : /\ s[i] \in Seq(TaskSet)
                        /\ Meets(s[i], C) <=> q[i] = r \/ IsStrictPrefix(q[i], r)
                        /\ Meets(s[i], M) <=> q[i] = r \/ IsStrictPrefix(q[i], r)
                        /\ AtMostOnce(s[i], C)
  <2> TAKE i \in 1 .. n
  <2>1. s[i] = Tasks(q[i]) /\ q[i] \in DOMAIN src
    BY <1>4, <1>5
  <2> QED
    BY <2>1, TasksMeet
<1> HIDE DEF s, C, M
<1>8. \A i, j \in 1 .. n : Meets(s[i], C) /\ Meets(s[j], C) => i = j
  <2> SUFFICES ASSUME NEW i \in 1 .. n, NEW j \in 1 .. n, Meets(s[i], C), Meets(s[j], C)
               PROVE  i = j
    OBVIOUS
  <2>1. q[i] = SubSeq(r, 1, Len(p) + 1) /\ q[j] = SubSeq(r, 1, Len(p) + 1)
    BY <1>4, <1>7, EntryTowards
  <2> QED
    BY <1>3, <2>1
<1>9. /\ FlattenSeq(s) \in Seq(TaskSet)
      /\ Meets(FlattenSeq(s), C) <=> \E i \in 1 .. n : Meets(s[i], C)
      /\ AtMostOnce(FlattenSeq(s), C)
  BY <1>2, <1>6, <1>7, <1>8, MeetsFlatten
<1>10. Meets(FlattenSeq(s), M) <=> \E i \in 1 .. n : Meets(s[i], M)
  BY <1>2, <1>6, <1>7, MeetsFlatten
<1>11. (\E i \in 1 .. n : q[i] = r \/ IsStrictPrefix(q[i], r)) <=> IsStrictPrefix(p, r)
  <2>1. ASSUME NEW i \in 1 .. n, q[i] = r \/ IsStrictPrefix(q[i], r)
        PROVE  IsStrictPrefix(p, r)
    BY <1>4, <2>1, EntryTowards
  <2>2. ASSUME IsStrictPrefix(p, r)
        PROVE  \E i \in 1 .. n : q[i] = r \/ IsStrictPrefix(q[i], r)
    <3>1. PICK c \in Children(p) : c = r \/ IsStrictPrefix(c, r)
      BY <2>2, EntryTowards
    <3>2. PICK i \in 1 .. n : q[i] = c
      BY <1>3
    <3> QED
      BY <3>1, <3>2
  <2> QED
    BY <2>1, <2>2
<1>12. /\ (\E i \in 1 .. n : Meets(s[i], C)) <=> IsStrictPrefix(p, r)
       /\ (\E i \in 1 .. n : Meets(s[i], M)) <=> IsStrictPrefix(p, r)
  BY <1>7, <1>11
<1>13. Listed(p) = FlattenSeq(s)
  BY DEF Listed, s, q
<1> QED
  BY <1>9, <1>10, <1>12, <1>13 DEF C, M

\* The root is above every other node.
LEMMA RootIsTop ==
  ASSUME SourceTree, Rooted
  PROVE  /\ Top \in DOMAIN src /\ Len(Top) = 1
         /\ \A r \in DOMAIN src : Top = r \/ IsStrictPrefix(Top, r)
<1>1. Top \in DOMAIN src /\ Len(Top) = 1
  BY DEF Top, SourceTree
<1>2. ASSUME NEW r \in DOMAIN src
      PROVE  Top = r \/ IsStrictPrefix(Top, r)
  <2>1. r \in Seq(Names) /\ r # << >> /\ Len(r) \in Nat /\ Len(r) >= 1
    BY DEF SourceTree, Paths
  <2>2. CASE Len(r) = 1
    BY <1>1, <2>2 DEF Rooted
  <2>3. CASE Len(r) # 1
    <3>1. 1 \in 1 .. Len(r) - 1 /\ 1 < Len(r)
      <4>1. \A l \in Nat : l >= 1 /\ l # 1 => 1 \in 1 .. l - 1 /\ 1 < l
        OBVIOUS
      <4> QED
        BY <2>1, <2>3, <4>1
    <3>2. SubSeq(r, 1, 1) \in DOMAIN src
      BY <3>1, AboveInTree
    <3>3. Len(SubSeq(r, 1, 1)) = 1
      BY <2>1
    <3>4. SubSeq(r, 1, 1) = Top
      BY <1>1, <3>2, <3>3 DEF Rooted
    <3>5. Top \in Paths
      BY <1>1 DEF SourceTree
    <3> QED
      BY <1>1, <3>1, <3>4, <3>5, Below
  <2> QED
    BY <2>2, <2>3
<1> QED
  BY <1>1, <1>2

\* Reading a directory changes nothing of what is still to be created.
LEMMA ListsMeet ==
  ASSUME SourceTree, NEW s \in Seq(TaskSet), s # << >>, IsTask(s[1]), s[1].op = "list",
         NEW z, z = Listed(s[1].path) \o <<Task("E", s[1].path)>> \o Tail(s),
         NEW r \in DOMAIN src
  PROVE  /\ Meets(z, Creators(r)) <=> Meets(s, Creators(r))
         /\ Meets(z, Makers(r)) <=> Meets(s, Makers(r))
         /\ AtMostOnce(s, Creators(r)) => AtMostOnce(z, Creators(r))
<1> DEFINE p == s[1].path
           e == Task("E", p)
           l == Listed(p)
           w == Tail(s)
           C == Creators(r)
           M == Makers(r)
<1>1. p \in DOMAIN src /\ p \in Paths /\ s[1] \in TaskSet
  BY DEF IsTask, SourceTree
<1>2. e \in TaskSet /\ e.op = "E"
  BY <1>1, OneTask DEF Ops
<1>3. /\ s[1] \in C <=> IsStrictPrefix(p, r)
      /\ s[1] \in M <=> IsStrictPrefix(p, r)
      /\ e \notin C /\ e \notin M
  <2> HIDE DEF e
  <2> QED
    BY <1>1, <1>2 DEF Creators, Makers
<1>4. z = l \o <<e>> \o w /\ w \in Seq(TaskSet)
  OBVIOUS
<1>5. /\ l \in Seq(TaskSet)
      /\ Meets(l, C) <=> IsStrictPrefix(p, r)
      /\ Meets(l, M) <=> IsStrictPrefix(p, r)
      /\ AtMostOnce(l, C)
  BY <1>1, ListedMeet
<1>6. /\ Meets(s, C) <=> s[1] \in C \/ Meets(w, C)
      /\ Meets(s, M) <=> s[1] \in M \/ Meets(w, M)
      /\ AtMostOnce(s, C) => AtMostOnce(w, C) /\ ~(s[1] \in C /\ Meets(w, C))
  BY MeetsTail
<1> HIDE DEF p, e, l, w, C, M
<1> DEFINE a == <<e>>
<1>7. ~Meets(a, C) /\ ~Meets(a, M) /\ AtMostOnce(a, C) /\ a \in Seq(TaskSet)
  BY <1>2, <1>3, MeetsOne
<1> HIDE DEF a
<1> DEFINE b == l \o a
<1>8. /\ b \in Seq(TaskSet)
      /\ Meets(b, C) <=> IsStrictPrefix(p, r)
      /\ Meets(b, M) <=> IsStrictPrefix(p, r)
      /\ AtMostOnce(b, C)
  BY <1>5, <1>7, MeetsJoin
<1>9. z = b \o w
  BY <1>4 DEF a
<1> HIDE DEF b
<1>10. /\ Meets(b \o w, C) <=> Meets(b, C) \/ Meets(w, C)
       /\ Meets(b \o w, M) <=> Meets(b, M) \/ Meets(w, M)
       /\ AtMostOnce(b, C) /\ AtMostOnce(w, C) /\ ~(Meets(b, C) /\ Meets(w, C)) =>
            AtMostOnce(b \o w, C)
  BY <1>4, <1>8, MeetsJoin
<1> QED
  BY <1>3, <1>6, <1>8, <1>9, <1>10 DEF C, M

LEMMA StatsMeet ==
  ASSUME SourceTree, Rooted, NEW s \in Seq(TaskSet), s # << >>, s[1].op = "stat",
         NEW r \in DOMAIN src
  PROVE  /\ Meets(s, Creators(r)) /\ Meets(s, Makers(r))
         /\ Meets(Tasks(Top), Creators(r)) /\ Meets(Tasks(Top), Makers(r))
         /\ AtMostOnce(Tasks(Top), Creators(r))
<1>1. s[1] \in TaskSet
  OBVIOUS
<1>2. s[1] \in Creators(r) /\ s[1] \in Makers(r)
  BY <1>1 DEF Creators, Makers
<1>3. Meets(s, Creators(r)) /\ Meets(s, Makers(r))
  BY <1>2, MeetsTail
<1>4. Top \in DOMAIN src /\ (Top = r \/ IsStrictPrefix(Top, r))
  BY RootIsTop
<1> QED
  BY <1>3, <1>4, TasksMeet

-----------------------------------------------------------------------------
(***************************************************************************)
(* What the sink is about to do, seen from the source.                     *)
(***************************************************************************)
\* A node that comes is that of the task under way.
LEMMA ComingIs ==
  ASSUME Conversation, NEW p \in Paths, Coming(p)
  PROVE  \E t \in TaskSet :
           /\ UnderWay(t) /\ IsTask(t) /\ t.op \in {"C", "D"} /\ t.path = p
           /\ Legible(MessageFor(t))
<1>1. phase = "header" /\ stream # << >> /\ stream[1].message.type \in {"C", "D"}
  BY DEF Coming
<1>2. Invalid.type = "invalid"
  BY DEF Invalid
<1>3. ~New /\ ~Resting /\ ~Spoilt
  BY <1>1, <1>2 DEF New, Resting, Spoilt
<1>4. PICK t \in TaskSet : UnderWay(t)
  BY <1>1, <1>3 DEF Conversation, Talk
<1> DEFINE u == Line(String(MessageFor(t)))
           m == MessageFor(t)
<1>5. IsTask(t) /\ t.op \in {"T", "C", "D", "E"} /\ stream = <<u>> /\ At(Before(t))
  BY <1>1, <1>4 DEF UnderWay
<1>6. SourceTree
  BY DEF Conversation, Plan
<1>7. /\ m.type = t.op
      /\ t.op \in {"C", "D"} => m.name = Name(t.path)
      /\ u.message = IF Legible(m) THEN m ELSE Invalid
  BY <1>5, <1>6, Said
<1> HIDE DEF u, m
<1>8. stream[1] = u
  BY <1>5
<1>9. Legible(m) /\ u.message = m /\ t.op \in {"C", "D"}
  BY <1>1, <1>2, <1>7, <1>8
<1>10. Append(dir, m.name) = Target \o t.path /\ t.path \in Paths
  BY <1>5, <1>6, <1>7, <1>9, NodePath, TaskPath
<1>11. Target \o p = Append(dir, m.name)
  BY <1>8, <1>9 DEF Coming
<1>12. t.path = p
  BY <1>10, <1>11, InTarget
<1> QED
  BY <1>4, <1>5, <1>9, <1>12 DEF m

LEMMA TaskComes ==
  ASSUME SourceTree, NEW t, UnderWay(t), IsTask(t), t.op \in {"C", "D"},
         Legible(MessageFor(t))
  PROVE  Coming(t.path)
<1> DEFINE u == Line(String(MessageFor(t)))
           m == MessageFor(t)
<1>1. phase = "header" /\ stream = <<u>> /\ At(Before(t))
  BY DEF UnderWay
<1>2. m.type = t.op /\ m.name = Name(t.path) /\ u.message = m
  BY Said
<1> HIDE DEF u, m
<1>3. stream # << >> /\ stream[1] = u
  BY <1>1
<1>4. Append(dir, m.name) = Target \o t.path
  BY <1>1, <1>2, NodePath
<1> QED
  BY <1>1, <1>2, <1>3, <1>4 DEF Coming

\* Nothing comes when the sink has read all that was sent, or will read no message.
LEMMA NothingComes ==
  ASSUME stream # << >> => phase # "header" \/ stream[1].message.type \notin {"C", "D"}
  PROVE  \A p : ~Coming(p)
BY DEF Coming

LEMMA InvalidType == Invalid.type \notin {"T", "C", "D", "E"}
BY DEF Invalid

-----------------------------------------------------------------------------
(***************************************************************************)
(* The first part of the invariant.                                        *)
(***************************************************************************)
LEMMA FreshStays ==
  ASSUME Fresh, DOMAIN src' = DOMAIN src, DOMAIN fs' = DOMAIN fs,
         \A p \in DOMAIN src :
           /\ Meets(todo', Creators(p)) => Meets(todo, Creators(p))
           /\ Coming(p)' => Coming(p)
  PROVE  Fresh'
<1> SUFFICES ASSUME NEW p \in DOMAIN src'
             PROVE  /\ Meets(todo', Creators(p)) \/ Coming(p)' => Target \o p \notin DOMAIN fs'
                    /\ Coming(p)' => ~Meets(todo', Creators(p))
  BY DEF Fresh, Creators
<1> QED
  BY DEF Fresh

\* A step that creates no node and goes on with no task.
LEMMA QuietOrderly ==
  ASSUME Orderly, UNCHANGED <<opts, todo>>,
         DOMAIN fs' = DOMAIN fs, Kept(fs, fs'), DOMAIN src' = DOMAIN src, Kept(src, src'),
         \A q \in DOMAIN fs : fs'[q].dir => fs'[q].content = << >>,
         \A p \in DOMAIN src : src'[p].dir => src'[p].content = << >>,
         phase' # "done" => IsDirectory(dir'),
         \A p : Coming(p)' => Coming(p),
         Busy' => Busy /\ file' = file
  PROVE  Orderly'
<1>1. Rooted'
  BY DEF Orderly, Rooted
<1>2. Nested'
  BY DEF Orderly, Nested, IsDirectory, Kept
<1>3. (phase # "done" => IsDirectory(dir))'
  BY DEF IsDirectory, Kept
<1>4. Planned'
  BY DEF Orderly, Planned, Creators
<1>5. Fresh'
  <2>1. \A p \in DOMAIN src : Meets(todo', Creators(p)) => Meets(todo, Creators(p))
    OBVIOUS
  <2> QED
    BY <2>1, FreshStays DEF Orderly
<1>6. FileOpen'
  <2> SUFFICES ASSUME Busy'
               PROVE  \E p \in DOMAIN src' :
                        /\ Receiving(p)' /\ ~src'[p].dir
                        /\ file' \in DOMAIN fs' /\ ~fs'[file'].dir
                        /\ DataNext' => todo'[1].path = p
    BY DEF FileOpen
  <2>1. PICK p \in DOMAIN src :
          /\ Receiving(p) /\ ~src[p].dir
          /\ file \in DOMAIN fs /\ ~fs[file].dir
          /\ DataNext => todo[1].path = p
    BY DEF Orderly, FileOpen
  <2>2. Receiving(p)'
    BY <2>1 DEF Receiving
  <2>3. DataNext' <=> DataNext
    BY DEF DataNext
  <2> QED
    BY <2>1, <2>2, <2>3 DEF Kept
<1> QED
  BY <1>1, <1>2, <1>3, <1>4, <1>5, <1>6 DEF Orderly

LEMMA KeptSame ==
  ASSUME NEW f
  PROVE  Kept(f, f)
BY DEF Kept

\* Most steps leave both trees alone.
LEMMA StillOrderly ==
  ASSUME Orderly, UNCHANGED <<opts, todo, fs, src>>,
         phase' # "done" => IsDirectory(dir'),
         \A p : Coming(p)' => Coming(p),
         Busy' => Busy /\ file' = file
  PROVE  Orderly'
<1>1. Kept(fs, fs') /\ Kept(src, src')
  BY KeptSame
<1> QED
  BY <1>1, QuietOrderly DEF Orderly, Rooted

LEMMA StepsOrderly ==
  ASSUME SCPInv, Orderly, client = "source", UNCHANGED clientVars,
         SinkStarts \/ ReceiveE \/ ReceiveT \/ RejectMessage \/ EndOfStream \/ SinkIOError
  PROVE  Orderly'
<1>1. UNCHANGED <<opts, todo, fs, src>>
  BY DEF SinkStarts, ReceiveE, ReceiveT, RejectMessage, EndOfStream, SinkIOError, clientVars
<1>2. dir \in Paths /\ (phase # "done" => IsDirectory(dir)) /\ Nested
  BY DEF SCPInv, SinkTypes, Orderly
<1>3. CASE SinkStarts
  <2>1. phase = "new" /\ UNCHANGED <<dir, stream, file>> /\ phase' \in {"header", "done"}
    BY <1>3 DEF SinkStarts
  <2>2. stream = << >>
    <3>1. Conversation
      BY DEF SCPInv
    <3> QED
      BY <2>1, <3>1 DEF Conversation, Talk, New, Resting, UnderWay, Spoilt
  <2>3. \A p : ~Coming(p)'
    BY <2>1, <2>2 DEF Coming
  <2> QED
    BY <1>1, <1>2, <2>1, <2>3, StillOrderly DEF Busy
<1>4. CASE ReceiveE \/ ReceiveT
  <2>1. PICK x \in {"E", "T"} : Receives(x)
    BY <1>4 DEF ReceiveE, ReceiveT
  <2>2. phase = "header" /\ phase' = phase /\ stream' = << >>
    <3>1. Conversation
      BY DEF SCPInv
    <3>2. SubSeq(stream, FirstLineEnd + 1, Len(stream)) = << >>
      BY <2>1, <3>1, Taken
    <3>3. phase = "header"
      BY <2>1 DEF Receives
    <3> QED
      BY <1>4, <3>2, <3>3 DEF ReceiveE, ReceiveT, ReadLine
  <2>3. \A p : ~Coming(p)'
    BY <2>2 DEF Coming
  <2>4. dir' = dir \/ dir' = Parent(dir)
    BY <1>4 DEF ReceiveE, ReceiveT
  <2>5. IsDirectory(dir')
    BY <1>2, <2>2, <2>4, ParentIsPrefix DEF Nested, IsDirectory
  <2> QED
    BY <1>1, <2>2, <2>3, <2>5, StillOrderly DEF Busy
<1>5. CASE RejectMessage \/ EndOfStream \/ SinkIOError
  <2>1. phase' = "done"
    BY <1>5 DEF RejectMessage, EndOfStream, SinkIOError, Abort
  <2> QED
    BY <1>1, <2>1, StillOrderly DEF Busy, Coming
<1> QED
  BY <1>3, <1>4, <1>5

\* The file that is written to, and the rest of the file system.
LEMMA OpenFile ==
  ASSUME Orderly, Busy
  PROVE  file \in DOMAIN fs /\ ~fs[file].dir
BY DEF Orderly, FileOpen

LEMMA ContentOrderly ==
  ASSUME SCPInv, Orderly, client = "source", UNCHANGED clientVars,
         CopyByte \/ FileWritten \/ ReceiveEnd
  PROVE  Orderly'
<1>1. UNCHANGED <<opts, todo, src, dir, file>> /\ phase \in {"content", "end"} /\ Busy
  BY DEF CopyByte, FileWritten, ReceiveEnd, clientVars, Busy
<1>2. IsDirectory(dir) /\ file \in DOMAIN fs /\ ~fs[file].dir /\ IsTree(fs)
  BY <1>1, OpenFile DEF SCPInv, SinkTypes, Orderly
<1>3. CASE CopyByte \/ FileWritten
  <2>1. Kept(fs, fs') /\ DOMAIN fs' = DOMAIN fs
    BY <1>3, ContentTypes DEF SCPInv
  <2>2. \A q \in DOMAIN fs : fs'[q].dir => q # file
    BY <1>2, <2>1 DEF Kept
  <2>3. \A q \in DOMAIN fs \ {file} : fs'[q] = fs[q]
    <3>1. CASE CopyByte
      <4> PICK k : k = Head(stream).kind
        OBVIOUS
      <4>1. fs' = [fs EXCEPT ![file].content = Append(@, k), ![file].time = Now]
        BY <3>1 DEF CopyByte
      <4> QED
        BY <4>1
    <3>2. CASE FileWritten
      BY <3>2 DEF FileWritten
    <3> QED
      BY <1>3, <3>1, <3>2
  <2>4. \A q \in DOMAIN fs : fs'[q].dir => fs'[q].content = << >>
    BY <2>2, <2>3 DEF Orderly, Rooted
  <2>5. \A p : ~Coming(p)'
    BY <1>1, <1>3 DEF CopyByte, FileWritten, Coming
  <2>6. Kept(src, src') /\ \A p \in DOMAIN src : src'[p].dir => src'[p].content = << >>
    BY <1>1, KeptSame DEF Orderly, Rooted
  <2> QED
    BY <1>1, <1>2, <2>1, <2>4, <2>5, <2>6, QuietOrderly
<1>4. CASE ReceiveEnd
  <2>1. /\ phase = "end" /\ stream # << >> /\ stream' = Tail(stream) /\ fs' = fs
        /\ IF Head(stream).kind = "nul" THEN phase' = "header" ELSE phase' = "done"
    BY <1>4 DEF ReceiveEnd, Abort
  <2>2. \A p : ~Coming(p)'
    <3> SUFFICES ASSUME phase' = "header", stream' # << >>
                 PROVE  stream'[1].message.type \notin {"C", "D"}
      BY DEF Coming
    <3>1. stream \in Seq(Units) /\ Conversation
      BY DEF SCPInv, SinkTypes, Wires
    <3>2. Head(stream) = stream[1] /\ Head(stream).kind = "nul"
      BY <2>1, <3>1
    <3>3. 1 \in 1 .. Len(stream) /\ 2 \in 1 .. Len(stream) /\ stream'[1] = stream[2]
      BY <2>1, <3>1
    <3>4. ~New /\ ~Resting /\ ~Spoilt
      BY <2>1, <3>2, <3>3 DEF New, Resting, Spoilt
    <3>5. PICK t \in TaskSet : UnderWay(t)
      BY <2>1, <3>1, <3>4 DEF Conversation, Talk
    <3>6. stream[2].message = Invalid
      BY <2>1, <3>3, <3>5 DEF UnderWay
    <3> QED
      BY <3>3, <3>6, InvalidType
  <2> QED
    BY <1>1, <1>2, <2>1, <2>2, StillOrderly DEF Busy
<1> QED
  BY <1>3, <1>4

\* A node is about to be created that is not there.
LEMMA Creation ==
  ASSUME SCPInv, Orderly, client = "source", NEW x \in {"C", "D"}, Receives(x)
  PROVE  \E t \in TaskSet :
           /\ UnderWay(t) /\ IsTask(t) /\ t.op = x /\ NextMessage = MessageFor(t)
           /\ SubSeq(stream, FirstLineEnd + 1, Len(stream)) = << >>
           /\ Coming(t.path) /\ t.path \in DOMAIN src /\ t.path \in Paths
           /\ NextMessage.name = Name(t.path) /\ Name(t.path) \in Names
           /\ Target \o t.path \in Paths
           /\ Append(dir, Name(t.path)) = Target \o t.path
           /\ Target \o t.path \notin DOMAIN fs
           /\ ~Meets(todo, Creators(t.path))
           /\ \A r \in Prefixes(Target \o t.path) : r = Target \o t.path \/ IsDirectory(r)
           /\ phase = "header" /\ IsDirectory(dir) /\ dir \in Paths
<1>1. Conversation /\ SourceTree
  BY DEF SCPInv, Conversation, Plan
<1>2. PICK t \in TaskSet :
        /\ UnderWay(t) /\ t.op = x /\ IsTask(t)
        /\ Legible(MessageFor(t))
        /\ NextMessage = MessageFor(t)
        /\ SubSeq(stream, FirstLineEnd + 1, Len(stream)) = << >>
  BY <1>1, Taken
<1>3. phase = "header" /\ IsDirectory(dir) /\ Nested /\ At(Before(t))
  BY <1>2 DEF Receives, Orderly, UnderWay
<1>4. t.path \in DOMAIN src /\ t.path \in Paths
  BY <1>1, <1>2 DEF IsTask, SourceTree
<1>5. NextMessage.name = Name(t.path)
  BY <1>1, <1>2, Said
<1>6. /\ dir \in Paths /\ Name(t.path) \in Names
      /\ Append(dir, Name(t.path)) = Target \o t.path
  BY <1>1, <1>2, <1>3, NodePath
<1>7. Target \o t.path \in Paths
  BY <1>4, InTarget
<1>8. Coming(t.path)
  BY <1>1, <1>2, TaskComes
<1>9. Target \o t.path \notin DOMAIN fs /\ ~Meets(todo, Creators(t.path))
  BY <1>4, <1>8 DEF Orderly, Fresh
<1>10. ASSUME NEW r \in Prefixes(Target \o t.path), r # Target \o t.path
       PROVE  IsDirectory(r)
  <2>1. r \in Prefixes(dir)
    BY <1>6, <1>10, PrefixOfLonger
  <2> QED
    BY <1>3, <2>1 DEF Nested, IsDirectory
<1> QED
  BY <1>2, <1>3, <1>4, <1>5, <1>6, <1>7, <1>8, <1>9, <1>10

LEMMA CreationOrderly ==
  ASSUME Orderly, SourceTree, UNCHANGED <<opts, todo, src>>, NEW p \in DOMAIN src,
         Coming(p), NEW d, d = Target \o p, stream' = << >>,
         DOMAIN fs' = DOMAIN fs \cup {d},
         \A q \in DOMAIN fs : fs'[q].dir = fs[q].dir,
         \A q \in DOMAIN fs' : fs'[q].dir => fs'[q].content = << >>,
         \A r \in Prefixes(d) : r = d \/ IsDirectory(r),
         phase' # "done" => IsDirectory(dir)',
         FileOpen'
  PROVE  Orderly'
<1>1. Rooted'
  BY DEF Orderly, Rooted
<1>2. Nested'
  BY DEF Orderly, Nested, IsDirectory
<1>3. Planned'
  BY DEF Orderly, Planned, Creators
<1>4. Fresh'
  <2> SUFFICES ASSUME NEW r \in DOMAIN src
               PROVE  /\ Meets(todo, Creators(r)) \/ Coming(r)' => Target \o r \notin DOMAIN fs'
                      /\ ~Coming(r)'
    BY DEF Fresh, Creators
  <2>1. ~Coming(r)'
    BY DEF Coming
  <2>2. ASSUME Meets(todo, Creators(r))
        PROVE  Target \o r \notin DOMAIN fs'
    <3>1. r # p
      BY <2>2 DEF Orderly, Fresh
    <3>2. Target \o r # d
      BY <3>1, InTarget DEF SourceTree
    <3> QED
      BY <2>2, <3>2 DEF Orderly, Fresh
  <2> QED
    BY <2>1, <2>2
<1> QED
  BY <1>1, <1>2, <1>3, <1>4 DEF Orderly

\* The file system with a new node: what else there is stays, but for the time of
\* the directory that the node is in.
LEMMA DatedNode ==
  ASSUME NEW n \in Nodes, NEW t
  PROVE  LET m == [n EXCEPT !.time = t] IN m.dir = n.dir /\ m.content = n.content /\ m.time = t
BY DEF Nodes

LEMMA NodeIsNew ==
  ASSUME NEW p, NEW node
  PROVE  DOMAIN WithNode(p, node) = DOMAIN fs \cup {p} /\ WithNode(p, node)[p] = node
BY DEF WithNode

LEMMA OthersStay ==
  ASSUME IsTree(fs), NEW p, p \notin DOMAIN fs, NEW node, NEW q \in DOMAIN fs
  PROVE  /\ WithNode(p, node)[q].dir = fs[q].dir
         /\ WithNode(p, node)[q].content = fs[q].content
         /\ q # Parent(p) => WithNode(p, node)[q] = fs[q]
<1> DEFINE g == WithNode(p, node)
           old == [fs[q] EXCEPT !.time = Now]
<1>1. g[q] = IF q = Parent(p) THEN old ELSE fs[q]
  BY DEF WithNode
<1>2. old.dir = fs[q].dir /\ old.content = fs[q].content
  BY TreeNodes, DatedNode
<1> HIDE DEF g, old
<1>3. /\ g[q].dir = fs[q].dir /\ g[q].content = fs[q].content
      /\ q # Parent(p) => g[q] = fs[q]
  BY <1>1, <1>2
<1> QED
  BY <1>3 DEF g

\* Where a file is created, and what is there.
LEMMA FileCreated ==
  ASSUME SCPInv, Orderly, client = "source", ReceiveC, NEW t \in TaskSet,
         NextMessage.name = Name(t.path), Append(dir, Name(t.path)) = Target \o t.path,
         Target \o t.path \notin DOMAIN fs, Target \o t.path \in Paths,
         Name(t.path) \in Names, dir \in Paths,
         phase' # "done"
  PROVE  LET d == Target \o t.path
         IN  /\ fs' = WithNode(d, EmptyFile) /\ file' = d /\ Parent(d) = dir
             /\ phase' = "content" /\ left' = Limit(NextMessage.length)
             /\ acks' = Append(acks, "ok")
<1> DEFINE d == Target \o t.path
           n == Name(t.path)
           p == FilePath(dir, n)
<1>1. Parent(Append(dir, n)) = dir /\ Append(dir, n) \in Paths
  <2>1. dir \in Seq(Names) /\ n \in Names
    BY DEF Paths
  <2> HIDE DEF n
  <2>2. Append(dir, n) # << >> /\ Len(Append(dir, n)) = Len(dir) + 1
        /\ SubSeq(Append(dir, n), 1, Len(dir)) = dir /\ Append(dir, n) \in Seq(Names)
    BY <2>1
  <2>3. Len(dir) \in Nat /\ Len(dir) + 1 - 1 = Len(dir)
    BY <2>1
  <2>4. Front(Append(dir, n)) = dir
    BY <2>2, <2>3 DEF Front
  <2> QED
    BY <2>2, <2>4 DEF Parent, Paths
<1>2. CanOpen(p) /\ fs' = WithNode(p, EmptyFile) /\ file' = p /\ phase' = "content"
      /\ left' = Limit(NextMessage.length) /\ acks' = Append(acks, "ok")
  BY DEF ReceiveC, Abort, ack
<1>3. CASE Parent(dir) = dir
  <2>1. p = Append(dir, n) \o <<n>>
    BY <1>3 DEF FilePath
  <2>2. Parent(p) = Append(dir, n)
    <3> DEFINE a == Append(dir, n)
    <3>1. a \in Seq(Names) /\ n \in Names
      BY <1>1 DEF Paths
    <3> HIDE DEF a, n
    <3>2. a \o <<n>> = Append(a, n)
      BY <3>1, AppendOne
    <3>3. Append(a, n) # << >> /\ Len(Append(a, n)) = Len(a) + 1
          /\ SubSeq(Append(a, n), 1, Len(a)) = a /\ Len(a) \in Nat /\ Len(a) + 1 - 1 = Len(a)
      BY <3>1
    <3>4. Front(Append(a, n)) = a
      BY <3>3 DEF Front
    <3> QED
      BY <2>1, <3>2, <3>3, <3>4 DEF Parent, a
  <2> QED
    BY <1>2, <2>2 DEF CanOpen, IsDirectory
<1>4. CASE Parent(dir) # dir
  BY <1>1, <1>2, <1>4 DEF FilePath
<1> QED
  BY <1>3, <1>4

LEMMA FileOrderly ==
  ASSUME SCPInv, Orderly, client = "source", UNCHANGED clientVars, ReceiveC
  PROVE  Orderly'
<1>1. SourceTree /\ IsTree(fs) /\ Receives("C") /\ ReadLine /\ UNCHANGED <<opts, todo, src, dir>>
      /\ Walk(todo)
  BY DEF SCPInv, Conversation, Plan, SinkTypes, ReceiveC, clientVars
<1>2. PICK t \in TaskSet :
           /\ UnderWay(t) /\ IsTask(t) /\ t.op = "C" /\ NextMessage = MessageFor(t)
           /\ SubSeq(stream, FirstLineEnd + 1, Len(stream)) = << >>
           /\ Coming(t.path) /\ t.path \in DOMAIN src /\ t.path \in Paths
           /\ NextMessage.name = Name(t.path) /\ Name(t.path) \in Names
           /\ Target \o t.path \in Paths
           /\ Append(dir, Name(t.path)) = Target \o t.path
           /\ Target \o t.path \notin DOMAIN fs
           /\ \A r \in Prefixes(Target \o t.path) : r = Target \o t.path \/ IsDirectory(r)
           /\ phase = "header" /\ IsDirectory(dir) /\ dir \in Paths
  BY <1>1, Creation
<1>3. stream' = << >>
  BY <1>1, <1>2 DEF ReadLine
<1>4. CASE phase' = "done"
  <2>1. fs' = fs
    BY <1>4 DEF ReceiveC, Abort
  <2> QED
    BY <1>1, <1>4, <2>1, StillOrderly DEF Busy, Coming
<1>5. CASE phase' # "done"
  <2> DEFINE d == Target \o t.path
  <2>1. fs' = WithNode(d, EmptyFile) /\ file' = d /\ Parent(d) = dir /\ phase' = "content"
    BY <1>2, <1>5, FileCreated
  <2>2. d \in Paths /\ d \notin DOMAIN fs /\ d = Target \o t.path
    BY <1>2
  <2> HIDE DEF d
  <2>3. DOMAIN fs' = DOMAIN fs \cup {d} /\ fs'[d] = EmptyFile
    BY <1>1, <2>1, <2>2, NodeIsNew
  <2>4. \A q \in DOMAIN fs : fs'[q].dir = fs[q].dir /\ fs'[q].content = fs[q].content
    BY <1>1, <2>1, <2>2, OthersStay
  <2>5. EmptyFile.dir = FALSE
    BY DEF EmptyFile
  <2>6. \A q \in DOMAIN fs' : fs'[q].dir => fs'[q].content = << >>
    BY <2>3, <2>4, <2>5 DEF Orderly, Rooted
  <2>7. IsDirectory(dir)'
    BY <1>1, <1>2, <2>3, <2>4 DEF IsDirectory
  <2>8. todo # << >> => todo[1].path = t.path
    BY <1>1, <1>2, AfterTask DEF UnderWay
  <2>9. FileOpen'
    <3>1. Receiving(t.path)' /\ ~src[t.path].dir
      BY <1>2, <2>1, <2>2 DEF Receiving, Busy, IsTask
    <3> QED
      BY <1>1, <1>2, <2>1, <2>3, <2>5, <2>8, <3>1 DEF FileOpen, DataNext
  <2> QED
    BY <1>1, <1>2, <1>3, <2>2, <2>3, <2>4, <2>6, <2>7, <2>9, CreationOrderly
<1> QED
  BY <1>4, <1>5

LEMMA DirectoryIsNew ==
  ASSUME IsTree(fs), Rooted, NEW p \in Paths, p \notin DOMAIN fs,
         \A r \in Prefixes(p) : r = p \/ IsDirectory(r)
  PROVE  /\ CanMkdir(p)
         /\ DOMAIN WithDirectories(p) = DOMAIN fs \cup {p}
         /\ WithDirectories(p)[p] = Directory
<1>1. CanMkdir(p)
  BY DEF CanMkdir, IsDirectory
<1>2. Prefixes(p) \ DOMAIN fs = {p}
  BY OwnPrefix DEF IsDirectory
<1> QED
  BY <1>1, <1>2 DEF WithDirectories

LEMMA OthersAround ==
  ASSUME IsTree(fs), Rooted, NEW p \in Paths, p \notin DOMAIN fs,
         \A r \in Prefixes(p) : r = p \/ IsDirectory(r), NEW q \in DOMAIN fs
  PROVE  /\ WithDirectories(p)[q].dir = fs[q].dir
         /\ WithDirectories(p)[q].content = fs[q].content
         /\ ~fs[q].dir => WithDirectories(p)[q] = fs[q]
<1>1. Prefixes(p) \ DOMAIN fs = {p}
  BY OwnPrefix DEF IsDirectory
<1>2. WithDirectories(p)[q] = IF q = Parent(p) THEN Directory ELSE fs[q]
  BY <1>1 DEF WithDirectories
<1>3. CASE q # Parent(p)
  BY <1>2, <1>3
<1>4. CASE q = Parent(p)
  <2>1. IsDirectory(q) /\ q # p
    BY <1>4, ParentIsPrefix
  <2>2. fs[q] \in Nodes /\ fs[q].content = << >> /\ fs[q].dir
    BY <2>1, TreeNodes DEF Rooted, IsDirectory
  <2>3. fs[q].dir = TRUE
    BY <2>2 DEF Nodes
  <2> QED
    BY <1>2, <1>4, <2>2, <2>3 DEF Directory
<1> QED
  BY <1>3, <1>4

\* What becomes of the file system when a directory is created.
LEMMA DirectoryCreated ==
  ASSUME SCPInv, Orderly, client = "source", ReceiveD, NEW t \in TaskSet, t.op = "D",
         NextMessage = MessageFor(t),
         NextMessage.name = Name(t.path), Append(dir, Name(t.path)) = Target \o t.path,
         Target \o t.path \notin DOMAIN fs, Target \o t.path \in Paths,
         \A r \in Prefixes(Target \o t.path) : r = Target \o t.path \/ IsDirectory(r),
         phase = "header"
  PROVE  LET d == Target \o t.path
         IN  /\ dir' = d /\ phase' = phase /\ acks' = Append(acks, "ok")
             /\ DOMAIN fs' = DOMAIN fs \cup {d}
             /\ fs'[d].dir = TRUE /\ fs'[d].content = << >>
             /\ \A q \in DOMAIN fs :
                  /\ fs'[q].dir = fs[q].dir /\ fs'[q].content = fs[q].content
                  /\ ~fs[q].dir => fs'[q] = fs[q]
<1> DEFINE d == Target \o t.path
           g == WithDirectories(d)
<1>1. NextMessage.length = 0
  BY DEF MessageFor, DMessage
<1>2. IsTree(fs) /\ Rooted /\ d \in Paths /\ d \notin DOMAIN fs
      /\ \A r \in Prefixes(d) : r = d \/ IsDirectory(r)
  BY DEF SCPInv, SinkTypes, Orderly
<1> HIDE DEF d
<1>3. CanMkdir(d) /\ DOMAIN g = DOMAIN fs \cup {d} /\ g[d] = Directory
  BY <1>2, DirectoryIsNew
<1>4. \A q \in DOMAIN fs :
        /\ g[q].dir = fs[q].dir /\ g[q].content = fs[q].content
        /\ ~fs[q].dir => g[q] = fs[q]
  BY <1>2, OthersAround
<1>5. /\ dir' = d /\ phase' = phase /\ acks' = Append(acks, "ok")
      /\ fs' = IF timeSet THEN [g EXCEPT ![d].time = time] ELSE g
  BY <1>1, <1>3 DEF ReceiveD, ack, d
<1> HIDE DEF g
<1>6. DOMAIN fs' = DOMAIN fs \cup {d} /\ \A q \in DOMAIN fs : fs'[q] = g[q]
  BY <1>2, <1>3, <1>5
<1>7. fs'[d].dir = TRUE /\ fs'[d].content = << >>
  <2>1. g[d] \in Nodes /\ g[d].dir = TRUE /\ g[d].content = << >>
    BY <1>3, NewNodes DEF Directory
  <2>2. fs'[d] = IF timeSet THEN [g[d] EXCEPT !.time = time] ELSE g[d]
    BY <1>3, <1>5
  <2> QED
    BY <2>1, <2>2, DatedNode
<1>8. \A q \in DOMAIN fs :
        /\ fs'[q].dir = fs[q].dir /\ fs'[q].content = fs[q].content
        /\ ~fs[q].dir => fs'[q] = fs[q]
  BY <1>4, <1>6
<1> QED
  BY <1>5, <1>6, <1>7, <1>8 DEF d

LEMMA DirectoryOrderly ==
  ASSUME SCPInv, Orderly, client = "source", UNCHANGED clientVars, ReceiveD
  PROVE  Orderly'
<1>1. SourceTree /\ Receives("D") /\ ReadLine /\ UNCHANGED <<opts, todo, src>>
  BY DEF SCPInv, Conversation, Plan, ReceiveD, clientVars
<1>2. PICK t \in TaskSet :
           /\ UnderWay(t) /\ IsTask(t) /\ t.op = "D" /\ NextMessage = MessageFor(t)
           /\ SubSeq(stream, FirstLineEnd + 1, Len(stream)) = << >>
           /\ Coming(t.path) /\ t.path \in DOMAIN src
           /\ NextMessage.name = Name(t.path)
           /\ Target \o t.path \in Paths
           /\ Append(dir, Name(t.path)) = Target \o t.path
           /\ Target \o t.path \notin DOMAIN fs
           /\ \A r \in Prefixes(Target \o t.path) : r = Target \o t.path \/ IsDirectory(r)
           /\ phase = "header"
  BY <1>1, Creation
<1>3. stream' = << >>
  BY <1>1, <1>2 DEF ReadLine
<1> DEFINE d == Target \o t.path
<1>4. /\ dir' = d /\ phase' = "header"
      /\ DOMAIN fs' = DOMAIN fs \cup {d}
      /\ fs'[d].dir = TRUE /\ fs'[d].content = << >>
      /\ \A q \in DOMAIN fs : fs'[q].dir = fs[q].dir /\ fs'[q].content = fs[q].content
  BY <1>2, DirectoryCreated
<1>5. d = Target \o t.path
  OBVIOUS
<1> HIDE DEF d
<1>6. IsDirectory(dir)'
  BY <1>4 DEF IsDirectory
<1>7. FileOpen'
  BY <1>4 DEF FileOpen, Busy
<1>8. \A q \in DOMAIN fs' : fs'[q].dir => fs'[q].content = << >>
  BY <1>4 DEF Orderly, Rooted
<1>9. \A r \in Prefixes(d) : r = d \/ IsDirectory(r)
  BY <1>2, <1>5
<1> QED
  BY <1>1, <1>2, <1>3, <1>4, <1>5, <1>6, <1>7, <1>8, <1>9, CreationOrderly

\* Where the source sends the sink rests, has read no message, or is done.
LEMMA Sends ==
  ASSUME Conversation, NEW ops, Sending(ops)
  PROVE  /\ todo # << >> /\ Head(todo) = todo[1] /\ todo[1].op \in ops /\ todo \in Seq(TaskSet)
         /\ IsTask(todo[1]) /\ ~waiting /\ Live
         /\ phase = "done" \/ Resting \/ Spoilt
         /\ Resting => stream = << >> /\ acks = << >> /\ At(Position(todo))
                       /\ phase \in {"header", "content", "end"}
                       /\ (phase = "header" <=> ~DataNext)
         /\ Spoilt => phase = "header" /\ stream # << >> /\ stream[1].message = Invalid
<1>1. Walk(todo) /\ todo # << >> /\ ~waiting /\ Live
  BY DEF Conversation, Plan, Sending, Live
<1>2. todo \in Seq(TaskSet)
  BY <1>1 DEF Walk, Steps
<1>3. Head(todo) = todo[1] /\ 1 \in 1 .. Len(todo)
  BY <1>1, <1>2
<1>4. IsTask(todo[1])
  BY <1>1, <1>3 DEF Walk, Steps
<1>5. phase = "done" \/ Resting \/ Spoilt
  BY <1>1, FreeSource DEF Live
<1>6. Resting => stream = << >> /\ acks = << >> /\ At(Position(todo))
                 /\ phase \in {"header", "content", "end"}
                 /\ (phase = "header" <=> ~DataNext)
  BY <1>1 DEF Resting, DataNext
<1>7. Spoilt => phase = "header" /\ stream # << >> /\ stream[1].message = Invalid
  BY <1>1 DEF Spoilt, Live
<1> QED
  BY <1>1, <1>2, <1>3, <1>4, <1>5, <1>6, <1>7 DEF Sending

\* What a source that fails sends is nothing that creates a node.
LEMMA FailComes ==
  ASSUME Wires, SourceFails, UNCHANGED <<phase, dir>>
  PROVE  \A p : Coming(p)' => Coming(p)
<1>1. /\ stream = << >> => stream' = << >> \/ stream'[1].message = Invalid
      /\ stream # << >> => stream'[1] = stream[1]
  BY FailWires
<1> QED
  BY <1>1, InvalidType DEF Coming

LEMMA StopsOrderly ==
  ASSUME SCPInv, Orderly, client = "source", Source, UNCHANGED todo
  PROVE  Orderly'
<1>1. UNCHANGED <<opts, fs, src, dir, file, phase>> /\ Conversation /\ Wires
  BY DEF SCPInv, SinkTypes, Source, SourceStats, SourceSends, SourceLists, SourceSendsData,
     SourceGetsAck, SourceGetsNoAck, SourceDone, SourceIOError, SourceUnchanged
<1>2. stream' = stream \/ SourceFails
  <2>1. CASE SourceStats
    BY <2>1 DEF SourceStats
  <2>2. CASE SourceSends \/ SourceLists
    <3>1. todo \in Seq(TaskSet) /\ todo # << >>
      BY <1>1, <2>2, Sends DEF SourceSends, SourceLists
    <3>2. CASE SourceSends
      <4>1. todo = Tail(todo)
        BY <3>2 DEF SourceSends
      <4> QED
        BY <3>1, <4>1
    <3>3. CASE SourceLists
      BY <3>3 DEF SourceLists
    <3> QED
      BY <2>2, <3>2, <3>3
  <2>3. CASE SourceSendsData
    <3>1. todo \in Seq(TaskSet) /\ todo # << >>
      BY <1>1, <2>3, Sends DEF SourceSendsData
    <3>2. todo # Tail(todo)
      BY <3>1
    <3> QED
      BY <2>3, <3>2 DEF SourceSendsData
  <2>4. CASE SourceGetsAck \/ SourceGetsNoAck \/ SourceDone \/ SourceIOError
    BY <2>4 DEF SourceGetsAck, SourceGetsNoAck, SourceDone, SourceIOError
  <2> QED
    BY <2>1, <2>2, <2>3, <2>4 DEF Source
<1>3. \A p : Coming(p)' => Coming(p)
  <2>1. CASE stream' = stream
    BY <1>1, <2>1 DEF Coming
  <2>2. CASE SourceFails
    BY <1>1, <2>2, FailComes
  <2> QED
    BY <1>2, <2>1, <2>2
<1>4. phase' # "done" => IsDirectory(dir')
  BY <1>1 DEF Orderly
<1> QED
  BY <1>1, <1>3, <1>4, StillOrderly DEF Busy

LEMMA PlanOrderly ==
  ASSUME Orderly, UNCHANGED <<opts, src, fs, dir, file, phase>>, Planned', Fresh',
         Busy => ~DataNext'
  PROVE  Orderly'
<1>1. Rooted' /\ Nested' /\ (phase # "done" => IsDirectory(dir))'
  BY DEF Orderly, Rooted, Nested, IsDirectory
<1>2. FileOpen'
  <2> SUFFICES ASSUME Busy'
               PROVE  \E p \in DOMAIN src' :
                        /\ Receiving(p)' /\ ~src'[p].dir
                        /\ file' \in DOMAIN fs' /\ ~fs'[file'].dir
                        /\ DataNext' => todo'[1].path = p
    BY DEF FileOpen
  <2>1. Busy /\ ~DataNext'
    BY DEF Busy
  <2>2. PICK p \in DOMAIN src :
          Receiving(p) /\ ~src[p].dir /\ file \in DOMAIN fs /\ ~fs[file].dir
    BY <2>1 DEF Orderly, FileOpen
  <2>3. Receiving(p)'
    BY <2>2 DEF Receiving, Busy
  <2> QED
    BY <2>1, <2>2, <2>3
<1> QED
  BY <1>1, <1>2 DEF Orderly

LEMMA PlansOrderly ==
  ASSUME SCPInv, Orderly, client = "source", SourceStats \/ SourceLists,
         todo' # todo
  PROVE  Orderly' /\ \A r \in DOMAIN src : Meets(todo', Makers(r)) <=> Meets(todo, Makers(r))
<1>1. Conversation /\ SourceTree /\ Rooted
  BY DEF SCPInv, Conversation, Plan, Orderly
<1>2. UNCHANGED <<opts, src, fs, dir, file, phase, stream>>
  BY DEF SourceStats, SourceLists, SourceUnchanged
<1>3. PICK x \in {"stat", "list"} : Sending({x}) /\ IF x = "stat" THEN SourceStats ELSE SourceLists
  <2>1. (SourceStats => Sending({"stat"})) /\ (SourceLists => Sending({"list"}))
    BY DEF SourceStats, SourceLists
  <2> QED
    BY <2>1
<1>4. /\ todo # << >> /\ Head(todo) = todo[1] /\ todo[1].op = x /\ todo \in Seq(TaskSet)
      /\ IsTask(todo[1]) /\ ~Busy
  <2>1. /\ todo # << >> /\ Head(todo) = todo[1] /\ todo[1].op \in {x} /\ todo \in Seq(TaskSet)
        /\ IsTask(todo[1])
        /\ phase = "done" \/ Resting \/ Spoilt
        /\ Resting => (phase = "header" <=> ~DataNext)
        /\ Spoilt => phase = "header"
    BY <1>1, <1>3, Sends
  <2> QED
    BY <2>1 DEF Busy, DataNext
<1>5. \A r \in DOMAIN src :
        /\ Meets(todo', Creators(r)) <=> Meets(todo, Creators(r))
        /\ Meets(todo', Makers(r)) <=> Meets(todo, Makers(r))
        /\ AtMostOnce(todo', Creators(r))
  <2> TAKE r \in DOMAIN src
  <2>1. AtMostOnce(todo, Creators(r))
    BY DEF Orderly, Planned
  <2>2. CASE x = "stat"
    <3>1. todo' = Tasks(Top)
      BY <1>3, <2>2 DEF SourceStats
    <3> QED
      BY <1>1, <1>4, <2>2, <3>1, StatsMeet
  <2>3. CASE x = "list"
    <3>1. todo' = Listed(todo[1].path) \o <<Task("E", todo[1].path)>> \o Tail(todo)
      BY <1>3, <1>4, <2>3 DEF SourceLists, Listed
    <3> PICK z : z = todo'
      OBVIOUS
    <3> QED
      BY <1>1, <1>4, <2>1, <2>3, <3>1, ListsMeet
  <2> QED
    BY <2>2, <2>3
<1>6. Planned'
  BY <1>2, <1>5 DEF Planned, Creators
<1>7. Fresh'
  <2>1. \A p : Coming(p)' => Coming(p)
    BY <1>2 DEF Coming
  <2> QED
    BY <1>2, <1>5, <2>1, FreshStays DEF Orderly
<1>8. Orderly'
  BY <1>2, <1>4, <1>6, <1>7, PlanOrderly
<1> QED
  BY <1>5, <1>8

\* What comes once a task has been sent is its node.
LEMMA SentComes ==
  ASSUME Conversation, SourceSends, phase # "done", NEW t, t = todo[1]
  PROVE  LET m == MessageFor(t)
         IN  /\ Resting =>
                  /\ stream' = <<Line(String(m))>> /\ phase = "header"
                  /\ ~Legible(m) => stream'[1].message = Invalid
                  /\ Legible(m) => stream'[1].message = m /\ m.type = t.op /\ m # Invalid
                  /\ t.op \in {"C", "D"} /\ Legible(m) => Coming(t.path)'
             /\ Spoilt => stream'[1] = stream[1] /\ stream' # << >>
             /\ Resting \/ Spoilt
             /\ \A p \in Paths :
                  Coming(p)' => Resting /\ t.op \in {"C", "D"} /\ t.path = p
<1> DEFINE m == MessageFor(t)
           u == Line(String(m))
<1>1. /\ todo # << >> /\ Head(todo) = t /\ t.op \in {"T", "C", "D", "E"}
      /\ IsTask(t) /\ (Resting \/ Spoilt)
      /\ Resting => stream = << >> /\ At(Position(todo)) /\ (phase = "header" <=> ~DataNext)
      /\ Spoilt => stream # << >> /\ stream[1].message = Invalid
  BY Sends DEF SourceSends
<1>2. stream' = Append(stream, u) /\ phase' = phase /\ dir' = dir /\ stream \in Seq(Units)
      /\ SourceTree
  BY <1>1 DEF SourceSends, SourceUnchanged, Conversation, Wires, Plan
<1>3. /\ m.type = t.op
      /\ t.op \in {"C", "D"} => m.name = Name(t.path)
      /\ u \in Units
      /\ u.message = IF Legible(m) THEN m ELSE Invalid
  BY <1>1, <1>2, Said
<1>4. Position(todo) = Before(t)
  BY <1>1 DEF Position
<1>5. t.op \in {"C", "D"} /\ Resting => Append(dir, m.name) = Target \o t.path /\ t.path \in Paths
  BY <1>1, <1>2, <1>3, <1>4, NodePath, TaskPath
<1>6. t.op # "data"
  BY <1>1
<1> HIDE DEF u, m
<1>7. /\ stream = << >> => stream' = <<u>> /\ stream'[1] = u
      /\ stream # << >> => stream' # << >> /\ stream'[1] = stream[1]
  BY <1>2, <1>3, AppendUnit
<1>8. Resting => stream' = <<u>> /\ stream'[1].message = u.message /\ phase = "header"
  BY <1>1, <1>6, <1>7 DEF DataNext
<1>9. Spoilt => stream'[1] = stream[1] /\ stream' # << >>
  BY <1>1, <1>7
<1>10. m # Invalid
  BY <1>1, <1>3, InvalidType
<1>11. ASSUME Resting, t.op \in {"C", "D"}, Legible(m)
       PROVE  Coming(t.path)'
  <2>1. stream' # << >> /\ stream'[1].message = m
    <3>1. u.message = m
      BY <1>3, <1>11
    <3> QED
      BY <1>1, <1>7, <1>11, <3>1
  <2> QED
    BY <1>2, <1>3, <1>5, <1>8, <1>11, <2>1 DEF Coming
<1>12. ASSUME NEW p \in Paths, Coming(p)'
       PROVE  Resting /\ t.op \in {"C", "D"} /\ t.path = p
  <2>1. stream'[1].message.type \in {"C", "D"} /\ Target \o p = Append(dir, stream'[1].message.name)
    BY <1>2, <1>12 DEF Coming
  <2>2. Resting
    BY <1>1, <1>9, <2>1, InvalidType
  <2>3. Legible(m) /\ stream'[1].message = m
    BY <1>3, <1>8, <2>1, <2>2, InvalidType
  <2> QED
    BY <1>3, <1>5, <2>1, <2>2, <2>3, InTarget
<1> QED
  BY <1>1, <1>3, <1>8, <1>9, <1>10, <1>11, <1>12 DEF m, u

LEMMA SendsOrderly ==
  ASSUME SCPInv, Orderly, client = "source", SourceSends
  PROVE  Orderly'
<1>1. Conversation /\ SourceTree
  BY DEF SCPInv, Conversation, Plan
<1>2. UNCHANGED <<opts, src, fs, dir, file, phase>> /\ todo' = Tail(todo)
  BY DEF SourceSends, SourceUnchanged
<1>3. /\ todo # << >> /\ todo[1].op \in {"T", "C", "D", "E"} /\ todo \in Seq(TaskSet)
      /\ IsTask(todo[1]) /\ ~Busy /\ todo[1] \in TaskSet
  <2>1. /\ todo # << >> /\ todo[1].op \in {"T", "C", "D", "E"} /\ todo \in Seq(TaskSet)
        /\ IsTask(todo[1])
        /\ phase = "done" \/ Resting \/ Spoilt
        /\ Resting => (phase = "header" <=> ~DataNext)
        /\ Spoilt => phase = "header"
    BY <1>1, Sends DEF SourceSends
  <2> QED
    BY <2>1 DEF Busy, DataNext
<1>4. \A r \in DOMAIN src :
        /\ Meets(todo, Creators(r)) <=> todo[1] \in Creators(r) \/ Meets(todo', Creators(r))
        /\ AtMostOnce(todo', Creators(r)) /\ ~(todo[1] \in Creators(r) /\ Meets(todo', Creators(r)))
  BY <1>2, <1>3, MeetsTail DEF Orderly, Planned
<1>5. Planned'
  BY <1>2, <1>4 DEF Planned, Creators
<1>6. Fresh'
  <2> SUFFICES ASSUME NEW r \in DOMAIN src
               PROVE  /\ Meets(todo', Creators(r)) \/ Coming(r)' => Target \o r \notin DOMAIN fs
                      /\ Coming(r)' => ~Meets(todo', Creators(r))
    BY <1>2 DEF Fresh, Creators
  <2>1. Meets(todo', Creators(r)) => Target \o r \notin DOMAIN fs
    BY <1>4 DEF Orderly, Fresh
  <2>2. ASSUME Coming(r)' PROVE Target \o r \notin DOMAIN fs /\ ~Meets(todo', Creators(r))
    <3>1. phase # "done" /\ r \in Paths
      BY <1>1, <1>2, <2>2 DEF Coming, SourceTree
    <3>2. todo[1].op \in {"C", "D"} /\ todo[1].path = r
      <4> PICK t : t = todo[1]
        OBVIOUS
      <4> QED
        BY <1>1, <2>2, <3>1, SentComes
    <3>3. todo[1] \in Creators(r)
      BY <1>3, <3>2 DEF Creators
    <3> QED
      BY <1>4, <3>3 DEF Orderly, Fresh
  <2> QED
    BY <2>1, <2>2
<1> QED
  BY <1>2, <1>3, <1>5, <1>6, PlanOrderly

LEMMA DataOrderly ==
  ASSUME SCPInv, Orderly, client = "source", SourceSendsData, todo' # todo
  PROVE  Orderly'
<1>1. Conversation /\ SourceTree /\ Walk(todo)
  BY DEF SCPInv, Conversation, Plan
<1>2. UNCHANGED <<opts, src, fs, dir, file, phase>> /\ todo' = Tail(todo)
  BY DEF SourceSendsData, SourceUnchanged
<1>3. /\ todo # << >> /\ todo[1].op = "data" /\ todo \in Seq(TaskSet) /\ IsTask(todo[1])
      /\ phase = "done" \/ Resting \/ Spoilt
      /\ Resting => (phase = "header" <=> ~DataNext)
      /\ Spoilt => phase = "header" /\ stream # << >> /\ stream[1].message = Invalid
  BY <1>1, Sends DEF SourceSendsData
<1>4. ~DataNext'
  <2>1. Linked(todo[1], Tail(todo)) /\ Walk(Tail(todo))
    BY <1>1, <1>3, WalkTail
  <2> PICK z : z = todo'
    OBVIOUS
  <2>2. ~(z # << >> /\ z[1].op = "data")
    BY <1>1, <1>2, <1>3, <2>1, AfterTask DEF Ends
  <2> QED
    BY <2>2 DEF DataNext
<1>5. \A r \in DOMAIN src :
        /\ Meets(todo', Creators(r)) => Meets(todo, Creators(r))
        /\ AtMostOnce(todo', Creators(r))
  BY <1>2, <1>3, MeetsTail DEF Orderly, Planned
<1>6. Planned'
  BY <1>2, <1>5 DEF Planned, Creators
<1>7. \A p : ~Coming(p)'
  <2>1. CASE phase # "header"
    BY <1>2, <2>1 DEF Coming
  <2>2. CASE phase = "header"
    <3>1. Spoilt
      BY <1>3, <2>2 DEF DataNext
    <3> DEFINE k == src[OpenedPath(Head(todo).path)].content
               s == [i \in DOMAIN k |-> Unit(k[i])]
    <3>2. stream' = stream \o s \o <<Unit("nul")>>
      <4>1. ~src[OpenedPath(Head(todo).path)].dir
        BY DEF SourceSendsData
      <4> QED
        BY <4>1 DEF SourceSendsData
    <3>3. stream'[1] = stream[1]
      <4>1. OpenedPath(todo[1].path) \in DOMAIN src /\ Head(todo) = todo[1]
        BY <1>1, <1>3, Opened DEF IsTask
      <4>2. k \in Seq({"byte", "nul"})
        BY <1>1, <4>1 DEF SourceTree
      <4> HIDE DEF k
      <4>3. \A x \in {"byte", "nul"} : Unit(x) \in Units
        BY DEF Unit, Units, UnitKinds
      <4>4. s \in Seq(Units)
        <5>1. DOMAIN k = 1 .. Len(k) /\ Len(k) \in Nat /\ \A i \in 1 .. Len(k) : k[i] \in {"byte", "nul"}
          BY <4>2
        <5> QED
          BY <4>3, <5>1
      <4>5. stream \in Seq(Units) /\ <<Unit("nul")>> \in Seq(Units)
        BY <1>1, <4>3 DEF Conversation, Wires
      <4> DEFINE e == <<Unit("nul")>>
      <4> HIDE DEF s, e
      <4>6. stream \o s \in Seq(Units) /\ stream \o s # << >> /\ (stream \o s)[1] = stream[1]
        BY <1>3, <3>1, <4>4, <4>5, AppendWires
      <4> DEFINE a == stream \o s
      <4> HIDE DEF a
      <4>7. (a \o e)[1] = a[1]
        BY <4>5, <4>6, AppendWires DEF a, e
      <4> QED
        BY <3>2, <4>6, <4>7 DEF a, e
    <3> QED
      BY <1>3, <3>1, <3>3, InvalidType DEF Coming
  <2> QED
    BY <2>1, <2>2
<1>8. Fresh'
  BY <1>2, <1>5, <1>7, FreshStays DEF Orderly
<1> QED
  BY <1>2, <1>4, <1>6, <1>8, PlanOrderly

LEMMA SourceOrderly ==
  ASSUME SCPInv, Orderly, client = "source", Source
  PROVE  Orderly'
<1>1. todo' = todo \/ SourceStats \/ SourceSends \/ SourceLists \/ SourceSendsData
  BY DEF Source, SourceGetsAck, SourceGetsNoAck, SourceDone, SourceIOError
<1> QED
  BY <1>1, StopsOrderly, PlansOrderly, SendsOrderly, DataOrderly

LEMMA EnvironmentOrderly ==
  ASSUME SCPInv, Orderly, client = "source", Change \/ Disconnect
  PROVE  Orderly'
<1>1. UNCHANGED <<opts, todo, fs, phase, dir, file>>
  BY DEF Change, Disconnect, sinkVars
<1>2. (phase' # "done" => IsDirectory(dir')) /\ Conversation
  BY <1>1 DEF Orderly, SCPInv
<1>3. CASE Disconnect
  <2>1. stream \in Seq(Units) /\ stream' \in Prefixes(stream) /\ src' = src
    BY <1>2, <1>3 DEF Disconnect, Conversation, Wires
  <2>2. stream' # << >> => stream # << >> /\ stream'[1] = stream[1]
    <3>1. PICK n \in 0 .. Len(stream) : stream' = SubSeq(stream, 1, n)
      BY <2>1 DEF Prefixes
    <3> QED
      BY <2>1, <3>1
  <2>3. \A p : Coming(p)' => Coming(p)
    BY <1>1, <2>2 DEF Coming
  <2> QED
    BY <1>1, <1>2, <2>1, <2>3, StillOrderly DEF Busy
<1>4. CASE Change
  <2>1. PICK i \in DOMAIN todo, c \in Contents :
          /\ todo[i].op = "data"
          /\ src' = [src EXCEPT ![todo[i].path].content = c]
    BY <1>4 DEF Change
  <2>2. IsTask(todo[i]) /\ SourceTree
    BY <1>2 DEF Conversation, Plan, Walk, Steps
  <2> DEFINE p == todo[i].path
  <2>3. p \in DOMAIN src /\ ~src[p].dir
    BY <2>1, <2>2 DEF IsTask
  <2> HIDE DEF p
  <2>4. /\ DOMAIN src' = DOMAIN src
        /\ \A q \in DOMAIN src : src'[q].dir = src[q].dir /\ (q # p => src'[q] = src[q])
    <3>1. src' = [src EXCEPT ![p].content = c]
      BY <2>1 DEF p
    <3> QED
      BY <2>2, <2>3, <3>1 DEF SourceTree
  <2>5. Kept(src, src') /\ Kept(fs, fs') /\ \A q : Coming(q)' => Coming(q)
    BY <1>1, <1>4, <2>4 DEF Kept, Change, sinkVars, Coming
  <2>6. \A q \in DOMAIN src : src'[q].dir => src'[q].content = << >>
    BY <2>3, <2>4 DEF Orderly, Rooted
  <2>7. \A q \in DOMAIN fs : fs'[q].dir => fs'[q].content = << >>
    BY <1>1 DEF Orderly, Rooted
  <2> QED
    BY <1>1, <1>2, <2>4, <2>5, <2>6, <2>7, QuietOrderly DEF Busy
<1> QED
  BY <1>3, <1>4

LEMMA SinkOrderly ==
  ASSUME SCPInv, Orderly, client = "source", Sink, UNCHANGED clientVars
  PROVE  Orderly'
BY StepsOrderly, ContentOrderly, FileOrderly, DirectoryOrderly DEF Sink

LEMMA NextOrderly ==
  ASSUME SCPInv, Orderly, client = "source", [Next]_vars
  PROVE  Orderly'
<1>1. (Sink /\ UNCHANGED clientVars) \/ Source \/ Change \/ Disconnect \/ UNCHANGED vars
  BY SourceOnly
<1>2. CASE UNCHANGED vars
  <2>1. UNCHANGED <<opts, todo, fs, src, phase, dir, file, stream>>
    BY <1>2 DEF vars, sinkVars, clientVars
  <2> QED
    BY <2>1, StillOrderly DEF Orderly, Coming, Busy
<1> QED
  BY <1>1, <1>2, SinkOrderly, SourceOrderly, EnvironmentOrderly

\* At first there are the directories that lead to the target.
LEMMA NotAbove ==
  ASSUME NEW p \in Paths, p # << >>
  PROVE  Target \o p \notin Prefixes(Target)
<1>1. Len(Target \o p) = Len(Target) + Len(p) /\ Len(Target) \in Nat /\ Len(p) \in Nat /\ Len(p) # 0
  <2>1. Len(Target \o p) = Len(Target) + Len(p)
    BY InTarget
  <2> QED
    BY <2>1, TargetAssumption DEF Paths
<1>2. \A q \in Prefixes(Target) : Len(q) \in 0 .. Len(Target)
  BY PrefixTypes, TargetAssumption DEF Paths
<1>3. Len(Target \o p) \notin 0 .. Len(Target)
  <2>1. \A n, m, l \in Nat : l = n + m /\ m # 0 => l \notin 0 .. n
    OBVIOUS
  <2>2. Len(Target \o p) \in Nat
    BY <1>1
  <2> QED
    BY <1>1, <2>1, <2>2
<1> QED
  BY <1>2, <1>3

LEMMA InitOrderly ==
  ASSUME Init, client = "source"
  PROVE  Orderly
<1>1. /\ fs = [p \in Prefixes(Target) |-> Directory] /\ src \in Trees
      /\ phase = "new" /\ dir = Target /\ todo = <<Task("stat", Top)>>
      /\ "t" \in opts /\ "f" \notin opts
  BY DEF Init, SinkInit
<1>2. Target \in Paths
  BY TargetAssumption DEF Paths
<1>3. \A q \in DOMAIN fs : fs[q].dir = TRUE /\ fs[q].content = << >>
  BY <1>1 DEF Directory
<1>4. SourceTree
  BY InitConversation DEF Conversation, Plan
<1>5. Rooted
  BY <1>1, <1>3, TreesAssumption DEF Rooted
<1>6. Nested
  BY <1>1, <1>2, <1>3, PrefixOfPrefix DEF Nested, IsDirectory
<1>7. IsDirectory(dir)
  BY <1>1, <1>2, <1>3, OwnPrefix DEF IsDirectory
<1>8. Planned
  BY <1>1, MeetsOne DEF Planned
<1>9. Fresh
  <2>1. \A p \in DOMAIN src : Target \o p \notin DOMAIN fs /\ ~Coming(p)
    BY <1>1, <1>4, NotAbove DEF SourceTree, Coming
  <2> QED
    BY <2>1 DEF Fresh
<1>10. FileOpen
  BY <1>1 DEF FileOpen, Busy
<1> QED
  BY <1>1, <1>5, <1>6, <1>7, <1>8, <1>9, <1>10 DEF Orderly

-----------------------------------------------------------------------------
(***************************************************************************)
(* The sizes that are announced.                                           *)
(***************************************************************************)
Announced(t) ==
  t.op \in {"C", "data"} => Changed(t.path) \/ t.size = Len(src[t.path].content)
AnnouncedTasks == {t \in TaskSet : Announced(t)}

LEMMA SizedIs ==
  ASSUME NEW s \in Seq(TaskSet)
  PROVE  s \in Seq(AnnouncedTasks) <=> \A i \in 1 .. Len(s) : Announced(s[i])
<1>1. ASSUME s \in Seq(AnnouncedTasks) PROVE \A i \in 1 .. Len(s) : Announced(s[i])
  BY <1>1 DEF AnnouncedTasks
<1>2. ASSUME \A i \in 1 .. Len(s) : Announced(s[i]) PROVE s \in Seq(AnnouncedTasks)
  <2>1. \A i \in 1 .. Len(s) : s[i] \in TaskSet
    OBVIOUS
  <2>2. \A i \in 1 .. Len(s) : s[i] \in AnnouncedTasks
    BY <1>2, <2>1 DEF AnnouncedTasks
  <2> QED
    BY <2>2
<1> QED
  BY <1>1, <1>2

LEMMA TodoSized ==
  ASSUME Plan
  PROVE  Sized <=> /\ todo \in Seq(AnnouncedTasks)
                   /\ \A p \in DOMAIN src : Changed(p) \/ Len(src[p].content) < TwoTo63
<1>1. todo \in Seq(TaskSet)
  BY DEF Plan, Walk, Steps
<1> QED
  BY <1>1, SizedIs DEF Sized, Announced

LEMMA ExactSized ==
  ASSUME NEW s \in Seq(ExactTasks)
  PROVE  s \in Seq(AnnouncedTasks)
<1>1. ExactTasks \subseteq AnnouncedTasks
  BY DEF ExactTasks, AnnouncedTasks, Exact, Announced
<1> QED
  BY <1>1

LEMMA SourceSized ==
  ASSUME Conversation, Conversation', Sized, Source
  PROVE  Sized'
<1>1. Plan /\ Plan' /\ SourceTree /\ todo \in Seq(AnnouncedTasks) /\ todo \in Seq(TaskSet)
  BY TodoSized DEF Conversation, Plan, Walk, Steps
<1>2. UNCHANGED <<src, changes>>
  BY DEF Source, SourceStats, SourceSends, SourceLists, SourceSendsData,
     SourceGetsAck, SourceGetsNoAck, SourceDone, SourceIOError, SourceUnchanged
<1>3. todo' \in Seq(AnnouncedTasks)
  <2>1. CASE todo' = todo
    BY <1>1, <2>1
  <2>2. CASE SourceStats /\ todo' # todo
    <3>1. Top \in DOMAIN src /\ todo' = Tasks(Top)
      BY <1>1, <2>2 DEF SourceStats, Top, SourceTree
    <3> QED
      BY <1>1, <3>1, TasksExact, ExactSized
  <2>3. CASE (SourceSends \/ SourceSendsData) /\ todo' # todo
    <3>1. todo # << >> /\ todo' = Tail(todo)
      BY <2>3 DEF SourceSends, SourceSendsData, Sending
    <3> QED
      BY <1>1, <3>1
  <2>4. CASE SourceLists
    <3> DEFINE p == Head(todo).path
               l == Listed(p)
               e == Task("E", p)
               w == Tail(todo)
    <3>1. todo # << >> /\ todo' = l \o <<e>> \o w
      BY <2>4 DEF SourceLists, Sending, Listed
    <3>2. p \in DOMAIN src
      <4>1. Head(todo) = todo[1] /\ 1 \in 1 .. Len(todo)
        BY <1>1, <3>1
      <4> QED
        BY <1>1, <4>1 DEF Plan, Walk, Steps, IsTask
    <3>3. l \in Seq(ExactTasks)
      BY <1>1, ListedExact
    <3>4. e \in AnnouncedTasks
      <4>1. e \in TaskSet /\ e.op = "E"
        BY <1>1, <3>2, OneTask DEF Ops
      <4> HIDE DEF e
      <4> QED
        BY <4>1 DEF AnnouncedTasks, Announced
    <3>5. w \in Seq(AnnouncedTasks)
      BY <1>1, <3>1
    <3> HIDE DEF p, l, e, w
    <3>6. l \in Seq(AnnouncedTasks)
      BY <3>3, ExactSized
    <3> DEFINE a == <<e>>
    <3>7. a \in Seq(AnnouncedTasks)
      BY <3>4
    <3> HIDE DEF a
    <3>8. l \o a \o w \in Seq(AnnouncedTasks)
      BY <3>5, <3>6, <3>7
    <3> QED
      BY <3>1, <3>8 DEF a
  <2> QED
    BY <2>1, <2>2, <2>3, <2>4 DEF Source, SourceGetsAck, SourceGetsNoAck, SourceDone, SourceIOError
<1>4. /\ AnnouncedTasks' = AnnouncedTasks
      /\ \A p : Changed(p)' <=> Changed(p)
  BY <1>2 DEF AnnouncedTasks, Announced, Changed
<1>5. todo' \in Seq(AnnouncedTasks')
  BY <1>3, <1>4
<1>6. \A p \in DOMAIN src' : Changed(p)' \/ Len(src'[p].content) < TwoTo63
  BY <1>1, <1>2, <1>4, TodoSized
<1>7. (Plan => (Sized <=> /\ todo \in Seq(AnnouncedTasks)
                   /\ \A p \in DOMAIN src : Changed(p) \/ Len(src[p].content) < TwoTo63))'
  BY TodoSized, PTL
<1> QED
  BY <1>1, <1>5, <1>6, <1>7

LEMMA ChangedMore ==
  ASSUME Change
  PROVE  \A p : Changed(p) => Changed(p)'
BY DEF Change, Changed

\* What a change of a file leaves alone.
LEMMA ChangedWhich ==
  ASSUME NEW p, NEW z, changes' = changes \cup {<<p, z>>}
  PROVE  \A q : Changed(q)' <=> Changed(q) \/ q = p
<1> TAKE q
<1>1. <<p, z>>[1] = p
  OBVIOUS
<1>2. \A c : c \in changes' <=> c \in changes \/ c = <<p, z>>
  OBVIOUS
<1>3. (\E c \in changes' : c[1] = q) <=> (\E c \in changes : c[1] = q) \/ q = p
  BY <1>1, <1>2
<1> QED
  BY <1>3 DEF Changed

LEMMA FileChanges ==
  ASSUME Conversation, Change
  PROVE  \E i \in 1 .. Len(todo), p \in DOMAIN src, c \in Seq({"byte", "nul"}) :
           /\ todo[i].op = "data" /\ p = todo[i].path /\ IsTask(todo[i]) /\ ~src[p].dir
           /\ src' = [src EXCEPT ![p].content = c]
           /\ \A q : Changed(q)' <=> Changed(q) \/ q = p
<1>1. SourceTree /\ Walk(todo) /\ todo \in Seq(TaskSet) /\ DOMAIN todo = 1 .. Len(todo)
  BY DEF Conversation, Plan, Walk, Steps
<1>2. PICK i \in DOMAIN todo, c \in Contents :
          /\ todo[i].op = "data"
          /\ src' = [src EXCEPT ![todo[i].path].content = c]
          /\ changes' = changes \cup {<<todo[i].path, todo[i].size>>}
  BY DEF Change
<1>3. PICK p, z : p = todo[i].path /\ z = todo[i].size
  OBVIOUS
<1>4. IsTask(todo[i]) /\ i \in 1 .. Len(todo)
  BY <1>1 DEF Walk, Steps
<1>5. p \in DOMAIN src /\ ~src[p].dir
  BY <1>2, <1>3, <1>4 DEF IsTask
<1>6. src' = [src EXCEPT ![p].content = c] /\ c \in Seq({"byte", "nul"})
  BY <1>2, <1>3, ContentsAssumption
<1>7. \A q : Changed(q)' <=> Changed(q) \/ q = p
  BY <1>2, <1>3, ChangedWhich
<1> QED
  BY <1>2, <1>3, <1>4, <1>5, <1>6, <1>7

LEMMA FileChanged ==
  ASSUME SourceTree, NEW p \in DOMAIN src, NEW c, src' = [src EXCEPT ![p].content = c]
  PROVE  /\ DOMAIN src' = DOMAIN src
         /\ \A q \in DOMAIN src : q # p => src'[q] = src[q]
         /\ src'[p].dir = src[p].dir /\ src'[p].time = src[p].time
         /\ src'[p].content = c
BY DEF SourceTree

LEMMA ChangeSized ==
  ASSUME Conversation, Sized, Change
  PROVE  Sized'
<1>1. PICK i \in 1 .. Len(todo), p \in DOMAIN src, c \in Seq({"byte", "nul"}) :
           /\ todo[i].op = "data" /\ p = todo[i].path /\ ~src[p].dir
           /\ src' = [src EXCEPT ![p].content = c]
           /\ \A q : Changed(q)' <=> Changed(q) \/ q = p
  BY FileChanges
<1>2. /\ DOMAIN src' = DOMAIN src
      /\ \A q \in DOMAIN src : q # p => src'[q] = src[q]
  BY <1>1, FileChanged DEF Conversation, Plan
<1>3. todo' = todo
  BY DEF Change
<1>4. \A j \in 1 .. Len(todo) : todo[j].path \in DOMAIN src
  BY DEF Conversation, Plan, Walk, Steps, IsTask
<1>5. ASSUME NEW q \in DOMAIN src, NEW n, Changed(q) \/ n = Len(src[q].content)
      PROVE  Changed(q)' \/ n = Len(src'[q].content)
  BY <1>1, <1>2, <1>5
<1>6. ASSUME NEW j \in 1 .. Len(todo), todo[j].op \in {"C", "data"}, NEW q, q = todo[j].path
      PROVE  Changed(q)' \/ todo[j].size = Len(src'[q].content)
  BY <1>4, <1>5, <1>6 DEF Sized
<1>7. ASSUME NEW q \in DOMAIN src'
      PROVE  Changed(q)' \/ Len(src'[q].content) < TwoTo63
  BY <1>1, <1>2 DEF Sized
<1>8. PICK s : s = todo
  OBVIOUS
<1>9. \A j \in 1 .. Len(s) : s[j].op \in {"C", "data"} =>
        Changed(s[j].path)' \/ s[j].size = Len(src'[s[j].path].content)
  BY <1>6, <1>8
<1>10. s = todo'
  BY <1>3, <1>8
<1>11. \A j \in 1 .. Len(todo') : todo'[j].op \in {"C", "data"} =>
         (\E d \in changes' : d[1] = todo'[j].path)
           \/ todo'[j].size = Len(src'[todo'[j].path].content)
  BY <1>9, <1>10 DEF Changed
<1>12. \A q \in DOMAIN src' :
         (\E d \in changes' : d[1] = q) \/ Len(src'[q].content) < TwoTo63
  BY <1>7 DEF Changed
<1> QED
  BY <1>11, <1>12 DEF Sized, Changed

LEMMA NextSized ==
  ASSUME SCPInv, SCPInv', Sized, client = "source", [Next]_vars
  PROVE  Sized'
<1>1. /\ client' = client
      /\ (Sink /\ UNCHANGED clientVars) \/ Source \/ Change \/ Disconnect \/ UNCHANGED vars
  BY SourceOnly
<1>2. Conversation /\ Conversation'
  BY <1>1 DEF SCPInv
<1>3. CASE (Sink /\ UNCHANGED clientVars) \/ Disconnect \/ UNCHANGED vars
  <2>1. UNCHANGED <<todo, src, changes>>
    BY <1>3 DEF clientVars, vars, Disconnect
  <2> QED
    BY <2>1 DEF Sized, Changed
<1> QED
  BY <1>1, <1>2, <1>3, SourceSized, ChangeSized

LEMMA InitSized ==
  ASSUME Init, client = "source"
  PROVE  Sized
<1>1. src \in Trees /\ todo = <<Task("stat", Top)>>
  BY DEF Init
<1>2. Len(todo) = 1 /\ todo[1].op = "stat"
  BY <1>1 DEF Task
<1>3. \A i \in 1 .. Len(todo) : i = 1
  BY <1>2
<1> QED
  BY <1>1, <1>2, <1>3, TreesAssumption DEF Sized

-----------------------------------------------------------------------------
(***************************************************************************)
(* The second part of the invariant.  While the source goes on, nothing is *)
(* forgotten unless it is to read an error.                                *)
(***************************************************************************)
\* What the lemmas of this part begin with, and end with.
Going ==
  /\ SCPInv /\ Orderly /\ Sized /\ Lively
  /\ client = "source" /\ Live /\ ~Doomed
GoesOn == SCPInv' /\ Orderly' /\ client' = "source" /\ Live' /\ ~Doomed' /\ ~closed'

LEMMA GoingIs ==
  ASSUME Going
  PROVE  /\ Conversation /\ TimeInv /\ SinkTypes /\ SourceTree /\ Wires /\ todo \in Seq(TaskSet)
         /\ ~closed /\ phase # "done"
         /\ outcome = "running" /\ linkUp
         /\ New \/ Resting \/ (\E t \in TaskSet : UnderWay(t)) \/ Spoilt
         /\ \A p \in DOMAIN src :
              Meets(todo, Makers(p)) \/ Coming(p) \/ Receiving(p) \/ Complete(p)
BY DEF Going, SCPInv, Conversation, Plan, Walk, Steps, Lively, Exchange, Progress, Live, Talk

\* An error that the source waits for.
LEMMA AbortDooms ==
  ASSUME waiting, acks = << >>, Abort, UNCHANGED clientVars
  PROVE  Doomed'
<1>1. acks' = <<"error">> /\ waiting' = TRUE
  BY DEF Abort, clientVars
<1> QED
  BY <1>1 DEF Doomed, Abort

\* A node that is complete stays so when nobody writes to it.
LEMMA CompleteStays ==
  ASSUME UNCHANGED <<opts, src, changes>>, NEW p \in DOMAIN src, Complete(p),
         NEW q, q = Target \o p, q \in DOMAIN fs',
         fs'[q].dir = fs[q].dir, fs'[q].content = fs[q].content,
         ~fs[q].dir => fs'[q].time = fs[q].time /\ ~(file' = q /\ phase' = "content")
  PROVE  Complete(p)'
<1>1. q \in DOMAIN fs /\ fs[q].dir = src[p].dir
  BY DEF Complete, Arrived
<1>2. Arrived(p)'
  BY <1>1 DEF Complete, Arrived, Changed, times
<1>3. Settled(p)'
  BY DEF Complete, Settled
<1> QED
  BY <1>2, <1>3 DEF Complete

LEMMA CompleteHere ==
  ASSUME NEW p, Complete(p)
  PROVE  Target \o p \in DOMAIN fs /\ ~(~src[p].dir /\ file = Target \o p /\ phase = "content")
BY DEF Complete, Arrived

\* The file system is left alone.
LEMMA AllStay ==
  ASSUME UNCHANGED <<opts, src, changes, fs>>, phase' # "content" \/ UNCHANGED <<phase, file>>,
         NEW p \in DOMAIN src, Complete(p)
  PROVE  Complete(p)'
<1>1. Target \o p \in DOMAIN fs /\ ~(~src[p].dir /\ file = Target \o p /\ phase = "content")
  BY CompleteHere
<1>2. fs[Target \o p].dir = src[p].dir
  BY DEF Complete, Arrived
<1> QED
  BY <1>1, <1>2, CompleteStays

\* The source that is to read an error needs no more.
LEMMA DoomedLively ==
  ASSUME Conversation, Doomed, ~closed
  PROVE  Lively
<1>1. phase \in {"header", "done"} /\ ~Busy
  BY DEF Doomed, Busy
<1>2. ASSUME NEW p \in DOMAIN src, Coming(p), NextMessage = Invalid
      PROVE  FALSE
  <2>1. SourceTree /\ p \in Paths
    BY DEF Conversation, Plan, SourceTree
  <2>2. PICK t \in TaskSet : UnderWay(t) /\ IsTask(t) /\ t.op \in {"C", "D"}
    BY <1>2, <2>1, ComingIs
  <2>3. stream = <<Line(String(MessageFor(t)))>> /\ Line(String(MessageFor(t))).kind = "line"
    BY <2>1, <2>2, Said DEF UnderWay
  <2>4. NextMessage = stream[1].message
    BY <2>3, OneLine
  <2> QED
    BY <1>2, <2>4, InvalidType DEF Coming
<1>3. ASSUME NEW p \in DOMAIN src, Due(p)
      PROVE  FALSE
  <2>1. phase = "header" /\ LineEnds # {} /\ NextMessage = Invalid
    BY <1>3 DEF Due, Doomed
  <2> QED
    BY <1>2, <1>3, <2>1, NoLine DEF Due
<1>4. Exchange
  BY DEF Exchange
<1>5. Progress
  BY DEF Progress
<1>6. Fills
  BY <1>1 DEF Fills, Receiving
<1>7. OnTime
  BY <1>3 DEF OnTime
<1> QED
  BY <1>4, <1>5, <1>6, <1>7 DEF Lively

\* What does not become doomed goes on.
LEMMA StaysDoomed ==
  ASSUME Conversation, Doomed, ~closed, Live, client = "source", [Next]_vars, Live'
  PROVE  Doomed'
<1>1. (Sink /\ UNCHANGED clientVars) \/ Source \/ Change \/ Disconnect \/ UNCHANGED vars
  BY SourceOnly
<1>2. outcome' = "running" /\ linkUp' /\ linkUp
  BY DEF Live
<1>3. ~Disconnect
  BY <1>2 DEF Disconnect
<1>4. CASE Change \/ UNCHANGED vars
  <2>1. UNCHANGED <<waiting, phase, acks, todo, stream>>
    BY <1>4 DEF Change, vars, sinkVars, clientVars
  <2>2. LineEnds' = LineEnds /\ NextMessage' = NextMessage
    BY <2>1 DEF LineEnds, NextMessage, FirstLineEnd
  <2> QED
    BY <2>1, <2>2 DEF Doomed, DataNext
<1>5. CASE Sink /\ UNCHANGED clientVars
  <2>1. phase \in {"header", "done"}
    BY DEF Doomed
  <2>2. phase = "header" /\ waiting /\ acks = << >> /\ LineEnds # {} /\ NextMessage = Invalid
    BY <2>1, <1>5 DEF Doomed, Sink, SinkStarts, ReceiveC, ReceiveD, ReceiveE, ReceiveT, Receives,
                      RejectMessage, CopyByte, FileWritten, ReceiveEnd, EndOfStream, SinkIOError
  <2>3. RejectMessage
    BY <2>2, <1>5, InvalidType
    DEF Sink, SinkStarts, ReceiveC, ReceiveD, ReceiveE, ReceiveT, Receives,
        CopyByte, FileWritten, ReceiveEnd, EndOfStream, SinkIOError
  <2> QED
    BY <2>2, <2>3, <1>5, AbortDooms DEF RejectMessage
<1>6. CASE Source
  <2>1. SourceSendsData \/ SourceGetsAck \/ SourceSends \/ SourceStats \/ SourceLists
    BY <1>2, <1>6 DEF Source, SourceGetsNoAck, SourceDone, SourceIOError, SourceFails
  <2>2. CASE SourceGetsAck
    <3>1. waiting /\ acks # << >> /\ acks' = Tail(acks) /\ waiting' = FALSE /\ Head(acks) = "ok"
          /\ UNCHANGED <<todo, phase>>
      BY <1>2, <2>2 DEF SourceGetsAck, SourceFails, SourceUnchanged
    <3>2. DataNext /\ phase = "done" /\ acks = <<"ok", "error">>
      BY <3>1 DEF Doomed
    <3>3. acks' = <<"error">>
      BY <3>1, <3>2
    <3> QED
      BY <3>1, <3>2, <3>3 DEF Doomed, DataNext
  <2>3. CASE SourceSendsData \/ SourceSends \/ SourceStats \/ SourceLists
    <3>1. ~waiting /\ todo # << >>
          /\ Head(todo).op \in (IF SourceSendsData THEN {"data"} ELSE {"stat", "T", "C", "D", "E", "list"})
      BY <2>3 DEF SourceSendsData, SourceSends, SourceStats, SourceLists, Sending
    <3>2. DataNext /\ phase = "done" /\ acks = <<"error">>
      BY <3>1 DEF Doomed
    <3>3. SourceSendsData
      BY <3>1, <3>2 DEF DataNext
    <3>4. waiting' = TRUE /\ UNCHANGED <<acks, phase>>
      BY <1>2, <3>3 DEF SourceSendsData, SourceFails, SourceUnchanged
    <3> QED
      BY <3>2, <3>4 DEF Doomed
  <2> QED
    BY <2>1, <2>2, <2>3
<1> QED
  BY <1>1, <1>3, <1>4, <1>5, <1>6

\* A time is set for the node that is due.
LEMMA DueIsTimed ==
  ASSUME SCPInv, client = "source", Live, times, stream = << >>, NEW p, Due(p)
  PROVE  timeSet
<1>1. phase = "header" /\ todo # << >> /\ todo[1].op \in {"C", "D"}
  BY DEF Due, Coming
<1>2. Conversation /\ TimeInv
  BY DEF SCPInv
<1>3. ~New /\ ~Spoilt /\ \A t \in TaskSet : ~UnderWay(t)
  BY <1>1 DEF New, Spoilt, UnderWay, Live
<1>4. Resting
  BY <1>1, <1>2, <1>3 DEF Conversation, Talk
<1>5. FitsTimed(state)
  BY <1>1, <1>4 DEF Resting, Ready
<1>6. state \in Timed
  BY <1>5 DEF FitsTimed, Timed
<1> QED
  BY <1>1, <1>2, <1>6 DEF TimeInv

LEMMA NotDue ==
  ASSUME SCPInv, client = "source", Live, ~timeSet, stream = << >>
  PROVE  OnTime
BY DueIsTimed DEF OnTime

LEMMA StartsLively ==
  ASSUME Going, GoesOn, SinkStarts, UNCHANGED clientVars
  PROVE  Lively'
<1>1. phase = "new" /\ "t" \in opts /\ "f" \notin opts
  BY DEF SinkStarts, Going, Orderly
<1>2. phase' = "header" /\ UNCHANGED <<opts, stream, fs, timeSet>> /\ UNCHANGED <<todo, src, changes>>
  BY <1>1 DEF SinkStarts, clientVars
<1>3. todo # << >> /\ todo[1].op = "stat" /\ stream = << >> /\ ~timeSet
  BY <1>1, GoingIs DEF New, Resting, UnderWay, Spoilt, TimeInv
<1>4. Exchange'
  BY <1>2, <1>3 DEF Exchange, GoesOn
<1>5. \A p \in DOMAIN src : Meets(todo, Makers(p))
  BY <1>3, GoingIs, StatsMeet DEF Going, Orderly
<1>6. \A p \in DOMAIN src' : Meets(todo', Makers(p))
  BY <1>2, <1>5
<1>7. Progress'
  BY <1>6 DEF Progress
<1>8. Fills'
  BY <1>2 DEF Fills, Receiving, Busy
<1>9. (SCPInv /\ client = "source" /\ Live /\ ~timeSet /\ stream = << >> => OnTime)'
  BY NotDue, PTL
<1>10. OnTime'
  BY <1>2, <1>3, <1>9 DEF GoesOn
<1> QED
  BY <1>4, <1>7, <1>8, <1>10 DEF Lively

\* What is left when a message has been taken: the stream is empty, and each node
\* is where it was unless it was the one that came.
LEMMA TakenLively ==
  ASSUME Going, GoesOn, UNCHANGED <<todo, src, client>>, stream' = << >>,
         ~Busy, phase' # "done",
         \A p \in DOMAIN src : Coming(p) => Receiving(p)' \/ Complete(p)',
         \A p \in DOMAIN src : Complete(p) => Complete(p)',
         Fills', OnTime'
  PROVE  Lively'
<1>1. Exchange'
  BY DEF Exchange, GoesOn
<1>2. ASSUME NEW p \in DOMAIN src
      PROVE  Meets(todo', Makers(p)) \/ Receiving(p)' \/ Complete(p)'
  <2>1. Meets(todo, Makers(p)) \/ Coming(p) \/ Receiving(p) \/ Complete(p)
    BY GoingIs
  <2>2. ~Receiving(p)
    BY DEF Receiving
  <2> QED
    BY <2>1, <2>2
<1>3. Progress'
  BY <1>2 DEF Progress
<1> QED
  BY <1>1, <1>3 DEF Lively

\* The size that is announced is the one that the file has, if it did not change.
LEMMA AnnouncedSize ==
  ASSUME Going, NEW t \in TaskSet, UnderWay(t), IsTask(t), t.op = "C"
  PROVE  /\ DataNext /\ todo[1].path = t.path
         /\ Changed(t.path) \/ Limit(t.size) = Len(src[t.path].content)
<1>1. SourceTree /\ Walk(todo) /\ Linked(t, todo) /\ t.path \in DOMAIN src
  BY GoingIs DEF UnderWay, Conversation, Plan, IsTask
<1>2. todo # << >> /\ todo[1].op = "data" /\ todo[1].size = t.size /\ todo[1].path = t.path
  BY <1>1, AfterTask
<1>3. 1 \in 1 .. Len(todo)
  BY <1>2, GoingIs
<1>4. /\ Changed(t.path) \/ todo[1].size = Len(src[t.path].content)
      /\ Changed(t.path) \/ Len(src[t.path].content) < TwoTo63
  BY <1>1, <1>2, <1>3 DEF Going, Sized
<1> QED
  BY <1>2, <1>4 DEF DataNext, Limit

LEMMA FileLively ==
  ASSUME Going, GoesOn, ReceiveC, UNCHANGED clientVars
  PROVE  Lively'
<1>1. UNCHANGED <<client, src, todo, changes, time, timeSet, opts>> /\ Receives("C")
  BY DEF ReceiveC, clientVars
<1>2. PICK t \in TaskSet :
           /\ UnderWay(t) /\ IsTask(t) /\ t.op = "C" /\ NextMessage = MessageFor(t)
           /\ SubSeq(stream, FirstLineEnd + 1, Len(stream)) = << >>
           /\ Coming(t.path) /\ t.path \in DOMAIN src /\ t.path \in Paths
           /\ NextMessage.name = Name(t.path) /\ Name(t.path) \in Names
           /\ Target \o t.path \in Paths
           /\ Append(dir, Name(t.path)) = Target \o t.path
           /\ Target \o t.path \notin DOMAIN fs
           /\ phase = "header" /\ IsDirectory(dir) /\ dir \in Paths
  BY <1>1, Creation DEF Going
<1>3. waiting /\ acks = << >>
  BY <1>2, GoingIs DEF UnderWay
<1>4. phase' # "done"
  BY <1>3, AbortDooms DEF ReceiveC, Abort, GoesOn
<1> PICK p, d : p = t.path /\ d = Target \o t.path
  OBVIOUS
<1>5. /\ fs' = WithNode(d, EmptyFile) /\ file' = d /\ Parent(d) = dir
      /\ phase' = "content" /\ left' = Limit(NextMessage.length)
  BY <1>2, <1>4, FileCreated DEF Going
<1>6. stream' = << >>
  BY <1>2 DEF ReceiveC, ReadLine
<1>7. IsTree(fs) /\ d \notin DOMAIN fs
  BY <1>2, GoingIs DEF SinkTypes
<1>8. DOMAIN fs' = DOMAIN fs \cup {d} /\ fs'[d] = EmptyFile
  BY <1>5, NodeIsNew
<1>9. ASSUME NEW r \in DOMAIN src, Complete(r)
      PROVE  Complete(r)'
  <2> PICK q : q = Target \o r
    OBVIOUS
  <2>1. q \in DOMAIN fs
    BY <1>9, CompleteHere
  <2>2. /\ fs'[q].dir = fs[q].dir
        /\ fs'[q].content = fs[q].content
        /\ q # dir => fs'[q] = fs[q]
    <3>1. /\ WithNode(d, EmptyFile)[q].dir = fs[q].dir
          /\ WithNode(d, EmptyFile)[q].content = fs[q].content
          /\ q # Parent(d) => WithNode(d, EmptyFile)[q] = fs[q]
      BY <2>1, <1>7, OthersStay
    <3> QED
      BY <3>1, <1>5
  <2>3. ~fs[q].dir => fs'[q].time = fs[q].time /\ ~(file' = q /\ phase' = "content")
    BY <2>1, <2>2, <1>2, <1>5, <1>7 DEF IsDirectory
  <2>4. q \in DOMAIN fs'
    BY <2>1, <1>8
  <2> QED
    BY <2>2, <2>3, <2>4, <1>1, <1>9, CompleteStays
<1>10. ASSUME NEW r \in DOMAIN src, d = Target \o r
       PROVE  r = p
  BY <1>2, <1>10, GoingIs, InTarget DEF SourceTree
<1>11. Coming(p) /\ \A r \in DOMAIN src : Coming(r) => r = p
  <2>1. Coming(p) => Target \o p = Append(dir, stream[1].message.name)
    BY DEF Coming
  <2>2. \A r \in DOMAIN src : Coming(r) => Target \o r = Append(dir, stream[1].message.name)
    BY DEF Coming
  <2> QED
    BY <2>1, <2>2, <1>2, <1>10
<1>12. Receiving(p)'
  BY <1>5 DEF Receiving, Busy
<1>13. Filling(p)'
  <2>1. /\ DataNext
        /\ Changed(p) \/ Limit(t.size) = Len(src[p].content)
    BY <1>2, AnnouncedSize
  <2>2. left' = Limit(t.size)
    BY <1>2, <1>5 DEF MessageFor, CMessage
  <2>3. times => timeSet /\ time = src[p].time
    <3>1. Due(p)
      BY <1>2, <1>11 DEF Due
    <3>2. times => FitsTimed(state)
      BY <1>2 DEF UnderWay, Ready
    <3>3. times => state \in Timed
      BY <3>2 DEF FitsTimed, Timed
    <3>4. times => timeSet
      BY <3>3, <1>2, GoingIs DEF TimeInv
    <3> QED
      BY <3>1, <3>4, <1>2 DEF Going, Lively, OnTime
  <2>4. fs'[file'].content = << >>
    BY <1>5, <1>8 DEF EmptyFile
  <2>5. Changed(p)' <=> Changed(p)
    BY <1>1 DEF Changed
  <2>6. times' = times /\ DataNext' = DataNext
    BY <1>1 DEF times, DataNext
  <2>7. left' \in Nat
    BY DEF GoesOn, SCPInv, SinkTypes
  <2>8. Changed(p)' \/ Len(fs'[file'].content) + left' = Len(src'[p].content)
    BY <2>1, <2>2, <2>4, <2>5, <2>7, <1>1
  <2>9. times' => timeSet' /\ time' = src'[p].time
    BY <2>3, <2>6, <1>1
  <2> QED
    BY <2>1, <2>4, <2>6, <2>8, <2>9, <1>5 DEF Filling
<1>14. Fills'
  <2>1. ASSUME NEW r \in DOMAIN src', Receiving(r)'
        PROVE  Filling(r)'
    BY <2>1, <1>1, <1>5, <1>10, <1>13 DEF Receiving
  <2> QED
    BY <2>1 DEF Fills
<1>15. OnTime'
  BY <1>5 DEF OnTime, Due
<1>16. ~Busy
  BY <1>2 DEF Busy
<1> QED
  BY <1>1, <1>4, <1>6, <1>9, <1>11, <1>12, <1>14, <1>15, <1>16, TakenLively

LEMMA DirectoryLively ==
  ASSUME Going, GoesOn, ReceiveD, UNCHANGED clientVars
  PROVE  Lively'
<1>1. UNCHANGED <<client, src, todo, changes, file, opts>> /\ Receives("D")
  BY DEF ReceiveD, clientVars
<1>2. PICK t \in TaskSet :
           /\ UnderWay(t) /\ IsTask(t) /\ t.op = "D" /\ NextMessage = MessageFor(t)
           /\ SubSeq(stream, FirstLineEnd + 1, Len(stream)) = << >>
           /\ Coming(t.path) /\ t.path \in DOMAIN src /\ t.path \in Paths
           /\ NextMessage.name = Name(t.path)
           /\ Target \o t.path \in Paths
           /\ Append(dir, Name(t.path)) = Target \o t.path
           /\ Target \o t.path \notin DOMAIN fs
           /\ \A r \in Prefixes(Target \o t.path) : r = Target \o t.path \/ IsDirectory(r)
           /\ phase = "header"
  BY <1>1, Creation DEF Going
<1> PICK p, d : p = t.path /\ d = Target \o t.path
  OBVIOUS
<1>3. /\ phase' = "header"
      /\ DOMAIN fs' = DOMAIN fs \cup {d}
      /\ fs'[d].dir = TRUE /\ fs'[d].content = << >>
      /\ \A q \in DOMAIN fs :
           /\ fs'[q].dir = fs[q].dir /\ fs'[q].content = fs[q].content
           /\ ~fs[q].dir => fs'[q] = fs[q]
  BY <1>2, DirectoryCreated DEF Going
<1>4. stream' = << >>
  BY <1>2 DEF ReceiveD, ReadLine
<1>5. ASSUME NEW r \in DOMAIN src, Complete(r)
      PROVE  Complete(r)'
  <2> PICK q : q = Target \o r
    OBVIOUS
  <2>1. q \in DOMAIN fs
    BY <1>5, CompleteHere
  <2> QED
    BY <2>1, <1>1, <1>3, <1>5, CompleteStays
<1>6. ASSUME NEW r \in DOMAIN src, Coming(r)
      PROVE  r = p
  <2>1. Target \o r = Target \o p
    BY <1>2, <1>6 DEF Coming
  <2> QED
    BY <2>1, <1>2, GoingIs, InTarget DEF SourceTree
<1>7. src[p].dir /\ src[p].content = << >>
  BY <1>2 DEF IsTask, Going, Orderly, Rooted
<1>8. Complete(p)'
  <2>1. d \in DOMAIN fs' /\ fs'[d].dir = src'[p].dir /\ src'[p].dir /\ fs'[d].content = src'[p].content
    BY <1>1, <1>3, <1>7, GoingIs DEF SourceTree
  <2>2. Arrived(p)'
    BY <2>1 DEF Arrived
  <2>3. Settled(p)'
    BY <2>1 DEF Settled
  <2> QED
    BY <2>2, <2>3 DEF Complete
<1>9. ~Busy /\ ~Busy'
  BY <1>2, <1>3 DEF Busy
<1>10. Fills'
  BY <1>9 DEF Fills, Receiving
<1>11. OnTime'
  <2>1. todo # << >> /\ todo[1].op = "list"
    BY <1>2, GoingIs, AfterTask DEF UnderWay, Conversation, Plan
  <2>2. \A r : ~Due(r)'
    BY <2>1, <1>1, <1>4 DEF Due, Coming
  <2> QED
    BY <2>2 DEF OnTime
<1> QED
  BY <1>1, <1>3, <1>4, <1>5, <1>6, <1>8, <1>9, <1>10, <1>11, TakenLively

LEMMA LeavesLively ==
  ASSUME Going, GoesOn, ReceiveE \/ ReceiveT, UNCHANGED clientVars
  PROVE  Lively'
<1>1. UNCHANGED <<client, src, todo, changes, opts, fs, file, phase>> /\ phase = "header"
  BY DEF ReceiveE, ReceiveT, Receives, clientVars
<1>2. PICK t \in TaskSet :
           /\ UnderWay(t) /\ IsTask(t) /\ NextMessage = MessageFor(t) /\ LineEnds # {}
           /\ t.op = IF ReceiveE THEN "E" ELSE "T"
           /\ SubSeq(stream, FirstLineEnd + 1, Len(stream)) = << >>
  <2>1. CASE ReceiveE
    BY <2>1, GoingIs, Taken DEF ReceiveE, Receives
  <2>2. CASE ~ReceiveE
    BY <2>2, GoingIs, Taken DEF ReceiveT, Receives
  <2> QED
    BY <2>1, <2>2
<1>3. stream' = << >>
  BY <1>2 DEF ReceiveE, ReceiveT, ReadLine
<1>4. ~Busy /\ ~Busy' /\ phase' # "done"
  BY <1>1 DEF Busy
<1>5. stream = <<Line(String(MessageFor(t)))>> /\ NextMessage = stream[1].message
      /\ MessageFor(t).type = t.op
  <2>1. stream = <<Line(String(MessageFor(t)))>> /\ Line(String(MessageFor(t))).kind = "line"
        /\ MessageFor(t).type = t.op
    BY <1>2, GoingIs, Said DEF UnderWay
  <2> QED
    BY <2>1, OneLine
<1>6. \A r : ~Coming(r)
  BY <1>2, <1>5 DEF Coming
<1>7. \A r \in DOMAIN src : Complete(r) => Complete(r)'
  BY <1>1, AllStay
<1>8. Fills'
  BY <1>4 DEF Fills, Receiving
<1>9. Linked(t, todo) /\ SourceTree /\ Walk(todo)
  BY <1>2, GoingIs DEF UnderWay, Conversation, Plan
<1>10. OnTime'
  <2>1. CASE ReceiveE
    <3>1. state \in States /\ "E" \in DOMAIN NextState[state] /\ timeSet' = timeSet
      BY <1>1, <2>1, GoingIs DEF ReceiveE, Receives, TimeInv
    <3>2. ~timeSet
      BY <3>1, <1>1, AfterE, GoingIs DEF TimeInv
    <3>3. (SCPInv /\ client = "source" /\ Live /\ ~timeSet /\ stream = << >> => OnTime)'
      BY NotDue, PTL
    <3> QED
      BY <3>1, <3>2, <3>3, <1>3 DEF GoesOn
  <2>2. CASE ReceiveT /\ ~ReceiveE
    <3>1. t.op = "T" /\ time' = NextMessage.time
      BY <1>2, <2>2 DEF ReceiveT
    <3>2. time' = src[t.path].time
      BY <3>1, <1>2 DEF MessageFor, TMessage
    <3>3. todo # << >> /\ todo[1].path = t.path
      BY <3>1, <1>9 DEF Linked, Follows, Ends
    <3>4. \A r : Due(r)' => r = t.path
      BY <3>3, <1>1, <1>3 DEF Due, Coming
    <3> QED
      BY <3>2, <3>4, <1>1 DEF OnTime
  <2> QED
    BY <2>1, <2>2
<1> QED
  BY <1>1, <1>3, <1>4, <1>6, <1>7, <1>8, <1>10, TakenLively

\* The line that the sink has before it is that of a task.
LEMMA LineIsTask ==
  ASSUME Going, phase = "header", LineEnds # {}
  PROVE  waiting /\ acks = << >>
<1>1. stream # << >>
  BY NoLine
<1>2. ~New /\ ~Resting
  BY <1>1, GoingIs DEF New, Resting, Live
<1>3. ~Spoilt
  BY <1>1 DEF Spoilt, Going, Lively, Exchange
<1>4. PICK t \in TaskSet : UnderWay(t)
  BY <1>2, <1>3, GoingIs
<1> QED
  BY <1>4, GoingIs DEF UnderWay

LEMMA RejectsNot ==
  ASSUME Going, GoesOn, RejectMessage, UNCHANGED clientVars
  PROVE  FALSE
BY LineIsTask, AbortDooms DEF RejectMessage, GoesOn

\* What the sink finds when it receives a file.
LEMMA Busily ==
  ASSUME Going, Busy
  PROVE  /\ \/ Resting /\ DataNext /\ stream = << >> /\ acks = IF waiting THEN <<"ok">> ELSE << >>
            \/ \E t \in TaskSet : /\ UnderWay(t) /\ t.op = "data" /\ waiting /\ acks = << >>
                                  /\ ~DataNext
                                  /\ \A i \in 1 .. Len(stream) : stream[i].message = Invalid
         /\ \E p \in DOMAIN src :
              Receiving(p) /\ ~src[p].dir /\ file \in DOMAIN fs /\ ~fs[file].dir /\ Filling(p)
<1>1. phase \in {"content", "end"}
  BY DEF Busy
<1>2. ~New /\ ~Spoilt
  BY <1>1 DEF New, Spoilt
<1>3. \E p \in DOMAIN src :
        Receiving(p) /\ ~src[p].dir /\ file \in DOMAIN fs /\ ~fs[file].dir /\ Filling(p)
  BY DEF Going, Orderly, FileOpen, Lively, Fills
<1>4. CASE Resting
  <2>1. stream = << >> /\ acks = IF waiting THEN <<"ok">> ELSE << >>
    BY <1>4 DEF Resting, Going
  <2>2. DataNext
    BY <1>1, <1>4 DEF Resting, DataNext
  <2> QED
    BY <2>1, <2>2, <1>3, <1>4
<1>5. ASSUME NEW t \in TaskSet, UnderWay(t)
      PROVE  /\ t.op = "data" /\ waiting /\ acks = << >> /\ ~DataNext
             /\ \A i \in 1 .. Len(stream) : stream[i].message = Invalid
  <2>1. t.op = "data" /\ waiting /\ acks = << >> /\ IsTask(t) /\ Linked(t, todo)
        /\ \A i \in 1 .. Len(stream) : stream[i].message = Invalid
    BY <1>1, <1>5, GoingIs DEF UnderWay
  <2>2. ~(todo # << >> /\ todo[1].op = "data")
    BY <2>1, GoingIs, AfterTask DEF Conversation, Plan, Ends
  <2> QED
    BY <2>1, <2>2 DEF DataNext
<1> QED
  BY <1>2, <1>3, <1>4, <1>5, GoingIs

LEMMA ErrorNot ==
  ASSUME Going, GoesOn, SinkIOError, UNCHANGED clientVars
  PROVE  FALSE
<1>1. Abort
  BY DEF SinkIOError
<1>2. ~(waiting /\ acks = << >>)
  BY <1>1, AbortDooms DEF GoesOn
<1>3. phase = "content"
  BY <1>2, LineIsTask DEF SinkIOError
<1>4. DataNext /\ acks = IF waiting THEN <<"ok">> ELSE << >>
  BY <1>2, <1>3, Busily DEF Busy
<1>5. acks' = acks \o <<"error">> /\ UNCHANGED <<todo, waiting>> /\ phase' = "done"
  BY <1>1, <1>4 DEF Abort, clientVars
<1> QED
  BY <1>4, <1>5 DEF GoesOn, Doomed, DataNext

\* Units and what kinds they are.
LEMMA KindsTypes ==
  ASSUME NEW s \in Seq(Units)
  PROVE  /\ KindsOf(s) \in Seq(UnitKinds) /\ Len(KindsOf(s)) = Len(s)
         /\ \A i \in 1 .. Len(s) : KindsOf(s)[i] = s[i].kind
<1>1. PICK n \in Nat : n = Len(s) /\ s \in [1 .. n -> Units]
  OBVIOUS
<1>2. KindsOf(s) = [i \in 1 .. n |-> s[i].kind]
  BY <1>1 DEF KindsOf
<1>3. \A i \in 1 .. n : s[i].kind \in UnitKinds
  BY <1>1 DEF Units
<1>4. KindsOf(s) \in [1 .. n -> UnitKinds] /\ \A i \in 1 .. n : KindsOf(s)[i] = s[i].kind
  BY <1>2, <1>3
<1>5. KindsOf(s) \in Seq(UnitKinds) /\ Len(KindsOf(s)) = n
  BY <1>4
<1> QED
  BY <1>1, <1>4, <1>5

LEMMA FirstKind ==
  ASSUME NEW s \in Seq(Units), s # << >>
  PROVE  /\ Head(s).kind \in UnitKinds /\ Head(s) = s[1]
         /\ KindsOf(s) = <<Head(s).kind>> \o KindsOf(Tail(s))
<1> PICK k, b, w : k = Head(s).kind /\ b = KindsOf(Tail(s)) /\ w = KindsOf(s)
  OBVIOUS
<1>1. /\ Tail(s) \in Seq(Units) /\ Len(Tail(s)) = Len(s) - 1 /\ Head(s) \in Units
      /\ \A i \in 1 .. Len(Tail(s)) : Tail(s)[i] = s[i + 1]
  BY HeadTailProperties
<1>2. PICK n \in Nat : n = Len(s) /\ n >= 1 /\ Head(s) = s[1]
  OBVIOUS
<1>3. b \in Seq(UnitKinds) /\ Len(b) = Len(Tail(s)) /\ \A i \in 1 .. Len(Tail(s)) : b[i] = Tail(s)[i].kind
  BY <1>1, KindsTypes
<1>4. Len(b) = n - 1 /\ \A i \in 1 .. n - 1 : b[i] = s[i + 1].kind
  BY <1>1, <1>2, <1>3
<1>5. w \in Seq(UnitKinds) /\ Len(w) = n /\ \A i \in 1 .. n : w[i] = s[i].kind
  BY <1>2, KindsTypes
<1>6. k \in UnitKinds /\ k = s[1].kind
  BY <1>1, <1>2 DEF Units
<1>7. <<k>> \in Seq(UnitKinds) /\ Len(<<k>>) = 1 /\ <<k>>[1] = k
  BY <1>6
<1>8. PICK v : v = <<k>>
  OBVIOUS
<1>9. /\ v \o b \in Seq(UnitKinds) /\ Len(v \o b) = 1 + (n - 1)
      /\ \A i \in 1 .. 1 + (n - 1) : (v \o b)[i] = IF i <= 1 THEN v[i] ELSE b[i - 1]
  BY <1>3, <1>4, <1>7, <1>8, ConcatProperties
<1>10. ASSUME NEW i \in 1 .. n
       PROVE  (v \o b)[i] = w[i]
  <2>1. (v \o b)[i] = IF i <= 1 THEN v[i] ELSE b[i - 1]
    BY <1>2, <1>9
  <2>2. CASE i = 1
    BY <2>1, <2>2, <1>2, <1>5, <1>6, <1>7, <1>8
  <2>3. CASE i # 1
    <3>1. ~(i <= 1) /\ i - 1 \in 1 .. n - 1 /\ (i - 1) + 1 = i
      BY <2>3, <1>2
    <3> QED
      BY <3>1, <2>1, <1>4, <1>5
  <2> QED
    BY <2>2, <2>3
<1>11. Len(v \o b) = n
  BY <1>2, <1>9
<1>12. v \o b = w
  BY <1>5, <1>9, <1>10, <1>11, SeqEqual
<1> QED
  BY <1>2, <1>6, <1>8, <1>12

\* A unit that was copied has been moved.
LEMMA MoveKind ==
  ASSUME NEW a \in Seq(UnitKinds), NEW s \in Seq(Units), s # << >>
  PROVE  /\ Append(a, Head(s).kind) \o KindsOf(Tail(s)) = a \o KindsOf(s)
         /\ Len(Append(a, Head(s).kind)) = Len(a) + 1
<1> PICK k, b : k = Head(s).kind /\ b = KindsOf(Tail(s))
  OBVIOUS
<1>1. k \in UnitKinds /\ KindsOf(s) = <<k>> \o b
  BY FirstKind
<1>2. Tail(s) \in Seq(Units)
  OBVIOUS
<1>3. b \in Seq(UnitKinds) /\ <<k>> \in Seq(UnitKinds)
  <2>1. KindsOf(Tail(s)) \in Seq(UnitKinds)
    BY <1>2, KindsTypes
  <2>2. <<k>> \in Seq(UnitKinds)
    BY <1>1
  <2> QED
    BY <2>1, <2>2
<1>4. Append(a, k) = a \o <<k>> /\ Len(Append(a, k)) = Len(a) + 1
  BY <1>1, AppendIsConcat, AppendProperties
<1>5. (a \o <<k>>) \o b = a \o (<<k>> \o b)
  BY <1>3, ConcatAssociative
<1> QED
  BY <1>1, <1>4, <1>5

\* When a byte 0 follows what was written, that is the whole, or ends before one.
LEMMA WholeOrCut ==
  ASSUME NEW a \in Seq(UnitKinds), NEW s \in Seq(Units), s # << >>, Head(s).kind = "nul",
         NEW c \in Seq({"byte", "nul"}), a \o KindsOf(s) = c \o <<"nul">>
  PROVE  /\ Len(a) = Len(c) => a = c
         /\ a = c \/ (IsStrictPrefix(a, c) /\ c[Len(a) + 1] = "nul")
         /\ \A i \in 1 .. Len(s) : s[i].kind \in {"byte", "nul"}
<1> PICK w, z : w = KindsOf(s) /\ z = c \o <<"nul">>
  OBVIOUS
<1>1. PICK n \in Nat : n = Len(s) /\ n >= 1 /\ Head(s) = s[1]
  OBVIOUS
<1>2. w \in Seq(UnitKinds) /\ Len(w) = n /\ \A i \in 1 .. n : w[i] = s[i].kind
  BY <1>1, KindsTypes
<1>3. PICK l \in Nat, m \in Nat : l = Len(a) /\ m = Len(c)
  OBVIOUS
<1>4. /\ Len(a \o w) = Len(a) + Len(w)
      /\ \A i \in 1 .. Len(a) + Len(w) : (a \o w)[i] = IF i <= Len(a) THEN a[i] ELSE w[i - Len(a)]
  BY <1>2, ConcatProperties
<1>5. /\ Len(z) = m + 1 /\ z \in Seq({"byte", "nul"}) /\ \A i \in 1 .. m : z[i] = c[i]
  BY <1>3, LongerOne
<1>6. /\ l + n = m + 1
      /\ \A i \in 1 .. l + n : z[i] = IF i <= l THEN a[i] ELSE w[i - l]
  BY <1>1, <1>2, <1>3, <1>4, <1>5
<1>7. l <= m /\ \A i \in 1 .. l : a[i] = c[i]
  BY <1>1, <1>3, <1>5, <1>6
<1>8. c \in Seq(UnitKinds)
  BY DEF UnitKinds
<1>9. l = m => a = c
  BY <1>3, <1>7, <1>8, SeqEqual
<1>10. ASSUME l # m
       PROVE  IsStrictPrefix(a, c) /\ c[l + 1] = "nul"
  <2>1. l + 1 \in 1 .. m /\ l + 1 \in 1 .. l + n /\ (l + 1) - l = 1 /\ ~(l + 1 <= l) /\ 1 \in 1 .. n
    BY <1>1, <1>3, <1>6, <1>7, <1>10
  <2>2. z[l + 1] = w[(l + 1) - l]
    BY <2>1, <1>6
  <2>3. c[l + 1] = "nul"
    BY <2>1, <2>2, <1>1, <1>2, <1>5
  <2>4. SubSeq(a, 1, Len(a)) = SubSeq(c, 1, Len(a))
    BY <1>3, <1>7
  <2>5. a # c
    BY <1>3, <1>10
  <2>6. Len(a) <= Len(c)
    BY <1>3, <1>7
  <2> QED
    BY <2>3, <2>4, <2>5, <2>6 DEF IsStrictPrefix, IsPrefix
<1>11. ASSUME NEW i \in 1 .. n
       PROVE  s[i].kind \in {"byte", "nul"}
  <2>1. l + i \in 1 .. l + n /\ ~(l + i <= l) /\ (l + i) - l = i
    BY <1>1, <1>3
  <2>2. z[l + i] = w[i]
    BY <2>1, <1>6
  <2>3. z[l + i] \in {"byte", "nul"}
    BY <2>1, <1>5, <1>6
  <2> QED
    BY <2>2, <2>3, <1>2
<1> QED
  BY <1>1, <1>3, <1>9, <1>10, <1>11

\* Contents are written to the file that is received and to no other node.
LEMMA OnlyTheFile ==
  ASSUME Going, Busy, UNCHANGED <<opts, src, changes, file>>,
         phase = "content" \/ phase' # "content",
         DOMAIN fs' = DOMAIN fs, \A q \in DOMAIN fs : q # file => fs'[q] = fs[q],
         NEW p \in DOMAIN src, Complete(p), phase = "content" \/ fs' = fs
  PROVE  Complete(p)'
<1> PICK q : q = Target \o p
  OBVIOUS
<1>1. q \in DOMAIN fs /\ ~(~src[p].dir /\ file = q /\ phase = "content") /\ fs[q].dir = src[p].dir
  BY CompleteHere DEF Complete, Arrived
<1>2. ~fs[file].dir
  BY Busily
<1>3. q # file \/ fs' = fs
  BY <1>1, <1>2
<1>4. ~fs[q].dir => ~(file' = q /\ phase' = "content")
  BY <1>1
<1> QED
  BY <1>1, <1>3, <1>4, CompleteStays

\* The contents go on.
LEMMA ContentLively ==
  ASSUME Going, GoesOn, Busy, Busy', UNCHANGED <<opts, src, changes, file, todo>>,
         \A p \in DOMAIN src : Complete(p) => Complete(p)',
         \A p \in DOMAIN src : Filling(p) => Filling(p)'
  PROVE  Lively'
<1>1. Exchange'
  BY DEF Exchange, GoesOn, Busy
<1>2. \A p : Receiving(p)' <=> Receiving(p)
  BY DEF Receiving
<1>3. \A p : ~Coming(p) /\ ~Coming(p)'
  BY DEF Coming, Busy
<1>4. ASSUME NEW p \in DOMAIN src
      PROVE  Meets(todo', Makers(p)) \/ Receiving(p)' \/ Complete(p)'
  <2>1. Meets(todo, Makers(p)) \/ Receiving(p) \/ Complete(p)
    BY <1>3, GoingIs
  <2> QED
    BY <2>1, <1>2
<1>5. Progress'
  BY <1>4 DEF Progress
<1>6. ASSUME NEW p \in DOMAIN src', Receiving(p)'
      PROVE  Filling(p)'
  <2>1. p \in DOMAIN src /\ Receiving(p)
    BY <1>2, <1>6
  <2>2. Filling(p)
    BY <2>1 DEF Going, Lively, Fills
  <2> QED
    BY <2>1, <2>2
<1>7. Fills'
  BY <1>6 DEF Fills
<1>8. OnTime'
  BY DEF OnTime, Due, Busy
<1> QED
  BY <1>1, <1>5, <1>7, <1>8 DEF Lively

LEMMA CopyLively ==
  ASSUME Going, GoesOn, CopyByte, UNCHANGED clientVars
  PROVE  Lively'
<1>1. /\ phase = "content" /\ left > 0 /\ stream # << >> /\ stream' = Tail(stream) /\ left' = left - 1
      /\ fs' = [fs EXCEPT ![file].content = Append(@, Head(stream).kind), ![file].time = Now]
      /\ UNCHANGED <<opts, src, changes, file, todo, phase, timeSet, time>>
  BY DEF CopyByte, clientVars
<1>2. Busy /\ Busy'
  BY <1>1 DEF Busy
<1>3. ~DataNext
  BY <1>1, <1>2, Busily
<1>4. file \in DOMAIN fs
  BY <1>2, Busily
<1>5. /\ DOMAIN fs' = DOMAIN fs
      /\ \A q \in DOMAIN fs : q # file => fs'[q] = fs[q]
  BY <1>1
<1>6. IsTree(fs) /\ stream \in Seq(Units) /\ left \in Nat
  BY GoingIs DEF SinkTypes, Wires
<1>7. fs[file] \in Nodes
  BY <1>4, <1>6, TreeNodes
<1>8. fs'[file].content = Append(fs[file].content, Head(stream).kind)
  BY <1>1, <1>4, <1>7 DEF Nodes
<1>9. fs[file].content \in Seq(UnitKinds)
  BY <1>7 DEF Nodes
<1>10. /\ fs'[file].content \o KindsOf(stream') = fs[file].content \o KindsOf(stream)
       /\ Len(fs'[file].content) = Len(fs[file].content) + 1
  BY <1>1, <1>6, <1>8, <1>9, MoveKind
<1>11. ASSUME NEW p \in DOMAIN src, Filling(p)
       PROVE  Filling(p)'
  <2>1. Len(fs[file].content) + left = Len(fs'[file].content) + left'
    <3>1. Len(fs[file].content) \in Nat
      BY <1>9
    <3>2. \A l \in Nat : l + left = (l + 1) + (left - 1)
      BY <1>6
    <3> QED
      BY <3>1, <3>2, <1>1, <1>10
  <2>2. /\ times => timeSet /\ time = src[p].time
        /\ Changed(p) \/ Len(fs[file].content) + left = Len(src[p].content)
        /\ fs[file].content \o KindsOf(stream) = src[p].content \o <<"nul">>
    BY <1>1, <1>3, <1>11 DEF Filling
  <2>3. /\ times' => timeSet' /\ time' = src'[p].time
        /\ phase' = "content" /\ ~DataNext'
        /\ fs'[file'].content \o KindsOf(stream') = src'[p].content \o <<"nul">>
    BY <2>2, <1>1, <1>3, <1>10 DEF times, DataNext
  <2>4. Changed(p)' \/ Len(fs'[file'].content) + left' = Len(src'[p].content)
    BY <2>1, <2>2, <1>1 DEF Changed
  <2>5. (KindsOf(stream))' = KindsOf(stream')
    BY DEF KindsOf
  <2> QED
    BY <2>3, <2>4, <2>5 DEF Filling
<1>12. \A p \in DOMAIN src : Complete(p) => Complete(p)'
  BY <1>1, <1>2, <1>5, OnlyTheFile
<1> QED
  BY <1>1, <1>2, <1>11, <1>12, ContentLively

LEMMA WrittenLively ==
  ASSUME Going, GoesOn, FileWritten, UNCHANGED clientVars
  PROVE  Lively'
<1>1. /\ phase = "content" /\ phase' = "end" /\ left = 0
      /\ fs' = IF timeSet THEN [fs EXCEPT ![file].time = time] ELSE fs
      /\ UNCHANGED <<opts, src, changes, file, todo, stream, left>>
  BY GoingIs DEF FileWritten, clientVars
<1>2. Busy /\ Busy'
  BY <1>1 DEF Busy
<1>3. file \in DOMAIN fs /\ IsTree(fs)
  BY <1>2, Busily, GoingIs DEF SinkTypes
<1>4. /\ DOMAIN fs' = DOMAIN fs
      /\ \A q \in DOMAIN fs : q # file => fs'[q] = fs[q]
  BY <1>1
<1>5. fs[file] \in Nodes
  BY <1>3, TreeNodes
<1>6. fs'[file].content = fs[file].content /\ (timeSet => fs'[file].time = time)
  BY <1>1, <1>3, <1>5 DEF Nodes
<1>7. ASSUME NEW p \in DOMAIN src, Filling(p)
      PROVE  Filling(p)'
  <2>1. /\ times => timeSet /\ time = src[p].time
        /\ Changed(p) \/ Len(fs[file].content) + left = Len(src[p].content)
        /\ IF DataNext THEN fs[file].content = << >>
           ELSE fs[file].content \o KindsOf(stream) = src[p].content \o <<"nul">>
    BY <1>1, <1>7 DEF Filling
  <2>2. /\ times' => fs'[file'].time = src'[p].time
        /\ phase' = "end" /\ left' = 0 /\ (DataNext' <=> DataNext)
    BY <2>1, <1>1, <1>6 DEF times, DataNext
  <2>3. Changed(p)' \/ Len(fs'[file'].content) + left' = Len(src'[p].content)
    BY <2>1, <1>1, <1>6 DEF Changed
  <2>4. IF DataNext' THEN fs'[file'].content = << >>
        ELSE fs'[file'].content \o KindsOf(stream') = src'[p].content \o <<"nul">>
    BY <2>1, <2>2, <1>1, <1>6
  <2>5. (KindsOf(stream))' = KindsOf(stream')
    BY DEF KindsOf
  <2> QED
    BY <2>2, <2>3, <2>4, <2>5 DEF Filling
<1>8. \A p \in DOMAIN src : Complete(p) => Complete(p)'
  BY <1>1, <1>2, <1>4, OnlyTheFile
<1> QED
  BY <1>1, <1>2, <1>7, <1>8, ContentLively

\* What was written is complete when the byte after it has come.
LEMMA EndCompletes ==
  ASSUME Going, phase = "end", stream # << >>, NEW p \in DOMAIN src, Receiving(p),
         ~src[p].dir, Filling(p), file \in DOMAIN fs, ~fs[file].dir,
         ~DataNext, Head(stream).kind = "nul"
  PROVE  /\ Settled(p)
         /\ Changed(p) \/ fs[file].content = src[p].content
         /\ times => fs[file].time = src[p].time
         /\ \A i \in 1 .. Len(stream) : stream[i].kind \in {"byte", "nul"}
<1>1. IsTree(fs) /\ stream \in Seq(Units) /\ file = Target \o p
  BY GoingIs DEF SinkTypes, Wires, Receiving
<1>2. fs[file].content \in Seq(UnitKinds)
  BY <1>1, TreeNodes DEF Nodes
<1>3. src[p].content \in Seq({"byte", "nul"})
  BY GoingIs DEF SourceTree
<1>4. /\ Changed(p) \/ Len(fs[file].content) + left = Len(src[p].content)
      /\ left = 0
      /\ fs[file].content \o KindsOf(stream) = src[p].content \o <<"nul">>
      /\ times => fs[file].time = src[p].time
  BY DEF Filling
<1> PICK a, c : a = fs[file].content /\ c = src[p].content
  OBVIOUS
<1>5. /\ Len(a) = Len(c) => a = c
      /\ a = c \/ (IsStrictPrefix(a, c) /\ c[Len(a) + 1] = "nul")
      /\ \A i \in 1 .. Len(stream) : stream[i].kind \in {"byte", "nul"}
  BY <1>1, <1>2, <1>3, <1>4, WholeOrCut
<1>6. Changed(p) \/ Len(a) = Len(c)
  <2>1. Len(a) \in Nat
    BY <1>2
  <2>2. \A l \in Nat : l + 0 = l
    OBVIOUS
  <2> QED
    BY <2>1, <2>2, <1>4
<1>7. Settled(p)
  BY <1>1, <1>5 DEF Settled
<1> QED
  BY <1>4, <1>5, <1>6, <1>7

LEMMA EndLively ==
  ASSUME Going, GoesOn, ReceiveEnd, UNCHANGED clientVars
  PROVE  Lively'
<1>1. /\ phase = "end" /\ stream # << >> /\ stream' = Tail(stream)
      /\ UNCHANGED <<opts, src, changes, file, todo, fs, waiting, timeSet>>
  BY DEF ReceiveEnd, clientVars
<1>2. Busy
  BY <1>1 DEF Busy
<1>3. PICK t \in TaskSet :
         /\ UnderWay(t) /\ t.op = "data" /\ waiting /\ acks = << >> /\ ~DataNext
         /\ \A i \in 1 .. Len(stream) : stream[i].message = Invalid
  BY <1>1, <1>2, Busily
<1>4. Head(stream).kind = "nul" /\ phase' = "header" /\ acks' = Append(acks, "ok")
  BY <1>3, AbortDooms DEF ReceiveEnd, ack, GoesOn
<1>5. PICK p \in DOMAIN src :
         Receiving(p) /\ ~src[p].dir /\ file \in DOMAIN fs /\ ~fs[file].dir /\ Filling(p)
  BY <1>2, Busily
<1>6. /\ Settled(p)
      /\ Changed(p) \/ fs[file].content = src[p].content
      /\ times => fs[file].time = src[p].time
      /\ \A i \in 1 .. Len(stream) : stream[i].kind \in {"byte", "nul"}
  BY <1>1, <1>3, <1>4, <1>5, EndCompletes
<1>7. Complete(p)'
  <2>1. file = Target \o p
    BY <1>5 DEF Receiving
  <2>2. fs[file].dir \in BOOLEAN /\ src[p].dir \in BOOLEAN
    BY <1>5, GoingIs DEF SinkTypes, IsTree, SourceTree
  <2>3. fs[file].dir = src[p].dir
    BY <2>2, <1>5
  <2>4. Arrived(p)'
    BY <2>1, <2>3, <1>1, <1>4, <1>5, <1>6 DEF Arrived, Changed, times
  <2>5. Settled(p)'
    BY <1>1, <1>6 DEF Settled
  <2> QED
    BY <2>4, <2>5 DEF Complete
<1>8. ASSUME NEW r \in DOMAIN src, Receiving(r)
      PROVE  r = p
  <2>1. Target \o r = Target \o p
    BY <1>5, <1>8 DEF Receiving
  <2> QED
    BY <2>1, GoingIs, InTarget DEF SourceTree
<1>9. \A r \in DOMAIN src : Complete(r) => Complete(r)'
  BY <1>1, <1>4, AllStay
<1>10. ASSUME NEW r \in DOMAIN src
       PROVE  Meets(todo', Makers(r)) \/ Complete(r)'
  <2>1. ~Coming(r)
    BY <1>1 DEF Coming
  <2> QED
    BY <2>1, <1>1, <1>7, <1>8, <1>9, GoingIs
<1>11. Progress'
  BY <1>1, <1>10 DEF Progress
<1>12. Fills'
  BY <1>4 DEF Fills, Receiving, Busy
<1>13. \A i \in 1 .. Len(stream') : stream'[i].kind \in {"byte", "nul"} /\ stream'[i].message = Invalid
  <2>1. /\ Tail(stream) \in Seq(Units) /\ Len(Tail(stream)) = Len(stream) - 1
        /\ \A i \in 1 .. Len(Tail(stream)) : Tail(stream)[i] = stream[i + 1]
    BY <1>1, GoingIs, HeadTailProperties DEF Wires
  <2>2. \A i \in 1 .. Len(stream') : i + 1 \in 1 .. Len(stream) /\ stream'[i] = stream[i + 1]
    BY <2>1, <1>1, GoingIs DEF Wires
  <2> QED
    BY <2>2, <1>3, <1>6
<1>14. LineEnds' = {}
  <2>1. DOMAIN stream' = 1 .. Len(stream')
    BY DEF GoesOn, SCPInv, SinkTypes, Wires
  <2> QED
    BY <2>1, <1>13 DEF LineEnds, EndsLine
<1>15. todo' # << >> => Starts(todo'[1])
  BY <1>1, <1>3 DEF UnderWay, Linked, Follows, Ends
<1>16. Exchange'
  <2>1. todo' # << >> => todo'[1].op \in {"T", "C", "D", "E"}
    BY <1>15 DEF Starts
  <2>2. acks' = <<"ok">> /\ waiting'
    BY <1>1, <1>3, <1>4
  <2> QED
    BY <2>1, <2>2, <1>4, <1>14 DEF Exchange, GoesOn
<1>17. \A r : ~Coming(r)'
  <2>1. stream' # << >> => stream'[1].message = Invalid
    BY <1>13 DEF GoesOn, SCPInv, SinkTypes, Wires
  <2> QED
    BY <2>1, InvalidType DEF Coming
<1>18. OnTime'
  <2>1. times /\ todo' # << >> => todo'[1].op \in {"T", "E"}
    BY <1>15 DEF Starts
  <2>2. times' = times
    BY <1>1 DEF times
  <2>3. times' => \A r : ~Due(r)'
    BY <2>1, <2>2, <1>17 DEF Due
  <2> QED
    BY <2>3 DEF OnTime
<1> QED
  BY <1>11, <1>12, <1>16, <1>18 DEF Lively

LEMMA SinkLively ==
  ASSUME Going, GoesOn, Sink, UNCHANGED clientVars
  PROVE  Lively'
<1>1. ~EndOfStream
  BY GoingIs DEF EndOfStream
<1> QED
  BY <1>1, StartsLively, FileLively, DirectoryLively, LeavesLively, RejectsNot, CopyLively,
     WrittenLively, EndLively, ErrorNot
  DEF Sink

-----------------------------------------------------------------------------
(***************************************************************************)
(* The source goes on where the sink rests.                                *)
(***************************************************************************)
LEMMA SourceGoing ==
  ASSUME Going, NEW ops, Sending(ops)
  PROVE  /\ todo # << >> /\ Head(todo) = todo[1] /\ todo[1].op \in ops /\ IsTask(todo[1])
         /\ ~waiting
         /\ Resting \/ Spoilt
         /\ Resting => stream = << >> /\ acks = << >>
                       /\ (phase = "header" \/ (Busy /\ DataNext))
                       /\ (phase = "header" <=> ~DataNext)
         /\ Spoilt => /\ phase = "header" /\ stream # << >> /\ stream[1].message = Invalid
                      /\ LineEnds = {} /\ acks = << >>
                      /\ todo[1].op \in {"T", "C", "D", "E"}
<1>1. /\ todo # << >> /\ Head(todo) = todo[1] /\ todo[1].op \in ops /\ IsTask(todo[1])
      /\ ~waiting
      /\ phase = "done" \/ Resting \/ Spoilt
      /\ Resting => stream = << >> /\ acks = << >> /\ phase \in {"header", "content", "end"}
                    /\ (phase = "header" <=> ~DataNext)
      /\ Spoilt => phase = "header" /\ stream # << >> /\ stream[1].message = Invalid
  BY GoingIs, Sends
<1>2. Resting => phase = "header" \/ (Busy /\ DataNext)
  BY <1>1 DEF Busy
<1>3. Spoilt => LineEnds = {} /\ acks = << >> /\ todo[1].op \in {"T", "C", "D", "E"}
  BY <1>1 DEF Going, Lively, Exchange
<1> QED
  BY <1>1, <1>2, <1>3, GoingIs

\* A new plan for the same nodes.
LEMMA PlansLively ==
  ASSUME Going, GoesOn, SourceStats \/ SourceLists
  PROVE  Lively'
<1>1. Sending({"stat", "list"})
  BY DEF SourceStats, SourceLists, Sending
<1>2. Resting /\ todo # << >> /\ todo[1].op \in {"stat", "list"}
  BY <1>1, SourceGoing
<1>3. stream = << >> /\ phase = "header"
  BY <1>1, <1>2, SourceGoing DEF DataNext
<1>4. outcome' = "running"
  BY DEF GoesOn, Live
<1>5. UNCHANGED <<opts, src, changes, fs, stream, phase, timeSet, time, file, dir>>
  BY <1>4 DEF SourceStats, SourceLists, SourceFails, SourceUnchanged
<1>6. \A r \in DOMAIN src : Meets(todo', Makers(r)) <=> Meets(todo, Makers(r))
  <2>1. CASE todo' = todo
    BY <2>1
  <2>2. CASE todo' # todo
    BY <2>2, PlansOrderly DEF Going
  <2> QED
    BY <2>1, <2>2
<1>7. Exchange'
  BY <1>3, <1>5 DEF Exchange, GoesOn
<1>8. ~Busy /\ ~Busy'
  BY <1>3, <1>5 DEF Busy
<1>9. ASSUME NEW r \in DOMAIN src'
      PROVE  Meets(todo', Makers(r)) \/ Complete(r)'
  <2>1. ~Coming(r) /\ ~Receiving(r) /\ r \in DOMAIN src
    BY <1>3, <1>5, <1>8 DEF Coming, Receiving
  <2>2. Complete(r) => Complete(r)'
    BY <2>1, <1>3, <1>5, AllStay
  <2> QED
    BY <2>1, <2>2, <1>6, GoingIs
<1>10. Progress'
  BY <1>9 DEF Progress
<1>11. Fills'
  BY <1>8 DEF Fills, Receiving
<1>12. OnTime'
  <2>1. CASE times
    <3>1. Fits(state, Position(todo))
      BY <1>2 DEF Resting, Ready
    <3>2. state \notin Timed
      BY <2>1, <3>1 DEF Fits, Timed
    <3>3. ~timeSet
      BY <3>2, <1>3, GoingIs DEF TimeInv
    <3>4. (SCPInv /\ client = "source" /\ Live /\ ~timeSet /\ stream = << >> => OnTime)'
      BY NotDue, PTL
    <3> QED
      BY <3>3, <3>4, <1>3, <1>5 DEF GoesOn
  <2>2. CASE ~times
    BY <2>2, <1>5 DEF OnTime, times
  <2> QED
    BY <2>1, <2>2
<1> QED
  BY <1>7, <1>10, <1>11, <1>12 DEF Lively

\* A line that follows other bytes will be read as none.
LEMMA SpoiltDooms ==
  ASSUME Going, SourceSends, Spoilt, Wires'
  PROVE  Doomed'
<1>1. Sending({"T", "C", "D", "E"})
  BY DEF SourceSends
<1>2. phase = "header" /\ stream # << >> /\ LineEnds = {} /\ acks = << >>
  BY <1>1, SourceGoing
<1> PICK u : u = Line(String(MessageFor(Head(todo))))
  OBVIOUS
<1>3. stream' = Append(stream, u) /\ waiting' = TRUE /\ UNCHANGED <<phase, acks>> /\ u.kind = "line"
  BY DEF SourceSends, SourceUnchanged, Line
<1>4. PICK n \in Nat : n = Len(stream) /\ n >= 1 /\ stream \in Seq(Units) /\ DOMAIN stream = 1 .. n
  BY <1>2, GoingIs DEF Wires
<1>5. /\ DOMAIN stream' = 1 .. n + 1
      /\ \A i \in 1 .. n : stream'[i] = stream[i]
      /\ stream'[n + 1] = u
  BY <1>3, <1>4
<1>6. \A i \in 1 .. n : ~EndsLine(stream[i])
  BY <1>2, <1>4 DEF LineEnds
<1>7. LineEnds' = {n + 1}
  <2>1. EndsLine(u)
    BY <1>3 DEF EndsLine
  <2>2. LineEnds' = {i \in DOMAIN stream' : EndsLine(stream'[i])}
    BY DEF LineEnds, EndsLine
  <2>3. \A i \in 1 .. n + 1 : EndsLine(stream'[i]) <=> i = n + 1
    BY <2>1, <1>4, <1>5, <1>6
  <2> QED
    BY <2>2, <2>3, <1>4, <1>5
<1>8. FirstLineEnd' = n + 1
  <2>1. \E i \in LineEnds' : \A j \in LineEnds' : i <= j
    BY <1>7
  <2> QED
    BY <2>1, <1>7 DEF FirstLineEnd
<1>9. NextMessage' = Invalid
  BY <1>4, <1>8 DEF NextMessage
<1> QED
  BY <1>2, <1>3, <1>7, <1>9 DEF Doomed

LEMMA OnlyLine ==
  \A v : stream = <<v>> /\ v.kind = "line" => LineEnds # {} /\ NextMessage = v.message
BY OneLine

LEMMA SendsLively ==
  ASSUME Going, GoesOn, SourceSends
  PROVE  Lively'
<1>1. Sending({"T", "C", "D", "E"})
  BY DEF SourceSends
<1>2. ~Spoilt
  BY SpoiltDooms DEF GoesOn, SCPInv, SinkTypes
<1>3. /\ Resting /\ todo # << >> /\ todo[1].op \in {"T", "C", "D", "E"} /\ IsTask(todo[1])
      /\ stream = << >> /\ acks = << >> /\ Head(todo) = todo[1]
  BY <1>1, <1>2, SourceGoing
<1>4. phase = "header"
  BY <1>1, <1>3, SourceGoing DEF DataNext
<1> PICK t, m : t = todo[1] /\ m = MessageFor(t)
  OBVIOUS
<1>5. /\ UNCHANGED <<opts, src, changes, fs, phase, acks, time, file, dir>>
      /\ todo' = Tail(todo) /\ waiting' = TRUE
      /\ stream' = Append(stream, Line(String(m)))
  BY <1>3 DEF SourceSends, SourceUnchanged
<1>6. /\ stream' = <<Line(String(m))>>
      /\ ~Legible(m) => stream'[1].message = Invalid
      /\ Legible(m) => stream'[1].message = m /\ m # Invalid
      /\ t.op \in {"C", "D"} /\ Legible(m) => Coming(t.path)'
      /\ \A p \in Paths : Coming(p)' => t.op \in {"C", "D"} /\ t.path = p
  BY <1>3, GoingIs, SentComes
<1>7. Legible(m)
  <2> PICK u : u = Line(String(m))
    OBVIOUS
  <2>1. u.kind = "line" /\ stream' = <<u>>
    BY <1>6 DEF Line
  <2>2. (\A v : stream = <<v>> /\ v.kind = "line" => LineEnds # {} /\ NextMessage = v.message)'
    BY OnlyLine, PTL
  <2>3. LineEnds' # {} /\ NextMessage' = stream'[1].message
    BY <2>1, <2>2, <1>6
  <2> QED
    BY <2>3, <1>3, <1>4, <1>5, <1>6 DEF GoesOn, Doomed
<1>8. stream' # << >> /\ stream'[1].message # Invalid
  BY <1>6, <1>7
<1>9. Exchange'
  BY <1>4, <1>5, <1>8 DEF Exchange, GoesOn
<1>10. ~Busy /\ ~Busy'
  BY <1>4, <1>5 DEF Busy
<1>11. ASSUME NEW r \in DOMAIN src
       PROVE  Meets(todo', Makers(r)) \/ Coming(r)' \/ Complete(r)'
  <2>1. ~Coming(r) /\ ~Receiving(r)
    BY <1>3, <1>10 DEF Coming, Receiving
  <2>2. Complete(r) => Complete(r)'
    BY <1>4, <1>5, AllStay
  <2>3. Meets(todo, Makers(r)) => todo[1] \in Makers(r) \/ Meets(todo', Makers(r))
    BY <1>3, <1>5, GoingIs, MeetsTail
  <2>4. t \in Makers(r) => t.op \in {"C", "D"} /\ t.path = r
    BY <1>3 DEF Makers, Creators
  <2> QED
    BY <2>1, <2>2, <2>3, <2>4, <1>6, <1>7, GoingIs
<1>12. Progress'
  BY <1>5, <1>11 DEF Progress
<1>13. Fills'
  BY <1>10 DEF Fills, Receiving
<1>14. OnTime'
  <2>1. ASSUME NEW r \in DOMAIN src, times, Due(r)'
        PROVE  time = src[r].time
    <3>1. Coming(r)'
      BY <2>1, <1>8 DEF Due
    <3>2. t.op \in {"C", "D"} /\ t.path = r
      BY <3>1, <1>6, GoingIs DEF SourceTree
    <3>3. Due(r)
      BY <3>2, <1>3, <1>4 DEF Due
    <3> QED
      BY <2>1, <3>3 DEF Going, Lively, OnTime
  <2> QED
    BY <2>1, <1>5 DEF OnTime, times
<1> QED
  BY <1>9, <1>12, <1>13, <1>14 DEF Lively

\* The file that the sink waits for is the one that is sent, whole.
LEMMA DataSent ==
  ASSUME Going, GoesOn, SourceSendsData
  PROVE  \E p \in DOMAIN src :
           /\ todo[1].path = p /\ Receiving(p) /\ Filling(p) /\ Busy /\ DataNext
           /\ todo # << >> /\ stream = << >>
           /\ stream' = << >> \o [i \in DOMAIN src[p].content |-> Unit(src[p].content[i])]
                          \o <<Unit("nul")>>
           /\ todo' = Tail(todo) /\ ~DataNext'
           /\ UNCHANGED <<opts, src, changes, fs, phase, timeSet, time, file, left, dir>>
<1>1. Sending({"data"}) /\ outcome' = "running"
  BY DEF SourceSendsData, GoesOn, Live
<1>2. Resting /\ todo # << >> /\ todo[1].op = "data" /\ IsTask(todo[1]) /\ Head(todo) = todo[1]
      /\ stream = << >>
  BY <1>1, SourceGoing
<1>3. DataNext
  BY <1>2 DEF DataNext
<1>4. Busy
  BY <1>1, <1>2, <1>3, SourceGoing
<1>5. PICK p \in DOMAIN src : Receiving(p) /\ ~src[p].dir /\ todo[1].path = p
  BY <1>3, <1>4 DEF Going, Orderly, FileOpen
<1>6. Filling(p)
  BY <1>5 DEF Going, Lively, Fills
<1> PICK o : o = OpenedPath(p)
  OBVIOUS
<1>7. /\ ~src[o].dir
      /\ stream' = stream \o [i \in DOMAIN src[o].content |-> Unit(src[o].content[i])]
                     \o <<Unit("nul")>>
      /\ todo' = Tail(todo)
      /\ UNCHANGED <<opts, src, changes, fs, phase, timeSet, time, file, left, dir>>
  BY <1>1, <1>2, <1>5 DEF SourceSendsData, SourceFails, SourceUnchanged
<1>8. o = p
  <2>1. CASE Len(p) = 1 \/ Name(p) # Last(Front(p))
    BY <2>1, GoingIs, Opened
  <2>2. CASE ~(Len(p) = 1 \/ Name(p) # Last(Front(p)))
    <3>1. p \in Paths /\ p # << >> /\ (Len(p) > 1 => src[Front(p)].dir)
      BY GoingIs DEF SourceTree
    <3>2. Len(p) > 1
      BY <2>2, <3>1
    <3>3. o = Front(p)
      BY <2>2 DEF OpenedPath
    <3> QED
      BY <3>1, <3>2, <3>3, <1>7
  <2> QED
    BY <2>1, <2>2
<1>9. ~DataNext'
  <2>1. Walk(todo) /\ SourceTree
    BY GoingIs DEF Conversation, Plan
  <2>2. Walk(Tail(todo)) /\ Linked(todo[1], Tail(todo))
    BY <2>1, <1>2, WalkTail
  <2>3. ~(Tail(todo) # << >> /\ Tail(todo)[1].op = "data")
    BY <2>1, <2>2, <1>2, AfterTask DEF Ends
  <2> QED
    BY <2>3, <1>7 DEF DataNext
<1>10. stream' = << >> \o [i \in DOMAIN src[p].content |-> Unit(src[p].content[i])]
                   \o <<Unit("nul")>>
  BY <1>2, <1>7, <1>8
<1> QED
  BY <1>2, <1>3, <1>4, <1>5, <1>6, <1>7, <1>9, <1>10

\* What is sent of a file is of the kinds that it holds, and the byte 0.
LEMMA KindsSent ==
  ASSUME NEW c \in Seq({"byte", "nul"}), NEW s,
         s = << >> \o [i \in DOMAIN c |-> Unit(c[i])] \o <<Unit("nul")>>
  PROVE  << >> \o KindsOf(s) = c \o <<"nul">>
<1>1. PICK n \in Nat : n = Len(c) /\ DOMAIN c = 1 .. n /\ \A i \in 1 .. n : c[i] \in {"byte", "nul"}
  OBVIOUS
<1> PICK u : u = [i \in 1 .. n |-> Unit(c[i])]
  OBVIOUS
<1>2. \A k \in {"byte", "nul"} : Unit(k) \in Units /\ Unit(k).kind = k
  BY DEF Unit, Units, UnitKinds
<1>3. /\ \A i \in 1 .. n : u[i] = Unit(c[i])
      /\ u \in [1 .. n -> Units]
  BY <1>1, <1>2
<1>4. u \in Seq(Units) /\ Len(u) = n
  BY <1>3
<1>5. PICK e : e = Unit("nul") /\ e \in Units /\ e.kind = "nul"
  BY <1>2
<1>6. s = u \o <<e>>
  <2>1. s = << >> \o u \o <<e>>
    BY <1>1, <1>5
  <2>2. << >> \o u = u
    BY <1>4, ConcatEmptySeq
  <2> QED
    BY <2>1, <2>2
<1>7. /\ u \o <<e>> \in Seq(Units) /\ Len(u \o <<e>>) = n + 1
      /\ \A i \in 1 .. n : (u \o <<e>>)[i] = u[i]
      /\ (u \o <<e>>)[n + 1] = e
  BY <1>4, <1>5, LongerOne, LastOne
<1>8. /\ c \o <<"nul">> \in Seq({"byte", "nul"}) /\ Len(c \o <<"nul">>) = n + 1
      /\ \A i \in 1 .. n : (c \o <<"nul">>)[i] = c[i]
      /\ (c \o <<"nul">>)[n + 1] = "nul"
  BY <1>1, LongerOne, LastOne
<1>9. /\ KindsOf(s) \in Seq(UnitKinds) /\ Len(KindsOf(s)) = n + 1
      /\ \A i \in 1 .. n + 1 : KindsOf(s)[i] = s[i].kind
  BY <1>6, <1>7, KindsTypes
<1> PICK z, w : z = c \o <<"nul">> /\ w = KindsOf(s)
  OBVIOUS
<1>10. ASSUME NEW i \in 1 .. n + 1
       PROVE  w[i] = z[i]
  <2>1. CASE i = n + 1
    BY <2>1, <1>5, <1>6, <1>7, <1>8, <1>9
  <2>2. CASE i \in 1 .. n
    <3>1. w[i] = s[i].kind /\ s[i] = u[i] /\ z[i] = c[i]
      BY <2>2, <1>6, <1>7, <1>8, <1>9
    <3>2. u[i] = Unit(c[i]) /\ c[i] \in {"byte", "nul"}
      BY <2>2, <1>1, <1>3
    <3> QED
      BY <3>1, <3>2, <1>2
  <2>3. i = n + 1 \/ i \in 1 .. n
    OBVIOUS
  <2> QED
    BY <2>1, <2>2, <2>3
<1>11. z \in Seq(UnitKinds) /\ Len(z) = n + 1
  BY <1>8 DEF UnitKinds
<1>12. w = z
  BY <1>9, <1>10, <1>11, SeqEqual
<1> QED
  BY <1>9, <1>12, ConcatEmptySeq

LEMMA DataLively ==
  ASSUME Going, GoesOn, SourceSendsData
  PROVE  Lively'
<1>1. PICK p \in DOMAIN src :
           /\ todo[1].path = p /\ Receiving(p) /\ Filling(p) /\ Busy /\ DataNext
           /\ todo # << >> /\ stream = << >>
           /\ stream' = << >> \o [i \in DOMAIN src[p].content |-> Unit(src[p].content[i])]
                          \o <<Unit("nul")>>
           /\ todo' = Tail(todo) /\ ~DataNext'
           /\ UNCHANGED <<opts, src, changes, fs, phase, timeSet, time, file, left, dir>>
  BY DataSent
<1>2. Busy' /\ \A r : Receiving(r)' <=> Receiving(r)
  BY <1>1 DEF Busy, Receiving
<1>3. Exchange'
  BY <1>2 DEF Exchange, GoesOn, Busy
<1>4. ASSUME NEW r \in DOMAIN src, Receiving(r)
      PROVE  r = p
  <2>1. Target \o r = Target \o p
    BY <1>1, <1>4 DEF Receiving
  <2> QED
    BY <2>1, GoingIs, InTarget DEF SourceTree
<1>5. ASSUME NEW r \in DOMAIN src
      PROVE  Meets(todo', Makers(r)) \/ Receiving(r)' \/ Complete(r)'
  <2>1. ~Coming(r)
    BY <1>1 DEF Coming
  <2>2. Complete(r) => Complete(r)'
    BY <1>1, AllStay
  <2>3. Meets(todo, Makers(r)) => todo[1] \in Makers(r) \/ Meets(todo', Makers(r))
    BY <1>1, GoingIs, MeetsTail
  <2>4. todo[1] \in Makers(r) => r = p
    BY <1>1 DEF Makers, Creators, DataNext
  <2> QED
    BY <2>1, <2>2, <2>3, <2>4, <1>1, <1>2, GoingIs
<1>6. Progress'
  BY <1>1, <1>5 DEF Progress
<1>7. Filling(p)'
  <2>1. /\ times /\ phase = "content" => timeSet /\ time = src[p].time
        /\ times /\ phase = "end" => fs[file].time = src[p].time
        /\ phase = "end" => left = 0
        /\ Changed(p) \/ Len(fs[file].content) + left = Len(src[p].content)
        /\ fs[file].content = << >>
    BY <1>1 DEF Filling
  <2>2. fs[file].content \o KindsOf(stream') = src[p].content \o <<"nul">>
    <3>1. src[p].content \in Seq({"byte", "nul"})
      BY GoingIs DEF SourceTree
    <3> QED
      BY <3>1, <2>1, <1>1, KindsSent
  <2>3. (KindsOf(stream))' = KindsOf(stream')
    BY DEF KindsOf
  <2>4. (Changed(p)' <=> Changed(p)) /\ times' = times
    BY <1>1 DEF Changed, times
  <2> QED
    BY <2>1, <2>2, <2>3, <2>4, <1>1 DEF Filling
<1>8. Fills'
  <2>1. ASSUME NEW r \in DOMAIN src', Receiving(r)'
        PROVE  Filling(r)'
    BY <2>1, <1>1, <1>2, <1>4, <1>7
  <2> QED
    BY <2>1 DEF Fills
<1>9. OnTime'
  BY <1>2 DEF OnTime, Due, Busy
<1> QED
  BY <1>3, <1>6, <1>8, <1>9 DEF Lively

LEMMA AckLively ==
  ASSUME Going, GoesOn, SourceGetsAck
  PROVE  Lively'
<1>1. /\ waiting /\ acks # << >> /\ acks' = Tail(acks) /\ waiting' = FALSE
      /\ UNCHANGED <<opts, src, changes, fs, phase, timeSet, time, file, left, dir, stream, todo>>
  BY DEF SourceGetsAck, SourceFails, SourceUnchanged, GoesOn, Live
<1>2. Resting \/ Spoilt
  BY <1>1, GoingIs, FreeSource
<1>3. acks = <<"ok">>
  <2>1. CASE Resting
    BY <2>1, <1>1 DEF Resting, Going
  <2>2. CASE Spoilt
    <3>1. phase = "header" /\ stream # << >> /\ stream[1].message = Invalid
      BY <2>2, GoingIs DEF Spoilt
    <3> QED
      BY <3>1, <1>1 DEF Going, Lively, Exchange
  <2> QED
    BY <2>1, <2>2, <1>2
<1>4. acks' = << >>
  BY <1>1, <1>3
<1>5. LineEnds' = LineEnds
  BY <1>1 DEF LineEnds
<1>6. Exchange'
  <2>1. ASSUME phase = "header", stream # << >>, stream[1].message = Invalid
        PROVE  LineEnds = {} /\ (todo # << >> => todo[1].op \in {"T", "C", "D", "E"})
    BY <2>1 DEF Going, Lively, Exchange
  <2> QED
    BY <2>1, <1>1, <1>4, <1>5, GoingIs DEF Exchange, GoesOn
<1>7. \A r : /\ Receiving(r)' <=> Receiving(r)
             /\ Coming(r)' <=> Coming(r)
             /\ Due(r)' <=> Due(r)
  BY <1>1 DEF Receiving, Busy, Coming, Due
<1>8. \A r \in DOMAIN src : Complete(r) => Complete(r)'
  BY <1>1, AllStay
<1>9. Progress'
  BY <1>1, <1>7, <1>8, GoingIs DEF Progress
<1>10. Fills'
  <2>1. \A r : Filling(r)' <=> Filling(r)
    BY <1>1 DEF Filling, Changed, times, DataNext, KindsOf
  <2> QED
    BY <2>1, <1>1, <1>7 DEF Fills, Going, Lively
<1>11. OnTime'
  <2>1. OnTime /\ times' = times
    BY <1>1 DEF Going, Lively, times
  <2> QED
    BY <2>1, <1>1, <1>7 DEF OnTime
<1> QED
  BY <1>6, <1>9, <1>10, <1>11 DEF Lively

LEMMA SourceLively ==
  ASSUME Going, GoesOn, Source
  PROVE  Lively'
<1>1. outcome' = "running"
  BY DEF GoesOn, Live
<1>2. ~(SourceGetsNoAck \/ SourceDone \/ SourceIOError)
  BY <1>1 DEF SourceGetsNoAck, SourceDone, SourceIOError, SourceFails
<1> QED
  BY <1>2, PlansLively, SendsLively, DataLively, AckLively DEF Source

\* A file that changes is still to be opened, or to be sent.
LEMMA ChangeLively ==
  ASSUME Going, GoesOn, Change
  PROVE  Lively'
<1>1. PICK i \in 1 .. Len(todo), p \in DOMAIN src, c \in Seq({"byte", "nul"}) :
           /\ todo[i].op = "data" /\ p = todo[i].path /\ IsTask(todo[i]) /\ ~src[p].dir
           /\ src' = [src EXCEPT ![p].content = c]
           /\ \A q : Changed(q)' <=> Changed(q) \/ q = p
  BY GoingIs, FileChanges
<1>2. /\ DOMAIN src' = DOMAIN src
      /\ \A q \in DOMAIN src : q # p => src'[q] = src[q]
      /\ src'[p].dir = src[p].dir /\ src'[p].time = src[p].time
  BY <1>1, FileChanged, GoingIs
<1>3. UNCHANGED <<opts, todo, waiting, fs, phase, timeSet, time, file, left, dir, stream, acks, closed>>
  BY DEF Change, sinkVars
<1>4. \A q \in DOMAIN src : src'[q].dir = src[q].dir /\ src'[q].time = src[q].time
  BY <1>2
<1>5. \A r : /\ Receiving(r)' <=> Receiving(r)
             /\ Coming(r)' <=> Coming(r)
             /\ Due(r)' <=> Due(r)
  BY <1>3 DEF Receiving, Busy, Coming, Due
<1>6. Exchange'
  <2>1. LineEnds' = LineEnds
    BY <1>3 DEF LineEnds
  <2> QED
    BY <2>1, <1>3, GoingIs DEF Exchange, GoesOn, Going, Lively
<1>7. ASSUME NEW r \in DOMAIN src, r # p, Complete(r)
      PROVE  Complete(r)'
  <2>1. src'[r] = src[r] /\ (Changed(r)' <=> Changed(r))
    BY <1>1, <1>2, <1>7
  <2>2. Arrived(r)'
    BY <2>1, <1>3, <1>7 DEF Complete, Arrived, times
  <2>3. Settled(r)'
    BY <2>1, <1>3, <1>7 DEF Complete, Settled
  <2> QED
    BY <2>2, <2>3 DEF Complete
<1>8. Meets(todo, Makers(p))
  <2>1. todo[i] \in Makers(p)
    BY <1>1, GoingIs DEF Makers
  <2> QED
    BY <2>1 DEF Meets
<1>9. Progress'
  BY <1>2, <1>3, <1>5, <1>7, <1>8, GoingIs DEF Progress
<1>10. ASSUME Receiving(p)
       PROVE  DataNext
  <2>1. SUFFICES ASSUME i # 1
                 PROVE  FALSE
    BY <1>1, GoingIs DEF DataNext
  <2> PICK h : h = i - 1
    OBVIOUS
  <2>2. h \in 1 .. Len(todo) - 1 /\ h + 1 = i /\ h \in 1 .. Len(todo)
    BY <2>1, GoingIs
  <2>3. Follows(todo[h], todo[h + 1])
    BY <2>2, GoingIs DEF Conversation, Plan, Walk, Steps
  <2>4. todo[h].op = "C" /\ todo[h].path = p /\ todo[h] \in TaskSet
    BY <2>2, <2>3, <1>1, GoingIs DEF Follows, Starts
  <2>5. Meets(todo, Creators(p))
    BY <2>2, <2>4 DEF Meets, Creators
  <2>6. Target \o p \notin DOMAIN fs
    BY <2>5 DEF Going, Orderly, Fresh
  <2>7. file \in DOMAIN fs /\ file = Target \o p
    BY <1>10, OpenFile DEF Receiving, Going
  <2> QED
    BY <2>6, <2>7
<1>11. ASSUME NEW r \in DOMAIN src, Receiving(r)
       PROVE  Filling(r)'
  <2>1. Filling(r)
    BY <1>11 DEF Going, Lively, Fills
  <2>2. times' = times /\ DataNext' = DataNext /\ (KindsOf(stream))' = KindsOf(stream)
    BY <1>3 DEF times, DataNext, KindsOf
  <2>3. CASE r = p
    <3>1. DataNext /\ Changed(r)'
      BY <2>3, <1>1, <1>10, <1>11
    <3> QED
      BY <3>1, <2>1, <2>2, <1>3, <1>4 DEF Filling
  <2>4. CASE r # p
    <3>1. src'[r] = src[r] /\ (Changed(r)' <=> Changed(r))
      BY <2>4, <1>1, <1>2
    <3> QED
      BY <3>1, <2>1, <2>2, <1>3 DEF Filling
  <2> QED
    BY <2>3, <2>4
<1>12. Fills'
  BY <1>2, <1>5, <1>11 DEF Fills
<1>13. OnTime'
  <2>1. OnTime /\ times' = times
    BY <1>3 DEF Going, Lively, times
  <2> QED
    BY <2>1, <1>2, <1>3, <1>4, <1>5 DEF OnTime
<1> QED
  BY <1>6, <1>9, <1>12, <1>13 DEF Lively

LEMMA NextLively ==
  ASSUME SCPInv, SCPInv', ShortInv', Orderly, Orderly', Sized, Lively, client = "source",
         Live, Live', [Next]_vars
  PROVE  Lively'
<1>1. /\ client' = client
      /\ (Sink /\ UNCHANGED clientVars) \/ Source \/ Change \/ Disconnect \/ UNCHANGED vars
  BY SourceOnly
<1>2. ~closed' /\ ~closed
  BY <1>1 DEF ShortInv, Live, Lively, Exchange
<1>3. Conversation /\ Conversation'
  BY <1>1 DEF SCPInv
<1>4. CASE Doomed'
  <2>1. (Conversation /\ Doomed /\ ~closed => Lively)'
    BY DoomedLively, PTL
  <2> QED
    BY <2>1, <1>2, <1>3, <1>4
<1>5. CASE ~Doomed'
  <2>1. ~Doomed
    BY <1>2, <1>3, <1>5, StaysDoomed
  <2>2. Going /\ GoesOn
    BY <2>1, <1>1, <1>2, <1>5 DEF Going, GoesOn
  <2>3. ~Disconnect
    BY DEF Disconnect, Live
  <2>4. CASE UNCHANGED vars
    <3>1. UNCHANGED <<opts, src, changes, todo, waiting, fs, phase, timeSet, time, file, left,
                      dir, stream, acks, closed>>
      BY <2>4 DEF vars, sinkVars, clientVars
    <3>2. LineEnds' = LineEnds /\ NextMessage' = NextMessage /\ DataNext' = DataNext /\ times' = times
      BY <3>1 DEF LineEnds, NextMessage, FirstLineEnd, DataNext, times
    <3>3. ASSUME NEW r
          PROVE  /\ Receiving(r)' <=> Receiving(r)
                 /\ Coming(r)' <=> Coming(r)
                 /\ Due(r)' <=> Due(r)
                 /\ Filling(r)' <=> Filling(r)
                 /\ Complete(r)' <=> Complete(r)
      <4>1. /\ Receiving(r)' <=> Receiving(r)
            /\ Coming(r)' <=> Coming(r)
            /\ Due(r)' <=> Due(r)
        BY <3>1 DEF Receiving, Busy, Coming, Due
      <4>2. Changed(r)' <=> Changed(r)
        BY <3>1 DEF Changed
      <4>3. Filling(r)' <=> Filling(r)
        BY <3>1, <3>2, <4>2 DEF Filling, KindsOf
      <4>4. Complete(r)' <=> Complete(r)
        BY <3>1, <3>2, <4>2 DEF Complete, Arrived, Settled
      <4> QED
        BY <4>1, <4>2, <4>3, <4>4
    <3>4. Exchange' /\ (Doomed' <=> Doomed)
      BY <3>1, <3>2 DEF Exchange, Doomed, Lively
    <3>5. Progress'
      BY <3>1, <3>3, <3>4 DEF Progress, Lively
    <3>6. Fills'
      BY <3>1, <3>3 DEF Fills, Lively
    <3>7. OnTime'
      BY <3>1, <3>2, <3>3 DEF OnTime, Lively
    <3> QED
      BY <3>4, <3>5, <3>6, <3>7 DEF Lively
  <2> QED
    BY <2>2, <2>3, <2>4, <1>1, SinkLively, SourceLively, ChangeLively
<1> QED
  BY <1>4, <1>5

LEMMA InitLively ==
  ASSUME Init, client = "source", Orderly
  PROVE  Lively
<1>1. /\ phase = "new" /\ ~closed /\ src \in Trees /\ todo = <<Task("stat", Top)>>
      /\ stream = << >> /\ acks = << >>
  BY DEF Init, SinkInit
<1>2. Conversation
  BY InitConversation
<1>3. SourceTree /\ todo \in Seq(TaskSet) /\ todo # << >> /\ todo[1].op = "stat"
  BY <1>1, <1>2 DEF Conversation, Plan, Walk, Steps, Task
<1>4. \A p \in DOMAIN src : Meets(todo, Makers(p))
  BY <1>3, StatsMeet DEF Orderly
<1>5. Exchange /\ Progress /\ Fills /\ OnTime
  BY <1>1, <1>4 DEF Exchange, Progress, Fills, OnTime, Receiving, Busy, Due
<1> QED
  BY <1>5 DEF Lively

-----------------------------------------------------------------------------
(***************************************************************************)
(* The source reports success when it has nothing left to do, and then all *)
(* is at the target.                                                       *)
(***************************************************************************)
\* The last acknowledgement.
LEMMA LastAck ==
  ASSUME SCPInv, Lively, client = "source", SourceGetsAck, todo = << >>, outcome' # "error"
  PROVE  Success'
<1>1. /\ outcome = "running" /\ linkUp /\ waiting /\ acks # << >> /\ Head(acks) = "ok"
      /\ UNCHANGED <<opts, src, changes, fs, phase, file, stream>>
  BY DEF SourceGetsAck, SourceFails, SourceUnchanged
<1>2. ~Doomed
  BY <1>1 DEF Doomed, DataNext
<1>3. Conversation /\ phase # "done"
  BY <1>2 DEF SCPInv, Lively, Exchange
<1>4. Resting \/ Spoilt
  BY <1>1, <1>3, FreeSource
<1>5. phase = "header" /\ LineEnds = {} /\ (stream # << >> => stream[1].message = Invalid)
  <2>1. CASE Resting
    BY <2>1, <1>1, NoLine DEF Resting, Live
  <2>2. CASE Spoilt
    <3>1. phase = "header" /\ stream # << >> /\ stream[1].message = Invalid
      BY <2>2, <1>1 DEF Spoilt
    <3> QED
      BY <3>1, <1>2 DEF Lively, Exchange
  <2> QED
    BY <2>1, <2>2, <1>4
<1>6. ASSUME NEW p \in DOMAIN src
      PROVE  Complete(p)'
  <2>1. ~Coming(p) /\ ~Receiving(p)
    BY <1>5, InvalidType DEF Coming, Receiving, Busy
  <2>2. ~Meets(todo, Makers(p))
    BY MeetsNone
  <2>3. Complete(p)
    BY <2>1, <2>2, <1>2 DEF Lively, Progress
  <2> QED
    BY <2>3, <1>1, <1>5, AllStay
<1>7. LineEnds' = {}
  BY <1>1, <1>5 DEF LineEnds
<1> QED
  BY <1>1, <1>5, <1>6, <1>7 DEF Success

\* Success lasts.
LEMMA SuccessLasts ==
  ASSUME SCPInv, client = "source", Finishing, Success, [Next]_vars, Finishing'
  PROVE  Success'
<1>1. (Sink /\ UNCHANGED clientVars) \/ Source \/ Change \/ Disconnect \/ UNCHANGED vars
  BY SourceOnly
<1>2. /\ todo = << >> /\ ~waiting /\ outcome # "error" /\ outcome' # "error"
      /\ phase \in {"header", "done"} /\ LineEnds = {}
      /\ \A p \in DOMAIN src : Complete(p)
  BY DEF Finishing, Success
<1>3. ~Change
  BY <1>2 DEF Change
<1>4. /\ UNCHANGED <<opts, src, changes, fs, file>>
      /\ phase' \in {"header", "done"} /\ LineEnds' = {}
  <2>1. CASE Sink /\ UNCHANGED clientVars
    <3>1. EndOfStream
      BY <2>1, <1>2 DEF Sink, SinkStarts, ReceiveC, ReceiveD, ReceiveE, ReceiveT, Receives,
                        RejectMessage, CopyByte, FileWritten, ReceiveEnd, SinkIOError
    <3>2. UNCHANGED <<opts, fs, file, stream>> /\ phase' = "done"
      BY <3>1 DEF EndOfStream, Abort
    <3> QED
      BY <2>1, <3>2, <1>2 DEF LineEnds, clientVars
  <2>2. CASE Source
    <3>1. SourceDone
      BY <2>2, <1>2 DEF Source, SourceStats, SourceSends, SourceLists, SourceSendsData, Sending,
                        SourceGetsAck, SourceGetsNoAck, SourceIOError, SourceFails
    <3>2. UNCHANGED <<opts, src, changes, fs, file, stream, phase>>
      BY <3>1 DEF SourceDone, SourceUnchanged
    <3> QED
      BY <3>2, <1>2 DEF LineEnds
  <2>3. CASE Disconnect
    <3>1. UNCHANGED <<opts, src, changes, fs, file, phase>> /\ stream' \in Prefixes(stream)
      BY <2>3 DEF Disconnect
    <3>2. stream \in Seq(Units)
      BY DEF SCPInv, SinkTypes, Wires
    <3>3. \A i \in DOMAIN stream' : i \in DOMAIN stream /\ stream'[i] = stream[i]
      <4>1. PICK n \in Nat : n = Len(stream) /\ DOMAIN stream = 1 .. n /\ stream \in [1 .. n -> Units]
        BY <3>2
      <4>2. PICK i \in 0 .. n : stream' = SubSeq(stream, 1, i)
        BY <3>1, <4>1 DEF Prefixes
      <4>3. stream' = [j \in 1 .. i |-> stream[j]]
        BY <4>1, <4>2
      <4> QED
        BY <4>1, <4>2, <4>3
    <3> QED
      BY <3>1, <3>3, <1>2 DEF LineEnds, EndsLine
  <2>4. CASE UNCHANGED vars
    BY <2>4, <1>2 DEF vars, sinkVars, clientVars, LineEnds
  <2> QED
    BY <2>1, <2>2, <2>3, <2>4, <1>1, <1>3
<1>5. \A p \in DOMAIN src : Complete(p)'
  BY <1>2, <1>4, AllStay
<1> QED
  BY <1>4, <1>5 DEF Success

LEMMA NextSuccess ==
  ASSUME SCPInv, SCPInv', client = "source", Live => Lively, Finishing => Success, [Next]_vars,
         Finishing'
  PROVE  Success'
<1>1. CASE Finishing
  BY <1>1, SuccessLasts
<1>2. CASE ~Finishing
  <2>1. (Sink /\ UNCHANGED clientVars) \/ Source \/ Change \/ Disconnect \/ UNCHANGED vars
    BY SourceOnly
  <2>2. todo' = << >> /\ ~waiting' /\ outcome' # "error"
    BY DEF Finishing
  <2>3. Source
    BY <2>1, <2>2, <1>2 DEF clientVars, vars, Change, Disconnect, Finishing
  <2>4. ~SourceStats
    <3>1. ASSUME SourceStats
          PROVE  todo' = Tasks(Top) /\ SourceTree /\ Top \in DOMAIN src
      <4>1. SourceTree
        BY DEF SCPInv, Conversation, Plan
      <4>2. \E p \in DOMAIN src : Len(p) = 1
        BY <4>1 DEF SourceTree
      <4>3. Top \in DOMAIN src
        BY <4>2 DEF Top
      <4> QED
        BY <4>1, <4>3, <3>1, <2>2 DEF SourceStats, SourceFails
    <3> QED
      BY <3>1, <2>2, TasksStretch
  <2>5. ~SourceLists
    <3>1. ASSUME SourceLists
          PROVE  FALSE
      <4>1. todo' = Listed(Head(todo).path) \o <<Task("E", Head(todo).path)>> \o Tail(todo)
        BY <3>1, <2>2 DEF SourceLists, SourceFails, Listed
      <4>2. PICK p : p = Head(todo).path
        OBVIOUS
      <4>3. Conversation /\ todo # << >> /\ Head(todo) = todo[1] /\ todo[1].op = "list"
            /\ IsTask(todo[1]) /\ todo \in Seq(TaskSet)
        BY <3>1, Sends DEF SourceLists, SCPInv
      <4>4. SourceTree /\ p \in DOMAIN src /\ p \in Paths
        BY <4>2, <4>3 DEF Conversation, Plan, SourceTree, IsTask
      <4>5. Listed(p) \in Seq(TaskSet) /\ Task("E", p) \in TaskSet /\ Tail(todo) \in Seq(TaskSet)
        BY <4>3, <4>4, ListedMeet, OneTask DEF Ops
      <4>6. PICK s \in Seq(TaskSet), r \in Seq(TaskSet) :
              s = Listed(p) /\ r = Tail(todo) /\ todo' = s \o <<Task("E", p)>> \o r
        BY <4>1, <4>2, <4>5
      <4>7. s \o <<Task("E", p)>> \in Seq(TaskSet) /\ s \o <<Task("E", p)>> # << >>
        BY <4>5, <4>6, LongerOne
      <4> QED
        BY <4>6, <4>7, <2>2, AppendWires
    <3> QED
      BY <3>1
  <2>6. SourceGetsAck
    BY <2>2, <2>3, <2>4, <2>5, <1>2
    DEF Source, SourceSends, SourceSendsData, SourceFails, SourceGetsNoAck,
        SourceDone, SourceIOError, Finishing
  <2>7. Live /\ todo = << >>
    BY <2>2, <2>6 DEF SourceGetsAck, Live
  <2> QED
    BY <2>2, <2>6, <2>7, LastAck
<1> QED
  BY <1>1, <1>2

LEMMA SourceAlone ==
  ASSUME client = "any", outcome = "running", [Next]_vars
  PROVE  outcome' = "running" /\ client' = "any"
BY DEF Next, vars, clientVars, Source, SourceStats, SourceSends, SourceLists, SourceSendsData,
       SourceGetsAck, SourceGetsNoAck, SourceDone, SourceIOError, Sending, Change, Disconnect,
       AnySends, sourceVars, AnyReads, AnyCloses, Finished

\* What has stopped does not go on.
LEMMA LiveBefore ==
  ASSUME client = "source", [Next]_vars, Live'
  PROVE  Live
<1>1. (Sink /\ UNCHANGED clientVars) \/ Source \/ Change \/ Disconnect \/ UNCHANGED vars
  BY SourceOnly
<1>2. linkUp' /\ outcome' = "running"
  BY DEF Live
<1>3. ~Disconnect
  BY <1>2 DEF Disconnect
<1>4. CASE Source
  <2>1. linkUp' = linkUp
    BY <1>4 DEF Source, SourceStats, SourceSends, SourceLists, SourceSendsData,
       SourceGetsAck, SourceGetsNoAck, SourceDone, SourceIOError, SourceUnchanged
  <2>2. outcome = "running"
    BY <1>4 DEF Source, SourceStats, SourceSends, SourceLists, SourceSendsData, Sending,
       SourceGetsAck, SourceGetsNoAck, SourceDone, SourceIOError
  <2> QED
    BY <2>1, <2>2, <1>2 DEF Live
<1> QED
  BY <1>1, <1>2, <1>3, <1>4 DEF Live, clientVars, vars, Change

LEMMA InitCopyInv == Init => CopyInv
<1> SUFFICES ASSUME Init
             PROVE  CopyInv
  OBVIOUS
<1>1. outcome = "running"
  BY DEF Init
<1>2. CASE client = "source"
  <2>1. Orderly /\ Sized
    BY <1>2, InitOrderly, InitSized
  <2>2. Lively
    BY <1>2, <2>1, InitLively
  <2>3. ~Finishing
    BY <1>2 DEF Init, Finishing
  <2> QED
    BY <1>1, <1>2, <2>1, <2>2, <2>3 DEF CopyInv
<1> QED
  BY <1>1, <1>2 DEF CopyInv

LEMMA NextCopyInv == SCPInv /\ SCPInv' /\ ShortInv' /\ CopyInv /\ [Next]_vars => CopyInv'
<1> SUFFICES ASSUME SCPInv, SCPInv', ShortInv', CopyInv, [Next]_vars
             PROVE  CopyInv'
  OBVIOUS
<1>1. client' = client
  BY ClientStays
<1>2. CASE client = "source"
  <2>1. Orderly /\ Sized /\ (Live => Lively) /\ (Finishing => Success)
    BY <1>2 DEF CopyInv
  <2>2. Orderly' /\ Sized'
    BY <1>2, <2>1, NextOrderly, NextSized
  <2>3. Live' => Lively'
    BY <1>2, <2>1, <2>2, LiveBefore, NextLively
  <2>4. Finishing' => Success'
    BY <1>2, <2>1, NextSuccess
  <2> QED
    BY <1>1, <1>2, <2>2, <2>3, <2>4 DEF CopyInv
<1>3. CASE client # "source"
  <2>1. client = "any" /\ outcome = "running"
    BY <1>3 DEF SCPInv, CopyInv
  <2>2. outcome' = "running"
    BY <2>1, SourceAlone
  <2> QED
    BY <1>1, <1>3, <2>2 DEF CopyInv
<1> QED
  BY <1>2, <1>3

\* A source that is done has nothing left to do.
LEMMA DoneIsFinishing ==
  ASSUME SCPInv, CopyInv, outcome = "ok"
  PROVE  client = "source" /\ Success
<1>1. client = "source"
  BY DEF SCPInv, CopyInv
<1>2. Finishing
  BY <1>1 DEF SCPInv, Conversation, Plan, Finishing
<1> QED
  BY <1>1, <1>2 DEF CopyInv

LEMMA CopyKnows == SCPInv /\ CopyInv => NoPartUnnoticed
<1> SUFFICES ASSUME SCPInv, CopyInv, outcome = "ok"
             PROVE  \A p \in DOMAIN src : Settled(p)
  BY DEF NoPartUnnoticed, Settled
<1> QED
  BY DoneIsFinishing DEF Success, Complete

\* When the source reports success the content of each file is at the target as the
\* source has it now, or ends there before a byte 0: a file that was written to
\* between the reading of its directory and its opening does not arrive in part
\* unnoticed in any other way (source.go: sendFile; sink.go, messages.go: process).
THEOREM NoneInPart == Spec => []NoPartUnnoticed
<1>1. Init => SCPInv /\ ShortInv /\ CopyInv
  BY InitSCPInv, InitShortInv, InitCopyInv
<1>2. SCPInv /\ ShortInv /\ CopyInv /\ [Next]_vars => SCPInv' /\ ShortInv' /\ CopyInv'
  BY NextSCPInv, NextShortInv, NextCopyInv
<1> QED
  BY <1>1, <1>2, CopyKnows, PTL DEF Spec

-----------------------------------------------------------------------------
(***************************************************************************)
(* The refinement: a step completes at most one node, and only when the    *)
(* directories above it are there.                                         *)
(***************************************************************************)
\* No node but r has become complete, and none is lost.
Gains(r) ==
  /\ DOMAIN src' = DOMAIN src
  /\ \A p \in DOMAIN src : p # r => (Arrived(p)' <=> Arrived(p))
  /\ Arrived(r) => Arrived(r)'

LEMMA ArrivedSame ==
  ASSUME UNCHANGED <<opts, src, changes>>, NEW p, NEW q, q = Target \o p,
         q \in DOMAIN fs' <=> q \in DOMAIN fs,
         q \in DOMAIN fs =>
           /\ fs'[q].dir = fs[q].dir
           /\ ~fs[q].dir => /\ fs'[q] = fs[q]
                            /\ (file' = q /\ phase' = "content") <=> (file = q /\ phase = "content")
  PROVE  Arrived(p)' <=> Arrived(p)
<1>1. (Changed(p)' <=> Changed(p)) /\ times' = times
  BY DEF Changed, times
<1>2. CASE q \notin DOMAIN fs
  BY <1>2 DEF Arrived
<1>3. CASE q \in DOMAIN fs /\ fs[q].dir # src[p].dir
  BY <1>3 DEF Arrived
<1>4. CASE q \in DOMAIN fs /\ fs[q].dir = src[p].dir
  BY <1>1, <1>4 DEF Arrived
<1> QED
  BY <1>2, <1>3, <1>4

LEMMA ArrivesStill ==
  ASSUME SourceTree, UNCHANGED <<opts, src, changes, fs>>,
         phase' = "content" <=> phase = "content", phase = "content" => file' = file
  PROVE  \E r \in DOMAIN src : Gains(r)
<1>1. \A p : Arrived(p)' <=> Arrived(p)
  BY ArrivedSame
<1> QED
  BY <1>1 DEF Gains, SourceTree

\* Steps that leave the file system alone, but for those in the contents of a file.
LEMMA QuietGains ==
  ASSUME SCPInv, client = "source", UNCHANGED clientVars,
         SinkStarts \/ ReceiveE \/ ReceiveT \/ RejectMessage \/ ReceiveEnd \/ EndOfStream
  PROVE  \E r \in DOMAIN src : Gains(r)
<1>1. UNCHANGED <<opts, src, changes, fs>> /\ phase # "content" /\ phase' # "content"
  BY DEF SinkStarts, ReceiveE, ReceiveT, Receives, RejectMessage, ReceiveEnd, EndOfStream, Abort,
         clientVars
<1>2. SourceTree
  BY DEF SCPInv, Conversation, Plan
<1> QED
  BY <1>1, <1>2, ArrivesStill

\* In the contents of a file nothing but that file may become complete.
LEMMA ContentGains ==
  ASSUME SCPInv, Orderly, client = "source", phase = "content",
         UNCHANGED <<opts, src, changes, file>>,
         DOMAIN fs' = DOMAIN fs, \A q \in DOMAIN fs : q # file => fs'[q] = fs[q]
  PROVE  \E r \in DOMAIN src : Gains(r)
<1>1. PICK r \in DOMAIN src : file = Target \o r /\ ~src[r].dir
  BY DEF Orderly, FileOpen, Busy, Receiving
<1>2. ~Arrived(r)
  BY <1>1 DEF Arrived
<1>3. ASSUME NEW p \in DOMAIN src, p # r
      PROVE  Arrived(p)' <=> Arrived(p)
  <2> PICK q : q = Target \o p
    OBVIOUS
  <2>1. p \in Paths /\ r \in Paths
    BY DEF SCPInv, Conversation, Plan, SourceTree
  <2>2. q # file
    BY <2>1, <1>1, <1>3, InTarget
  <2> QED
    BY <2>2, ArrivedSame
<1> QED
  BY <1>2, <1>3 DEF Gains

LEMMA WritesGain ==
  ASSUME SCPInv, Orderly, client = "source", UNCHANGED clientVars, CopyByte \/ FileWritten
  PROVE  \E r \in DOMAIN src : Gains(r)
<1>1. phase = "content" /\ UNCHANGED <<opts, src, changes, file>>
  BY DEF CopyByte, FileWritten, clientVars
<1>2. DOMAIN fs' = DOMAIN fs /\ \A q \in DOMAIN fs : q # file => fs'[q] = fs[q]
  BY DEF CopyByte, FileWritten
<1> QED
  BY <1>1, <1>2, ContentGains

LEMMA ErrorGains ==
  ASSUME SCPInv, Orderly, client = "source", UNCHANGED clientVars, SinkIOError
  PROVE  \E r \in DOMAIN src : Gains(r)
<1>1. UNCHANGED <<opts, src, changes, file, fs>> /\ phase' = "done"
      /\ phase \in {"header", "content"}
  BY DEF SinkIOError, Abort, clientVars
<1>2. SourceTree
  BY DEF SCPInv, Conversation, Plan
<1>3. CASE phase = "content"
  BY <1>1, <1>3, ContentGains
<1>4. CASE phase # "content"
  BY <1>1, <1>2, <1>4, ArrivesStill
<1> QED
  BY <1>3, <1>4

LEMMA FileGains ==
  ASSUME SCPInv, Orderly, client = "source", UNCHANGED clientVars, ReceiveC
  PROVE  \E r \in DOMAIN src : Gains(r)
<1>1. UNCHANGED <<opts, src, changes>> /\ Receives("C") /\ phase = "header"
  BY DEF ReceiveC, Receives, clientVars
<1>2. PICK t \in TaskSet :
           /\ t.path \in DOMAIN src /\ t.path \in Paths
           /\ NextMessage.name = Name(t.path) /\ Name(t.path) \in Names
           /\ Target \o t.path \in Paths
           /\ Append(dir, Name(t.path)) = Target \o t.path
           /\ Target \o t.path \notin DOMAIN fs
           /\ IsDirectory(dir) /\ dir \in Paths
  BY <1>1, Creation
<1>3. SourceTree /\ IsTree(fs)
  BY DEF SCPInv, Conversation, Plan, SinkTypes
<1>4. CASE phase' = "done"
  <2>1. fs' = fs
    BY <1>4 DEF ReceiveC
  <2> QED
    BY <2>1, <1>1, <1>3, <1>4, ArrivesStill
<1>5. CASE phase' # "done"
  <2> PICK d : d = Target \o t.path
    OBVIOUS
  <2>1. fs' = WithNode(d, EmptyFile) /\ file' = d /\ Parent(d) = dir
    BY <1>2, <1>5, FileCreated
  <2>2. DOMAIN fs' = DOMAIN fs \cup {d}
    BY <2>1, NodeIsNew
  <2>3. ASSUME NEW p \in DOMAIN src, p # t.path
        PROVE  Arrived(p)' <=> Arrived(p)
    <3> PICK q : q = Target \o p
      OBVIOUS
    <3>1. q # d
      BY <1>2, <1>3, <2>3, InTarget DEF SourceTree
    <3>2. ASSUME q \in DOMAIN fs
          PROVE  fs'[q].dir = fs[q].dir /\ (~fs[q].dir => fs'[q] = fs[q])
      <4>1. /\ WithNode(d, EmptyFile)[q].dir = fs[q].dir
            /\ q # Parent(d) => WithNode(d, EmptyFile)[q] = fs[q]
        BY <1>2, <1>3, <3>2, OthersStay
      <4> QED
        BY <4>1, <2>1, <1>2 DEF IsDirectory
    <3>3. q \in DOMAIN fs' <=> q \in DOMAIN fs
      BY <3>1, <2>2
    <3>4. ~(file' = q /\ phase' = "content") /\ ~(file = q /\ phase = "content")
      BY <3>1, <1>1, <2>1
    <3> QED
      BY <3>2, <3>3, <3>4, <1>1, ArrivedSame
  <2>4. ~Arrived(t.path)
    BY <1>2 DEF Arrived
  <2> QED
    BY <1>1, <1>2, <2>3, <2>4 DEF Gains
<1> QED
  BY <1>4, <1>5

LEMMA DirectoryGains ==
  ASSUME SCPInv, Orderly, client = "source", UNCHANGED clientVars, ReceiveD
  PROVE  \E r \in DOMAIN src : Gains(r)
<1>1. UNCHANGED <<opts, src, changes, file>> /\ Receives("D") /\ phase = "header"
  BY DEF ReceiveD, Receives, clientVars
<1>2. PICK t \in TaskSet :
           /\ t.op = "D" /\ NextMessage = MessageFor(t)
           /\ t.path \in DOMAIN src /\ t.path \in Paths
           /\ NextMessage.name = Name(t.path)
           /\ Target \o t.path \in Paths
           /\ Append(dir, Name(t.path)) = Target \o t.path
           /\ Target \o t.path \notin DOMAIN fs
           /\ \A r \in Prefixes(Target \o t.path) : r = Target \o t.path \/ IsDirectory(r)
  BY <1>1, Creation
<1> PICK d : d = Target \o t.path
  OBVIOUS
<1>3. /\ phase' = phase /\ DOMAIN fs' = DOMAIN fs \cup {d}
      /\ \A q \in DOMAIN fs :
           fs'[q].dir = fs[q].dir /\ (~fs[q].dir => fs'[q] = fs[q])
  BY <1>1, <1>2, DirectoryCreated
<1>4. ASSUME NEW p \in DOMAIN src, p # t.path
      PROVE  Arrived(p)' <=> Arrived(p)
  <2> PICK q : q = Target \o p
    OBVIOUS
  <2>1. q # d
    BY <1>2, <1>4, InTarget DEF SCPInv, Conversation, Plan, SourceTree
  <2> QED
    BY <2>1, <1>1, <1>3, ArrivedSame
<1>5. ~Arrived(t.path)
  BY <1>2 DEF Arrived
<1> QED
  BY <1>1, <1>2, <1>4, <1>5 DEF Gains

LEMMA SinkGains ==
  ASSUME SCPInv, Orderly, client = "source", UNCHANGED clientVars, Sink
  PROVE  \E r \in DOMAIN src : Gains(r)
BY QuietGains, WritesGain, ErrorGains, FileGains, DirectoryGains DEF Sink

LEMMA OthersGain ==
  ASSUME SCPInv, client = "source", Source \/ Disconnect \/ UNCHANGED vars
  PROVE  \E r \in DOMAIN src : Gains(r)
<1>1. UNCHANGED <<opts, src, changes, fs, phase, file>>
  BY DEF Source, SourceStats, SourceSends, SourceLists, SourceSendsData, SourceGetsAck,
         SourceGetsNoAck, SourceDone, SourceIOError, SourceUnchanged, Disconnect, vars,
         sinkVars, clientVars
<1>2. SourceTree
  BY DEF SCPInv, Conversation, Plan
<1> QED
  BY <1>1, <1>2, ArrivesStill

LEMMA ChangeGains ==
  ASSUME SCPInv, client = "source", Change
  PROVE  \E r \in DOMAIN src : Gains(r)
<1>1. Conversation /\ SourceTree
  BY DEF SCPInv, Conversation, Plan
<1>2. PICK i \in 1 .. Len(todo), r \in DOMAIN src, c \in Seq({"byte", "nul"}) :
           /\ src' = [src EXCEPT ![r].content = c]
           /\ \A q : Changed(q)' <=> Changed(q) \/ q = r
  BY <1>1, FileChanges
<1>3. /\ DOMAIN src' = DOMAIN src
      /\ \A q \in DOMAIN src : q # r => src'[q] = src[q]
      /\ src'[r].dir = src[r].dir /\ src'[r].time = src[r].time
  BY <1>1, <1>2, FileChanged
<1>4. UNCHANGED <<opts, fs, phase, file>> /\ times' = times
  BY DEF Change, sinkVars, times
<1>5. ASSUME NEW p \in DOMAIN src, p # r
      PROVE  Arrived(p)' <=> Arrived(p)
  <2>1. src'[p] = src[p] /\ (Changed(p)' <=> Changed(p))
    BY <1>2, <1>3, <1>5
  <2> QED
    BY <2>1, <1>4 DEF Arrived
<1>6. Arrived(r) => Arrived(r)'
  BY <1>2, <1>3, <1>4 DEF Arrived
<1> QED
  BY <1>3, <1>5, <1>6 DEF Gains

LEMMA StepGains ==
  ASSUME SCPInv, Orderly, client = "source", [Next]_vars
  PROVE  \E r \in DOMAIN src : Gains(r)
BY SourceOnly, SinkGains, OthersGain, ChangeGains

\* The directories above a node that is there are complete.
LEMMA AboveArrived ==
  ASSUME SCPInv, Orderly, client = "source", NEW r \in DOMAIN src, Arrived(r),
         NEW q \in Copy!Above(r)
  PROVE  q \in DOMAIN src /\ q # r /\ Arrived(q)
<1>1. SourceTree
  BY DEF SCPInv, Conversation, Plan
<1>2. PICK i \in 1 .. Len(r) - 1 : q = SubSeq(r, 1, i)
  BY DEF Copy!Above
<1>3. q \in DOMAIN src /\ src[q].dir /\ r \in Paths /\ q \in Paths
  BY <1>1, <1>2, AboveInTree DEF SourceTree
<1>4. Len(q) = i /\ i < Len(r) /\ q # r
  BY <1>2, <1>3
<1>5. Target \o q \in Prefixes(Target \o r) /\ Target \o q # Target \o r
  <2>1. Target \o q = SubSeq(Target \o r, 1, Len(Target) + i)
    <3> PICK a \in Nat, b \in Nat : a = Len(Target) /\ b = Len(r)
      BY <1>3, TargetAssumption
    <3>1. /\ Target \o q \in Paths /\ Target \o r \in Paths
          /\ Len(Target \o q) = a + i /\ Len(Target \o r) = a + b
          /\ \A j \in 1 .. a + i : (Target \o q)[j] = IF j <= a THEN Target[j] ELSE q[j - a]
          /\ \A j \in 1 .. a + b : (Target \o r)[j] = IF j <= a THEN Target[j] ELSE r[j - a]
      BY <1>3, <1>4, TargetAssumption, ConcatProperties DEF Paths
    <3>2. i \in 1 .. b - 1 /\ a + i \in 0 .. a + b
      BY <1>2
    <3>3. \A j \in 1 .. i : q[j] = r[j]
      BY <1>2, <1>3, <3>2 DEF Paths
    <3>4. SubSeq(Target \o r, 1, a + i) \in Paths /\ Len(SubSeq(Target \o r, 1, a + i)) = a + i
          /\ \A j \in 1 .. a + i : SubSeq(Target \o r, 1, a + i)[j] = (Target \o r)[j]
      BY <3>1, <3>2 DEF Paths
    <3>5. ASSUME NEW j \in 1 .. a + i
          PROVE  (Target \o q)[j] = (Target \o r)[j]
      <4>1. CASE j <= a
        BY <4>1, <3>1, <3>2
      <4>2. CASE ~(j <= a)
        <5>1. j - a \in 1 .. i /\ j \in 1 .. a + b
          BY <4>2, <3>2
        <5> QED
          BY <5>1, <4>2, <3>1, <3>3
      <4> QED
        BY <4>1, <4>2
    <3> QED
      BY <3>1, <3>4, <3>5, SeqEqual DEF Paths
  <2>2. Len(Target) + i \in 0 .. Len(Target \o r)
    BY <1>3, <1>4, InTarget, TargetAssumption
  <2>3. Target \o q # Target \o r
    BY <1>3, <1>4, InTarget
  <2> QED
    BY <2>1, <2>2, <2>3 DEF Prefixes
<1>6. IsDirectory(Target \o q)
  BY <1>5 DEF Orderly, Nested, Arrived
<1>7. src[q].dir \in BOOLEAN /\ fs[Target \o q].dir \in BOOLEAN
  BY <1>1, <1>3, <1>6 DEF SourceTree, SCPInv, SinkTypes, IsTree, IsDirectory
<1> QED
  BY <1>3, <1>4, <1>6, <1>7 DEF Arrived, IsDirectory

LEMMA AllAbove ==
  \A s \in DOMAIN src : \A z \in Copy!Above(s) :
    SCPInv /\ Orderly /\ client = "source" /\ Arrived(s)
      => z \in DOMAIN src /\ z # s /\ Arrived(z)
BY AboveArrived

\* What is to be copied, and what has been, seen from the step.
LEMMA CopyStep ==
  ASSUME SCPInv, SCPInv', CopyInv, CopyInv', client = "source", [Next]_vars
  PROVE  /\ client' = "source" /\ DOMAIN src' = DOMAIN src
         /\ \/ Copied' = Copied
            \/ \E r \in DOMAIN src :
                 /\ r \notin Copied /\ Copied' = Copied \cup {r}
                 /\ Copy!Above(r) \subseteq Copied /\ outcome # "ok"
<1>1. client' = "source"
  BY ClientStays
<1>2. Orderly /\ Orderly'
  BY <1>1 DEF CopyInv
<1>3. PICK r \in DOMAIN src : Gains(r)
  BY <1>2, StepGains
<1>4. DOMAIN src' = DOMAIN src
  BY <1>3 DEF Gains
<1>5. Copied' = {p \in DOMAIN src' : Arrived(p)'}
  BY DEF Copied
<1>6. CASE Arrived(r)' <=> Arrived(r)
  <2>1. \A p \in DOMAIN src : Arrived(p)' <=> Arrived(p)
    BY <1>3, <1>6 DEF Gains
  <2>2. Copied' = {p \in DOMAIN src : Arrived(p)}
    BY <2>1, <1>4, <1>5
  <2>3. Copied' = Copied
    BY <2>2 DEF Copied
  <2> QED
    BY <2>3, <1>1, <1>4
<1>7. CASE ~(Arrived(r)' <=> Arrived(r))
  <2>1. ~Arrived(r) /\ Arrived(r)'
    BY <1>3, <1>7 DEF Gains
  <2>2. r \notin Copied /\ Copied' = Copied \cup {r}
    BY <2>1, <1>3, <1>4, <1>5 DEF Gains, Copied
  <2>3. ASSUME NEW q \in Copy!Above(r)
        PROVE  q \in Copied
    <3>1. (\A s \in DOMAIN src : \A z \in Copy!Above(s) :
             SCPInv /\ Orderly /\ client = "source" /\ Arrived(s)
               => z \in DOMAIN src /\ z # s /\ Arrived(z))'
      BY AllAbove, PTL
    <3>2. q \in DOMAIN src /\ q # r /\ Arrived(q)'
      BY <3>1, <2>1, <1>1, <1>2, <1>4 DEF Copy!Above
    <3> QED
      BY <3>2, <1>3 DEF Gains, Copied
  <2>4. outcome # "ok"
    BY <2>1, DoneIsFinishing DEF Success, Complete
  <2> QED
    BY <2>2, <2>3, <2>4, <1>1, <1>4
<1> QED
  BY <1>1, <1>4, <1>6, <1>7

\* A step of the source that changes what it reports is its end.
LEMMA OutcomeStep ==
  ASSUME SCPInv, CopyInv, client = "source", [Next]_vars, outcome' # outcome
  PROVE  /\ outcome = "running" /\ Copied' = Copied
         /\ \/ outcome' = "error"
            \/ outcome' = "ok" /\ Copied = DOMAIN src
<1>1. Source
  BY SourceOnly DEF clientVars, vars, Change, Disconnect
<1>2. outcome = "running"
  BY <1>1 DEF Source, SourceStats, SourceSends, SourceLists, SourceSendsData, Sending,
       SourceGetsAck, SourceGetsNoAck, SourceDone, SourceIOError
<1>3. UNCHANGED <<opts, src, changes, fs, phase, file>>
  BY <1>1 DEF Source, SourceStats, SourceSends, SourceLists, SourceSendsData, SourceGetsAck,
         SourceGetsNoAck, SourceDone, SourceIOError, SourceUnchanged
<1>4. \A p : Arrived(p)' <=> Arrived(p)
  BY <1>3, ArrivedSame
<1>5. Copied' = {p \in DOMAIN src' : Arrived(p)'}
  BY DEF Copied
<1>6. Copied' = {p \in DOMAIN src : Arrived(p)}
  BY <1>3, <1>4, <1>5
<1>7. Copied' = Copied
  BY <1>6 DEF Copied
<1>8. outcome' = "error" \/ SourceDone
  BY <1>1 DEF Source, SourceStats, SourceSends, SourceLists, SourceSendsData, SourceGetsAck,
         SourceGetsNoAck, SourceIOError, SourceFails
<1>9. ASSUME SourceDone
      PROVE  outcome' = "ok" /\ Copied = DOMAIN src
  <2>1. Finishing /\ outcome' = "ok"
    BY <1>9 DEF SourceDone, Finishing
  <2>2. \A p \in DOMAIN src : Arrived(p)
    BY <2>1 DEF CopyInv, Success, Complete
  <2> QED
    BY <2>1, <2>2 DEF Copied
<1> QED
  BY <1>2, <1>7, <1>8, <1>9

LEMMA InitCopies == Init => Copy!Init
<1> SUFFICES ASSUME Init
             PROVE  Copy!Init
  OBVIOUS
<1>1. ASSUME client = "source"
      PROVE  Copied = {}
  <2>1. SourceTree
    BY <1>1, InitConversation DEF Conversation, Plan
  <2>2. DOMAIN fs = Prefixes(Target)
    BY DEF Init, SinkInit
  <2>3. \A p \in DOMAIN src : Target \o p \notin DOMAIN fs
    BY <2>1, <2>2, NotAbove DEF SourceTree
  <2> QED
    BY <2>3 DEF Copied, Arrived
<1>2. outcome = "running"
  BY DEF Init
<1> QED
  BY <1>1, <1>2 DEF Copy!Init

LEMMA NextCopies ==
  SCPInv /\ SCPInv' /\ CopyInv /\ CopyInv' /\ [Next]_vars => [Copy!Next]_Copy!copyVars
<1> SUFFICES ASSUME SCPInv, SCPInv', CopyInv, CopyInv', [Next]_vars
             PROVE  [Copy!Next]_Copy!copyVars
  OBVIOUS
<1>1. client' = client
  BY ClientStays
<1>2. CASE client # "source"
  <2>1. client = "any" /\ outcome = "running"
    BY <1>2 DEF SCPInv, CopyInv
  <2>2. outcome' = outcome
    BY <2>1, SourceAlone
  <2> QED
    BY <2>2, <1>1, <1>2 DEF Copy!copyVars
<1>3. CASE client = "source"
  <2>1. /\ client' = "source" /\ DOMAIN src' = DOMAIN src
        /\ \/ Copied' = Copied
           \/ \E r \in DOMAIN src :
                /\ r \notin Copied /\ Copied' = Copied \cup {r}
                /\ Copy!Above(r) \subseteq Copied /\ outcome # "ok"
    BY <1>3, CopyStep
  <2>2. CASE outcome' # outcome
    <3>1. /\ outcome = "running" /\ Copied' = Copied
          /\ \/ outcome' = "error"
             \/ outcome' = "ok" /\ Copied = DOMAIN src
      BY <1>3, <2>2, OutcomeStep
    <3>2. Copy!Fail \/ Copy!Succeed
      BY <3>1, <2>1, <1>3 DEF Copy!Fail, Copy!Succeed
    <3> QED
      BY <3>2 DEF Copy!Next
  <2>3. CASE outcome' = outcome /\ Copied' = Copied
    BY <2>1, <2>3, <1>3 DEF Copy!copyVars
  <2>4. CASE outcome' = outcome /\ Copied' # Copied
    <3>1. PICK r \in DOMAIN src :
            /\ r \notin Copied /\ Copied' = Copied \cup {r}
            /\ Copy!Above(r) \subseteq Copied /\ outcome # "ok"
      BY <2>1, <2>4
    <3>2. Copy!Copy(r)
      BY <3>1, <2>1, <2>4, <1>3 DEF Copy!Copy
    <3> QED
      BY <3>2, <1>3 DEF Copy!Next
  <2> QED
    BY <2>2, <2>3, <2>4
<1> QED
  BY <1>2, <1>3

\* A transfer between the source and the sink implements a recursive copy, whatever
\* fails on the way: nodes arrive whole and after their directories, one at a time,
\* none is lost or spoilt later, and the source reports success only when the whole
\* tree is at the target (scp/source.go, scp/sink.go).
THEOREM ImplementsCopy == Spec => CopySpec
<1>1. Init => SCPInv /\ ShortInv /\ CopyInv /\ Copy!Init
  BY InitSCPInv, InitShortInv, InitCopyInv, InitCopies
<1>2. SCPInv /\ ShortInv /\ CopyInv /\ [Next]_vars => SCPInv' /\ ShortInv' /\ CopyInv'
  BY NextSCPInv, NextShortInv, NextCopyInv
<1>3. SCPInv /\ SCPInv' /\ CopyInv /\ CopyInv' /\ [Next]_vars => [Copy!Next]_Copy!copyVars
  BY NextCopies
<1> QED
  BY <1>1, <1>2, <1>3, PTL DEF Spec, CopySpec, Copy!Spec

=============================================================================
