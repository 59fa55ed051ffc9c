------------------------------ MODULE ServicesProofs ------------------------------
(***************************************************************************)
(* Theorems about Services: the types of its state, the connections that   *)
(* a listener holds, and the jobs of the files of a watched directory.     *)
(***************************************************************************)
EXTENDS Services, Sequences, FiniteSetTheorems, TLAPS

-----------------------------------------------------------------------------
(* What the watcher and the loop behind it work on.                        *)

Ops == {"create", "write", "remove", "rename"}
Event == Ops \X W!JobNames

WatcherTyped ==
    /\ disk \in [Files -> W!Contents]
    /\ added \in BOOLEAN
    /\ names \in Seq(Files)
    /\ absentAtAdd \subseteq Files /\ touched \subseteq Files
    /\ notified \in Seq(Event)
    /\ sending = <<>> \/ sending \in Event
    /\ event = <<>> \/ event \in Event
    /\ parsed \in W!Contents /\ (loop = "add" => parsed \in {"old", "new"})

-----------------------------------------------------------------------------
(* The events on their way: the one that is handled, the one that watch    *)
(* sends, and those of the kernel.                                         *)

Places == 0 .. Len(notified) + 1
At(p) == IF p = 0 THEN event ELSE IF p = 1 THEN sending ELSE notified[p - 1]

Made(p, f) == At(p) = <<"create", W!InDir(f)>>
Gone(p, f) == At(p) = <<"remove", W!InDir(f)>> \/ At(p) = <<"rename", W!InDir(f)>>
Tells(p, f) == Made(p, f) \/ Gone(p, f) \/ At(p) = <<"write", W!InDir(f)>>

\* What the executor should have for a file.
Wanted(f) == IF disk[f] = "partial" THEN "absent" ELSE disk[f]

\* A file that no event on its way is about has the job it holds.
QuietFilesAreFollowed == \A f \in absentAtAdd \cup touched :
    (\A p \in Places : ~Tells(p, f)) => jobs[W!InDir(f)] = Wanted(f)

\* The last event about a file says whether it exists.
LastTells == \A f \in Files : \A p \in Places :
    (Tells(p, f) /\ \A q \in Places : q > p => ~Tells(q, f)) => (disk[f] = "absent" <=> Gone(p, f))

\* Before a file is created it has no job, or the event before says it has gone.
CreatedAfresh == \A f \in Files : \A p \in Places : Made(p, f) =>
    /\ \A q \in Places :
        (q < p /\ Tells(q, f) /\ \A r \in Places : (q < r /\ r < p) => ~Tells(r, f)) => Gone(q, f)
    /\ (\A q \in Places : q < p => ~Tells(q, f)) => jobs[W!InDir(f)] = "absent"

\* What was parsed is what the file holds, or there is another event about it.
ParsedFollows == \A f \in Files : (loop = "add" /\ Tells(0, f)) =>
    /\ ~Gone(0, f)
    /\ (\A q \in Places : q > 0 => ~Tells(q, f)) => parsed = disk[f]

\* Before the directory is added nothing is told of it, and from then on a file
\* that is not counted exists.
Accounted ==
    /\ added => watch \notin {"read", "add"}
    /\ added => \A f \in Files \ (absentAtAdd \cup touched) : disk[f] # "absent"
    /\ ~added => /\ absentAtAdd = {} /\ touched = {}
                 /\ \A f \in Files : jobs[W!InDir(f)] = "absent" /\ \A p \in Places : ~Tells(p, f)

FollowInv ==
    WatcherTyped /\ QuietFilesAreFollowed /\ LastTells /\ CreatedAfresh /\ ParsedFollows /\ Accounted

\* The connection accept holds is the one it offers.
OnlyOfferIsHeld == \A c \in Conns : conn[c] = "held" => (offer = c /\ acceptor = "sending")

-----------------------------------------------------------------------------
(* How the events on their way change.                                     *)

Others == <<disk, jobs, added, absentAtAdd, touched>>

\* No event that tells of a file is lost or overtaken; place p was place h[p].
Moved(h) ==
    /\ \A p \in Places' : h[p] \in Places
    /\ \A f \in Files, p \in Places' : /\ Tells(p, f)' <=> Tells(h[p], f)
                                       /\ Gone(p, f)' <=> Gone(h[p], f)
                                       /\ Made(p, f)' <=> Made(h[p], f)
    /\ \A f \in Files, q \in Places : Tells(q, f) => \E p \in Places' : h[p] = q
    /\ \A f \in Files, p, q \in Places' :
        (p < q /\ Tells(p, f)' /\ Tells(q, f)') => h[p] < h[q]

LEMMA PlacesAre == WatcherTyped => 0 \in Places /\ \A p \in Places : p \in Nat
BY DEF WatcherTyped, Places

LEMMA PlacesStay == WatcherTyped' => 0 \in Places' /\ \A p \in Places' : p \in Nat
BY DEF WatcherTyped, Places

LEMMA TellsOnce ==
    ASSUME NEW p, NEW f
    PROVE  /\ Made(p, f) => Tells(p, f) /\ ~Gone(p, f)
           /\ Gone(p, f) => Tells(p, f)
BY DEF Made, Gone, Tells

\* What is known of the files survives a move of the events.
LEMMA MovesFollow ==
    ASSUME FollowInv, WatcherTyped', NEW h, Moved(h), UNCHANGED Others,
           added => watch' \notin {"read", "add"},
           loop' = "add" => (UNCHANGED <<loop, parsed>> /\ h[0] = 0)
    PROVE  FollowInv'
<1>. /\ 0 \in Places /\ \A p \in Places : p \in Nat
     /\ 0 \in Places' /\ \A p \in Places' : p \in Nat
  BY PlacesAre, PlacesStay DEF FollowInv
<1>1. ASSUME NEW f \in Files
      PROVE  (\A p \in Places' : ~Tells(p, f)') <=> (\A p \in Places : ~Tells(p, f))
  <2>1. \A p \in Places' : h[p] \in Places /\ (Tells(p, f)' <=> Tells(h[p], f))
    BY DEF Moved
  <2>2. \A q \in Places : Tells(q, f) => \E p \in Places' : h[p] = q
    BY DEF Moved
  <2>. QED
    BY <2>1, <2>2
<1>2. LastTells'
  <2>. SUFFICES ASSUME NEW f \in Files, NEW p \in Places',
                       Tells(p, f)', \A q \in Places' : q > p => ~Tells(q, f)'
                PROVE  disk[f] = "absent" <=> Gone(p, f)'
    BY DEF LastTells, Others
  <2>1. h[p] \in Places /\ Tells(h[p], f)
    BY DEF Moved
  <2>2. ASSUME NEW q \in Places, q > h[p], Tells(q, f) PROVE FALSE
    <3>1. PICK r \in Places' : h[r] = q
      BY <2>2 DEF Moved
    <3>2. Tells(r, f)' /\ r # p
      BY <2>2, <3>1 DEF Moved
    <3>3. r < p
      BY <3>2
    <3>4. h[r] < h[p]
      BY <3>2, <3>3 DEF Moved
    <3>. QED
      BY <2>1, <2>2, <3>1, <3>4
  <2>. QED
    BY <2>1, <2>2 DEF FollowInv, LastTells, Moved
<1>3. CreatedAfresh'
  <2>. SUFFICES ASSUME NEW f \in Files, NEW p \in Places', Made(p, f)'
                PROVE  /\ \A q \in Places' :
                            (q < p /\ Tells(q, f)' /\ \A r \in Places' : (q < r /\ r < p) => ~Tells(r, f)')
                                => Gone(q, f)'
                       /\ (\A q \in Places' : q < p => ~Tells(q, f)') => jobs[W!InDir(f)] = "absent"
    BY DEF CreatedAfresh, Others
  <2>1. h[p] \in Places /\ Made(h[p], f) /\ Tells(h[p], f) /\ Tells(p, f)'
    BY TellsOnce DEF Moved
  <2>2. ASSUME NEW q \in Places, q < h[p], Tells(q, f)
        PROVE  \E r \in Places' : h[r] = q /\ r < p /\ Tells(r, f)'
    <3>1. PICK r \in Places' : h[r] = q
      BY <2>2 DEF Moved
    <3>2. Tells(r, f)' /\ r # p
      BY <2>2, <3>1 DEF Moved
    <3>3. ~(p < r)
      BY <2>1, <2>2, <3>1, <3>2 DEF Moved
    <3>. QED
      BY <3>1, <3>2, <3>3
  <2>3. ASSUME NEW q \in Places', q < p, Tells(q, f)',
               \A r \in Places' : (q < r /\ r < p) => ~Tells(r, f)'
        PROVE  Gone(q, f)'
    <3>1. h[q] \in Places /\ h[q] < h[p] /\ Tells(h[q], f)
      BY <2>1, <2>3 DEF Moved
    <3>2. ASSUME NEW r \in Places, h[q] < r, r < h[p], Tells(r, f) PROVE FALSE
      <4>1. PICK s \in Places' : h[s] = r /\ s < p /\ Tells(s, f)'
        BY <2>2, <3>2
      <4>2. s # q /\ ~(s < q)
        BY <2>3, <3>1, <3>2, <4>1 DEF Moved
      <4>. QED
        BY <2>3, <4>1, <4>2
    <3>3. Gone(h[q], f)
      BY <2>1, <3>1, <3>2 DEF FollowInv, CreatedAfresh
    <3>. QED
      BY <3>3 DEF Moved
  <2>4. ASSUME \A q \in Places' : q < p => ~Tells(q, f)'
        PROVE  jobs[W!InDir(f)] = "absent"
    <3>1. \A q \in Places : q < h[p] => ~Tells(q, f)
      BY <2>2, <2>4
    <3>. QED
      BY <2>1, <3>1 DEF FollowInv, CreatedAfresh
  <2>. QED
    BY <2>3, <2>4
<1>4. ParsedFollows'
  <2>. SUFFICES ASSUME NEW f \in Files, loop' = "add", Tells(0, f)'
                PROVE  /\ ~Gone(0, f)'
                       /\ (\A q \in Places' : q > 0 => ~Tells(q, f)') => parsed' = disk[f]
    BY DEF ParsedFollows, Others
  <2>1. loop = "add" /\ parsed' = parsed /\ h[0] = 0 /\ Tells(0, f)
    BY DEF Moved
  <2>2. ~Gone(0, f)'
    BY <2>1 DEF FollowInv, ParsedFollows, Moved
  <2>3. ASSUME \A q \in Places' : q > 0 => ~Tells(q, f)' PROVE parsed' = disk[f]
    <3>1. ASSUME NEW q \in Places, q > 0, Tells(q, f) PROVE FALSE
      <4>1. PICK r \in Places' : h[r] = q
        BY <3>1 DEF Moved
      <4>2. r > 0 /\ Tells(r, f)'
        BY <2>1, <3>1, <4>1 DEF Moved
      <4>. QED
        BY <2>3, <4>2
    <3>. QED
      BY <2>1, <3>1 DEF FollowInv, ParsedFollows
  <2>. QED
    BY <2>2, <2>3
<1>5. QuietFilesAreFollowed'
  <2>. SUFFICES ASSUME NEW f \in absentAtAdd \cup touched, \A p \in Places' : ~Tells(p, f)'
                PROVE  jobs[W!InDir(f)] = Wanted(f)'
    BY DEF QuietFilesAreFollowed, Others
  <2>1. f \in Files
    BY DEF FollowInv, WatcherTyped
  <2>2. jobs[W!InDir(f)] = Wanted(f)
    BY <1>1, <2>1 DEF FollowInv, QuietFilesAreFollowed
  <2>. QED
    BY <2>2 DEF Wanted, Others
<1>6. Accounted'
  BY <1>1 DEF FollowInv, Accounted, Others
<1>. QED
  BY <1>2, <1>3, <1>4, <1>5, <1>6 DEF FollowInv

\* The loop is done with its event; the job of the file is what it should be.
LEMMA ConsumedFollow ==
    ASSUME FollowInv, WatcherTyped', event' = <<>>, UNCHANGED <<sending, notified, disk, added,
                                                            absentAtAdd, touched, watch>>,
           loop' # "add",
           \A f \in Files : ~Tells(0, f) => jobs'[W!InDir(f)] = jobs[W!InDir(f)],
           \A f \in Files : Gone(0, f) => jobs'[W!InDir(f)] = "absent",
           \A f \in Files : (Tells(0, f) /\ \A q \in Places : q > 0 => ~Tells(q, f))
                                => jobs'[W!InDir(f)] = Wanted(f)
    PROVE  FollowInv'
<1>. /\ Places' = Places /\ 0 \in Places /\ \A p \in Places : p \in Nat
  <2>1. Places' = Places
    BY DEF Places
  <2>. QED
    BY <2>1, PlacesAre DEF FollowInv
<1>1. \A p \in Places, f \in Files : /\ Tells(p, f)' <=> (p > 0 /\ Tells(p, f))
                                     /\ Gone(p, f)' <=> (p > 0 /\ Gone(p, f))
                                     /\ Made(p, f)' <=> (p > 0 /\ Made(p, f))
  <2>. SUFFICES ASSUME NEW p \in Places, NEW f \in Files
                PROVE  /\ Tells(p, f)' <=> (p > 0 /\ Tells(p, f))
                       /\ Gone(p, f)' <=> (p > 0 /\ Gone(p, f))
                       /\ Made(p, f)' <=> (p > 0 /\ Made(p, f))
    OBVIOUS
  <2>1. p > 0 => At(p)' = At(p)
    BY DEF At
  <2>2. p = 0 => At(p)' = <<>>
    BY DEF At
  <2>. QED
    BY <2>1, <2>2 DEF Tells, Gone, Made
<1>2. LastTells'
  <2>. SUFFICES ASSUME NEW f \in Files, NEW p \in Places,
                       Tells(p, f)', \A q \in Places : q > p => ~Tells(q, f)'
                PROVE  disk[f] = "absent" <=> Gone(p, f)'
    BY DEF LastTells
  <2>1. p > 0 /\ Tells(p, f) /\ \A q \in Places : q > p => ~Tells(q, f)
    BY <1>1
  <2>. QED
    BY <1>1, <2>1 DEF FollowInv, LastTells
<1>3. CreatedAfresh'
  <2>. SUFFICES ASSUME NEW f \in Files, NEW p \in Places, Made(p, f)'
                PROVE  /\ \A q \in Places :
                            (q < p /\ Tells(q, f)' /\ \A r \in Places : (q < r /\ r < p) => ~Tells(r, f)')
                                => Gone(q, f)'
                       /\ (\A q \in Places : q < p => ~Tells(q, f)') => jobs'[W!InDir(f)] = "absent"
    BY DEF CreatedAfresh
  <2>1. p > 0 /\ Made(p, f)
    BY <1>1
  <2>2. ASSUME NEW q \in Places, q < p, Tells(q, f)',
               \A r \in Places : (q < r /\ r < p) => ~Tells(r, f)'
        PROVE  Gone(q, f)'
    <3>1. q > 0 /\ Tells(q, f) /\ \A r \in Places : (q < r /\ r < p) => ~Tells(r, f)
      BY <1>1, <2>2
    <3>2. Gone(q, f)
      BY <2>1, <2>2, <3>1 DEF FollowInv, CreatedAfresh
    <3>. QED
      BY <1>1, <3>1, <3>2
  <2>3. ASSUME \A q \in Places : q < p => ~Tells(q, f)' PROVE jobs'[W!InDir(f)] = "absent"
    <3>1. \A q \in Places : (0 < q /\ q < p) => ~Tells(q, f)
      BY <1>1, <2>3
    <3>2. CASE Tells(0, f)
      BY <2>1, <3>1, <3>2 DEF FollowInv, CreatedAfresh
    <3>3. CASE ~Tells(0, f)
      <4>1. \A q \in Places : q < p => ~Tells(q, f)
        BY <3>1, <3>3
      <4>2. jobs[W!InDir(f)] = "absent"
        BY <2>1, <4>1 DEF FollowInv, CreatedAfresh
      <4>. QED
        BY <3>3, <4>2
    <3>. QED
      BY <3>2, <3>3
  <2>. QED
    BY <2>2, <2>3
<1>4. ParsedFollows'
  BY DEF ParsedFollows
<1>5. QuietFilesAreFollowed'
  <2>. SUFFICES ASSUME NEW f \in absentAtAdd \cup touched, \A p \in Places : ~Tells(p, f)'
                PROVE  jobs'[W!InDir(f)] = Wanted(f)
    BY DEF QuietFilesAreFollowed, Wanted
  <2>1. f \in Files
    BY DEF FollowInv, WatcherTyped
  <2>2. \A q \in Places : q > 0 => ~Tells(q, f)
    BY <1>1, <2>1
  <2>3. CASE Tells(0, f)
    BY <2>1, <2>2, <2>3
  <2>4. CASE ~Tells(0, f)
    <3>1. \A q \in Places : ~Tells(q, f)
      BY <2>2, <2>4
    <3>. QED
      BY <2>1, <2>4, <3>1 DEF FollowInv, QuietFilesAreFollowed
  <2>. QED
    BY <2>3, <2>4
<1>6. Accounted'
  BY <1>1 DEF FollowInv, Accounted
<1>. QED
  BY <1>2, <1>3, <1>4, <1>5, <1>6 DEF FollowInv

\* The loop has parsed the file its event is about, and removed the job if it is not new.
LEMMA ParsesFollow ==
    ASSUME FollowInv, WatcherTyped', UNCHANGED <<sending, notified, disk, added, absentAtAdd, touched,
                                                 watch, event>>,
           \A f \in Files : Tells(0, f) => ~Gone(0, f) /\ parsed' = disk[f],
           \A f \in Files : (~Tells(0, f) \/ Made(0, f)) => jobs'[W!InDir(f)] = jobs[W!InDir(f)]
    PROVE  FollowInv'
<1>. /\ Places' = Places /\ 0 \in Places /\ \A p \in Places : p \in Nat
  <2>1. Places' = Places
    BY DEF Places
  <2>. QED
    BY <2>1, PlacesAre DEF FollowInv
<1>1. \A p, f : /\ Tells(p, f)' <=> Tells(p, f)
                /\ Gone(p, f)' <=> Gone(p, f)
                /\ Made(p, f)' <=> Made(p, f)
  BY DEF Tells, Gone, Made, At
<1>2. LastTells'
  BY <1>1 DEF FollowInv, LastTells
<1>3. CreatedAfresh'
  <2>. SUFFICES ASSUME NEW f \in Files, NEW p \in Places, Made(p, f),
                       \A q \in Places : q < p => ~Tells(q, f)
                PROVE  jobs'[W!InDir(f)] = jobs[W!InDir(f)]
    BY <1>1 DEF FollowInv, CreatedAfresh
  <2>. QED
    BY TellsOnce
<1>4. ParsedFollows'
  BY <1>1 DEF ParsedFollows
<1>5. QuietFilesAreFollowed'
  <2>. SUFFICES ASSUME NEW f \in absentAtAdd \cup touched, \A p \in Places : ~Tells(p, f)
                PROVE  jobs'[W!InDir(f)] = jobs[W!InDir(f)]
    BY <1>1 DEF FollowInv, QuietFilesAreFollowed, Wanted
  <2>. QED
    BY DEF FollowInv, WatcherTyped
<1>6. Accounted'
  BY <1>1 DEF FollowInv, Accounted
<1>. QED
  BY <1>2, <1>3, <1>4, <1>5, <1>6 DEF FollowInv

\* A file changes while its directory is watched: one more event is on its way.
LEMMA ChangeFollows ==
    ASSUME FollowInv, WatcherTyped', NEW f \in Files, NEW op \in Ops, NEW content,
           added, notified' = Append(notified, <<op, W!InDir(f)>>),
           disk' = [disk EXCEPT ![f] = content], touched' = touched \cup {f},
           UNCHANGED <<added, watch, sending, loop, event, parsed, jobs, absentAtAdd>>,
           content = "absent" <=> op \in {"remove", "rename"},
           op = "create" => disk[f] = "absent"
    PROVE  FollowInv'
<1>0. PICK last \in Nat : last = Len(notified) + 2
  BY DEF FollowInv, WatcherTyped
<1>1. /\ 0 \in Places /\ \A p \in Places : p \in Nat /\ p < last
      /\ last \notin Places
      /\ Places' = Places \cup {last}
      /\ \A p \in Places : At(p)' = At(p)
      /\ At(last)' = <<op, W!InDir(f)>>
  <2>1. Len(notified) \in Nat /\ notified \in Seq(Event) /\ <<op, W!InDir(f)>> \in Event
    BY DEF FollowInv, WatcherTyped, Event, W!InDir, W!JobNames
  <2>2. /\ Len(notified') = Len(notified) + 1
        /\ \A i \in 1 .. Len(notified) : notified'[i] = notified[i]
        /\ notified'[Len(notified) + 1] = <<op, W!InDir(f)>>
    BY <2>1
  <2>3. Places' = Places \cup {last} /\ 0 \in Places /\ last \notin Places
    BY <1>0, <2>1, <2>2 DEF Places
  <2>4. \A p \in Places : p \in Nat /\ p < last /\ At(p)' = At(p)
    BY <1>0, <2>1, <2>2 DEF Places, At
  <2>5. At(last)' = <<op, W!InDir(f)>>
    BY <1>0, <2>1, <2>2 DEF At
  <2>. QED
    BY <2>3, <2>4, <2>5
<1>2. \A p \in Places, g \in Files : /\ Tells(p, g)' <=> Tells(p, g)
                                     /\ Gone(p, g)' <=> Gone(p, g)
                                     /\ Made(p, g)' <=> Made(p, g)
  BY <1>1 DEF Tells, Gone, Made
<1>3. \A g \in Files : /\ Tells(last, g)' <=> g = f
                       /\ Gone(last, g)' <=> (g = f /\ op \in {"remove", "rename"})
                       /\ Made(last, g)' <=> (g = f /\ op = "create")
  BY <1>1 DEF Tells, Gone, Made, Ops, W!InDir
<1>4. /\ disk'[f] = content
      /\ \A g \in Files \ {f} : disk'[g] = disk[g]
  BY DEF FollowInv, WatcherTyped
<1>5. LastTells'
  <2>. SUFFICES ASSUME NEW g \in Files, NEW p \in Places', Tells(p, g)',
                       \A q \in Places' : q > p => ~Tells(q, g)'
                PROVE  disk'[g] = "absent" <=> Gone(p, g)'
    BY DEF LastTells
  <2>1. CASE p = last
    BY <1>3, <1>4, <2>1
  <2>2. CASE p # last
    <3>1. p \in Places /\ g # f
      BY <1>1, <1>3, <2>2
    <3>2. Tells(p, g) /\ \A q \in Places : q > p => ~Tells(q, g)
      BY <1>1, <1>2, <3>1
    <3>3. disk[g] = "absent" <=> Gone(p, g)
      BY <3>1, <3>2 DEF FollowInv, LastTells
    <3>. QED
      BY <1>2, <1>4, <3>1, <3>3
  <2>. QED
    BY <2>1, <2>2
<1>6. CreatedAfresh'
  <2>. SUFFICES ASSUME NEW g \in Files, NEW p \in Places', Made(p, g)'
                PROVE  /\ \A q \in Places' :
                            (q < p /\ Tells(q, g)' /\ \A r \in Places' : (q < r /\ r < p) => ~Tells(r, g)')
                                => Gone(q, g)'
                       /\ (\A q \in Places' : q < p => ~Tells(q, g)') => jobs[W!InDir(g)] = "absent"
    BY DEF CreatedAfresh
  <2>1. \A q \in Places' : q < p => q \in Places
    BY <1>1
  <2>2. CASE p \in Places
    <3>1. Made(p, g)
      BY <1>2, <2>2
    <3>2. ASSUME NEW q \in Places', q < p, Tells(q, g)',
                 \A r \in Places' : (q < r /\ r < p) => ~Tells(r, g)'
          PROVE  Gone(q, g)'
      <4>1. q \in Places /\ Tells(q, g) /\ \A r \in Places : (q < r /\ r < p) => ~Tells(r, g)
        BY <1>1, <1>2, <2>1, <3>2
      <4>2. Gone(q, g)
        BY <2>2, <3>1, <3>2, <4>1 DEF FollowInv, CreatedAfresh
      <4>. QED
        BY <1>2, <4>1, <4>2
    <3>3. ASSUME \A q \in Places' : q < p => ~Tells(q, g)' PROVE jobs[W!InDir(g)] = "absent"
      <4>1. \A q \in Places : q < p => ~Tells(q, g)
        BY <1>1, <1>2, <3>3
      <4>. QED
        BY <2>2, <3>1, <4>1 DEF FollowInv, CreatedAfresh
    <3>. QED
      BY <3>2, <3>3
  <2>3. CASE p = last
    <3>1. g = f /\ disk[f] = "absent"
      BY <1>3, <2>3
    <3>2. ASSUME NEW q \in Places', q < p, Tells(q, g)',
                 \A r \in Places' : (q < r /\ r < p) => ~Tells(r, g)'
          PROVE  Gone(q, g)'
      <4>1. q \in Places /\ Tells(q, g) /\ \A r \in Places : r > q => ~Tells(r, g)
        BY <1>1, <1>2, <2>1, <2>3, <3>2
      <4>2. Gone(q, g)
        BY <3>1, <4>1 DEF FollowInv, LastTells
      <4>. QED
        BY <1>2, <4>1, <4>2
    <3>3. ASSUME \A q \in Places' : q < p => ~Tells(q, g)' PROVE jobs[W!InDir(g)] = "absent"
      <4>1. \A q \in Places : ~Tells(q, g)
        BY <1>1, <1>2, <2>3, <3>3
      <4>2. g \in absentAtAdd \cup touched
        BY <3>1 DEF FollowInv, Accounted
      <4>3. jobs[W!InDir(g)] = Wanted(g)
        BY <4>1, <4>2 DEF FollowInv, QuietFilesAreFollowed
      <4>. QED
        BY <3>1, <4>3 DEF Wanted
    <3>. QED
      BY <3>2, <3>3
  <2>. QED
    BY <1>1, <2>2, <2>3
<1>7. ParsedFollows'
  <2>. SUFFICES ASSUME NEW g \in Files, loop = "add", Tells(0, g)'
                PROVE  /\ ~Gone(0, g)'
                       /\ (\A q \in Places' : q > 0 => ~Tells(q, g)') => parsed = disk'[g]
    BY DEF ParsedFollows
  <2>1. Tells(0, g) /\ ~Gone(0, g)'
    BY <1>1, <1>2 DEF FollowInv, ParsedFollows
  <2>2. ASSUME \A q \in Places' : q > 0 => ~Tells(q, g)' PROVE parsed = disk'[g]
    <3>1. g # f /\ \A q \in Places : q > 0 => ~Tells(q, g)
      BY <1>1, <1>2, <1>3, <2>2
    <3>. QED
      BY <1>4, <2>1, <3>1 DEF FollowInv, ParsedFollows
  <2>. QED
    BY <2>1, <2>2
<1>8. QuietFilesAreFollowed'
  <2>. SUFFICES ASSUME NEW g \in absentAtAdd \cup touched \cup {f}, \A p \in Places' : ~Tells(p, g)'
                PROVE  jobs[W!InDir(g)] = Wanted(g)'
    BY DEF QuietFilesAreFollowed
  <2>1. g \in Files
    BY DEF FollowInv, WatcherTyped
  <2>2. g # f /\ \A p \in Places : ~Tells(p, g)
    BY <1>1, <1>2, <1>3, <2>1
  <2>. QED
    BY <1>4, <2>1, <2>2 DEF FollowInv, QuietFilesAreFollowed, Wanted
<1>9. Accounted'
  BY <1>4 DEF FollowInv, Accounted
<1>. QED
  BY <1>5, <1>6, <1>7, <1>8, <1>9 DEF FollowInv

\* The directory is added: the files that do not exist have no job.
LEMMA AddDirFollows ==
    ASSUME FollowInv, WatcherTyped', ~added, added', watch' \notin {"read", "add"},
           absentAtAdd' = {f \in Files : disk[f] = "absent"},
           UNCHANGED <<disk, notified, sending, loop, event, parsed, jobs, touched>>
    PROVE  FollowInv'
<1>1. \A p, f : /\ Tells(p, f)' <=> Tells(p, f)
                /\ Gone(p, f)' <=> Gone(p, f)
                /\ Made(p, f)' <=> Made(p, f)
  BY DEF Tells, Gone, Made, At
<1>2. Places' = Places
  BY DEF Places
<1>3. LastTells' /\ CreatedAfresh' /\ ParsedFollows'
  BY <1>1, <1>2 DEF FollowInv, LastTells, CreatedAfresh, ParsedFollows
<1>4. QuietFilesAreFollowed' /\ Accounted'
  BY <1>1, <1>2 DEF FollowInv, Accounted, QuietFilesAreFollowed, Wanted
<1>. QED
  BY <1>3, <1>4 DEF FollowInv

-----------------------------------------------------------------------------
(* The listener.                                                           *)

Held == OnlyOfferIsHeld /\ acceptor \in {"accepting", "sending", "ended"}
        /\ server \in {"select", "ended"} /\ offer \in Conns \cup {NoConn}
        /\ (offer # NoConn => acceptor = "sending" /\ conn[offer] = "held")
        /\ conn \in [Conns -> {"none", "queued", "held", "starting", "serving", "closed"}]
        /\ client \in [Conns -> L!Ends] /\ endpoint \in [Conns -> L!Ends]

\* A connection that accept does not hold goes on.
LEMMA ConnGoesOn ==
    ASSUME Held, NEW c \in Conns, conn[c] # "held",
           NEW to \in {"none", "queued", "starting", "serving", "closed"},
           conn' = [conn EXCEPT ![c] = to], UNCHANGED <<acceptor, offer, server>>,
           client' \in [Conns -> L!Ends], endpoint' \in [Conns -> L!Ends]
    PROVE  Held'
BY DEF Held, OnlyOfferIsHeld

LEMMA ConnWaits ==
    ASSUME Held, UNCHANGED <<conn, acceptor, offer, server>>,
           client' \in [Conns -> L!Ends], endpoint' \in [Conns -> L!Ends]
    PROVE  Held'
BY DEF Held, OnlyOfferIsHeld

LEMMA ListenerStep == Held /\ L!ListenerNext => Held'
<1>. SUFFICES ASSUME Held, L!ListenerNext PROVE Held'
  OBVIOUS
<1>. client \in [Conns -> L!Ends] /\ endpoint \in [Conns -> L!Ends] /\ NoConn \notin Conns
  BY NoConnAssumption DEF Held
<1>1. CASE L!AcceptFails
  BY <1>1 DEF Held, OnlyOfferIsHeld, L!AcceptFails
<1>2. ASSUME NEW c \in Conns, L!AcceptConn(c) PROVE Held'
  BY <1>2 DEF Held, OnlyOfferIsHeld, L!AcceptConn
<1>3. CASE L!Receive
  <2>1. CASE offer # NoConn
    BY <1>3, <2>1 DEF Held, OnlyOfferIsHeld, L!Receive
  <2>2. CASE offer = NoConn
    BY <1>3, <2>2 DEF Held, OnlyOfferIsHeld, L!Receive
  <2>. QED
    BY <2>1, <2>2
<1>4. CASE L!ServerDone
  BY <1>4 DEF Held, OnlyOfferIsHeld, L!ServerDone
<1>5. CASE L!CloseListener \/ L!ListenerFails
  <2>1. /\ conn' = [c \in Conns |-> IF conn[c] = "queued" THEN "closed" ELSE conn[c]]
        /\ UNCHANGED <<acceptor, offer, server, client, endpoint>>
    BY <1>5 DEF L!CloseListener, L!ListenerFails
  <2>. QED
    BY <2>1 DEF Held, OnlyOfferIsHeld
<1>6. ASSUME NEW c \in Conns, L!ConnProceeds(c) PROVE Held'
  <2>1. /\ UNCHANGED <<acceptor, offer, server, client>> /\ conn[c] # "held"
        /\ \E to \in {"serving", "closed"} : conn' = [conn EXCEPT ![c] = to]
    BY <1>6 DEF L!ConnProceeds, L!Dial, L!CopyEnds, L!HandshakeFails, L!ConnectionEnds, L!CloseConn
  <2>2. endpoint' \in [Conns -> L!Ends]
    BY <1>6 DEF L!ConnProceeds, L!Dial, L!CopyEnds, L!HandshakeFails, L!ConnectionEnds, L!Ends
  <2>. QED
    BY <2>1, <2>2, ConnGoesOn
<1>7. ASSUME NEW c \in Conns, L!Peers(c) PROVE Held'
  <2>1. CASE L!Connect(c)
    <3>1. /\ conn[c] = "none" /\ conn' = [conn EXCEPT ![c] = "queued"]
          /\ client' = [client EXCEPT ![c] = "open"]
          /\ UNCHANGED <<acceptor, offer, server, endpoint>>
      BY <2>1 DEF L!Connect
    <3>2. client' \in [Conns -> L!Ends]
      BY <3>1 DEF L!Ends
    <3>. QED
      BY <3>1, <3>2, ConnGoesOn
  <2>2. CASE L!ClientCloses(c) \/ L!EndpointCloses(c)
    <3>1. /\ client' \in {client, [client EXCEPT ![c] = "closed"]}
          /\ endpoint' \in {endpoint, [endpoint EXCEPT ![c] = "closed"]}
          /\ UNCHANGED <<conn, acceptor, offer, server>>
      BY <2>2 DEF L!ClientCloses, L!EndpointCloses
    <3>2. client' \in [Conns -> L!Ends] /\ endpoint' \in [Conns -> L!Ends]
      BY <3>1 DEF L!Ends
    <3>. QED
      BY <3>1, <3>2, ConnWaits
  <2>3. CASE L!CopyFails(c) \/ L!Handshake(c)
    <3>1. /\ UNCHANGED <<acceptor, offer, server, client, endpoint>> /\ conn[c] # "held"
          /\ \E to \in {"serving", "closed"} : conn' = [conn EXCEPT ![c] = to]
      BY <2>3 DEF L!CopyFails, L!Handshake, L!CloseConn
    <3>. QED
      BY <3>1, ConnGoesOn
  <2>4. CASE L!OpenSession(c) \/ L!ExecRequest(c) \/ L!SessionEnds(c)
    BY <2>4, ConnWaits DEF L!OpenSession, L!ExecRequest, L!SessionEnds
  <2>. QED
    BY <1>7, <2>1, <2>2, <2>3, <2>4 DEF L!Peers
<1>. QED
  BY <1>1, <1>2, <1>3, <1>4, <1>5, <1>6, <1>7 DEF L!ListenerNext, L!Acceptor, L!Server

-----------------------------------------------------------------------------
(* The watcher.                                                            *)

LoopTyped ==
    /\ jobs \in [W!JobNames -> W!Contents \ {"partial"}]
    /\ loop \in {"select", "parse", "add", "ended"} /\ (event = <<>> <=> loop \in {"select", "ended"})

LEMMA SeqOfSet == ASSUME NEW S, IsFiniteSet(S) PROVE W!SetToSeq(S) \in Seq(S)
<1>1. Cardinality(S) \in Nat /\ ExistsBijection(1 .. Cardinality(S), S)
  BY FS_CardinalityType
<1>2. PICK f \in Bijection(1 .. Cardinality(S), S) : TRUE
  BY <1>1 DEF ExistsBijection
<1>3. f \in [1 .. Cardinality(S) -> S] /\ W!IsInjective(f)
  BY <1>2 DEF Bijection, Injection, IsInjective, W!IsInjective
<1>4. W!SetToSeq(S) = CHOOSE g \in [1 .. Cardinality(S) -> S] : W!IsInjective(g)
  BY Zenon DEF W!SetToSeq, W!IsInjective, W!Cardinality, Cardinality
<1>. HIDE DEF W!SetToSeq
<1>5. W!SetToSeq(S) \in [1 .. Cardinality(S) -> S]
  BY <1>3, <1>4, Zenon
<1>. QED
  BY <1>1, <1>5

Typed == WatcherTyped /\ LoopTyped

LEMMA NamesAreEvents ==
    \A f \in Files, op \in Ops : <<op, W!InDir(f)>> \in Event /\ <<op, W!Bare(f)>> \in Event
BY DEF Event, W!JobNames

\* An event has the name of a file.
LEMMA EventNames ==
    ASSUME NEW e \in Event
    PROVE  /\ e # <<>> /\ e[1] \in Ops /\ e[2] \in W!JobNames /\ W!FileOf(e[2]) \in Files
           /\ e = <<e[1], e[2]>>
<1>1. e = <<e[1], e[2]>> /\ e[1] \in Ops /\ e[2] \in W!JobNames
  BY DEF Event
<1>2. PICK f \in Files : e[2] = W!Bare(f) \/ e[2] = W!InDir(f)
  BY <1>1 DEF W!JobNames
<1>3. W!FileOf(e[2]) = f
  <2>1. W!FileOf(W!Bare(f)) = f /\ W!FileOf(W!InDir(f)) = f
    BY DEF W!FileOf, W!Bare, W!InDir
  <2>. QED
    BY <1>2, <2>1
<1>4. e # <<>>
  <2>1. \A a, b : <<a, b>> # <<>>
    OBVIOUS
  <2>. QED
    BY <1>1, <2>1
<1>. QED
  BY <1>1, <1>3, <1>4

LEMMA ChangeTyped ==
    ASSUME Typed, NEW f \in Files, NEW op \in Ops, NEW content \in W!Contents, W!Change(f, op, content)
    PROVE  Typed'
<1>1. disk' \in [Files -> W!Contents] /\ touched' \subseteq Files
  BY DEF Typed, WatcherTyped, W!Change
<1>2. notified' \in Seq(Event)
  <2>1. <<op, W!InDir(f)>> \in Event /\ notified \in Seq(Event)
    BY NamesAreEvents DEF Typed, WatcherTyped
  <2>2. notified' = IF added THEN Append(notified, <<op, W!InDir(f)>>) ELSE notified
    BY DEF W!Change
  <2>. QED
    BY <2>1, <2>2
<1>. QED
  BY <1>1, <1>2 DEF Typed, WatcherTyped, LoopTyped, W!Change

LEMMA DirectoryChanges ==
    ASSUME NEW f \in Files, W!Create(f) \/ W!MoveHere(f) \/ W!Write(f) \/ W!Delete(f)
    PROVE  \E op \in Ops, content \in W!Contents :
              /\ W!Change(f, op, content)
              /\ content = "absent" <=> op \in {"remove", "rename"}
              /\ op = "create" => disk[f] = "absent"
<1>1. CASE W!Create(f)
  BY <1>1 DEF W!Create, Ops, W!Contents
<1>2. CASE W!MoveHere(f)
  BY <1>2 DEF W!MoveHere, Ops, W!Contents
<1>3. CASE W!Write(f)
  BY <1>3 DEF W!Write, Ops, W!Contents
<1>4. CASE W!Delete(f)
  BY <1>4 DEF W!Delete, Ops, W!Contents
<1>. QED
  BY <1>1, <1>2, <1>3, <1>4

LEMMA WatchTyped == Typed /\ (W!Watch \/ W!ReadDirFails) => Typed'
<1>. SUFFICES ASSUME Typed, W!Watch \/ W!ReadDirFails PROVE Typed'
  OBVIOUS
<1>1. CASE W!ReadDir
  <2>1. IsFiniteSet({f \in Files : disk[f] # "absent"})
    BY WatcherAssumption, FS_Subset
  <2>2. names' \in Seq({f \in Files : disk[f] # "absent"})
    BY <1>1, <2>1, SeqOfSet DEF W!ReadDir
  <2>3. names' \in Seq(Files)
    BY <2>2
  <2>. QED
    BY <1>1, <2>3 DEF Typed, WatcherTyped, LoopTyped, W!ReadDir
<1>2. CASE W!AddDir
  BY <1>2 DEF Typed, WatcherTyped, LoopTyped, W!AddDir
<1>3. CASE W!Scan
  <2>1. CASE names = <<>>
    BY <1>3, <2>1 DEF Typed, WatcherTyped, LoopTyped, W!Scan
  <2>2. CASE names # <<>>
    <3>1. Head(names) \in Files /\ Tail(names) \in Seq(Files)
      BY <2>2 DEF Typed, WatcherTyped
    <3>2. sending' = <<"create", W!Bare(Head(names))>> /\ names' = Tail(names)
      BY <1>3, <2>2 DEF W!Scan
    <3>3. sending' \in Event /\ names' \in Seq(Files)
      BY <3>1, <3>2, NamesAreEvents DEF Ops
    <3>. QED
      BY <1>3, <3>3 DEF Typed, WatcherTyped, LoopTyped, W!Scan
  <2>. QED
    BY <2>1, <2>2
<1>4. CASE W!TakeNotified
  <2>1. sending' \in Event /\ notified' \in Seq(Event)
    BY <1>4 DEF Typed, WatcherTyped, W!TakeNotified
  <2>. QED
    BY <1>4, <2>1 DEF Typed, WatcherTyped, LoopTyped, W!TakeNotified
<1>5. CASE W!WatchDone
  BY <1>5 DEF Typed, WatcherTyped, LoopTyped, W!WatchDone
<1>6. CASE W!ReadDirFails
  BY <1>6 DEF Typed, WatcherTyped, LoopTyped, W!ReadDirFails
<1>. QED
  BY <1>1, <1>2, <1>3, <1>4, <1>5, <1>6 DEF W!Watch

LEMMA LoopKeepsTypes == Typed /\ W!Loop => Typed'
<1>. SUFFICES ASSUME Typed, W!Loop PROVE Typed'
  OBVIOUS
<1>1. CASE W!Receive
  <2>1. sending \in Event /\ event' = sending /\ sending' = <<>> /\ loop' = "parse"
    BY <1>1 DEF Typed, WatcherTyped, W!Receive
  <2>2. event' # <<>>
    BY <2>1, EventNames
  <2>. QED
    BY <1>1, <2>1, <2>2 DEF Typed, WatcherTyped, LoopTyped, W!Receive
<1>2. CASE W!Handle
  <2>1. event \in Event /\ event # <<>>
    BY <1>2 DEF Typed, WatcherTyped, LoopTyped, W!Handle
  <2>2. jobs' \in [W!JobNames -> W!Contents \ {"partial"}]
    BY <1>2 DEF Typed, LoopTyped, W!Handle, W!Contents
  <2>3. \/ /\ loop' = "add" /\ parsed' = disk[W!FileOf(event[2])] /\ event' = event
           /\ parsed' \notin {"absent", "partial"}
        \/ loop' = "select" /\ event' = <<>> /\ parsed' = parsed
    BY <1>2 DEF W!Handle, W!CanOpen
  <2>4. parsed' \in W!Contents /\ (loop' = "add" => parsed' \in {"old", "new"})
    BY <2>1, <2>3, EventNames DEF Typed, WatcherTyped, W!Contents
  <2>5. UNCHANGED <<disk, added, names, notified, sending, absentAtAdd, touched>>
    BY <1>2 DEF W!Handle
  <2>. QED
    BY <2>1, <2>2, <2>3, <2>4, <2>5 DEF Typed, WatcherTyped, LoopTyped
<1>3. CASE W!Add
  <2>1. jobs' \in [W!JobNames -> W!Contents \ {"partial"}]
    BY <1>3 DEF Typed, LoopTyped, WatcherTyped, W!Add, W!Contents
  <2>. QED
    BY <1>3, <2>1 DEF Typed, WatcherTyped, LoopTyped, W!Add
<1>4. CASE W!LoopDone
  BY <1>4 DEF Typed, WatcherTyped, LoopTyped, W!LoopDone
<1>. QED
  BY <1>1, <1>2, <1>3, <1>4 DEF W!Loop

LEMMA WatcherKeepsTypes == Typed /\ W!WatcherNext => Typed'
BY ChangeTyped, DirectoryChanges, WatchTyped, LoopKeepsTypes DEF W!WatcherNext, W!Directory

\* An event that names no file in the directory tells nothing.
Silent(e) == e = <<>> \/ \E f \in Files : e = <<"create", W!Bare(f)>>

LEMMA SilentNamesNothing == ASSUME NEW e, Silent(e), NEW f, NEW op PROVE e # <<op, W!InDir(f)>>
<1>1. \A a, b : <<a, b>> # <<>>
  OBVIOUS
<1>2. \A g : W!Bare(g) # W!InDir(f)
  BY DEF W!Bare, W!InDir
<1>3. \A a, b, c, d : <<a, b>> = <<c, d>> => b = d
  OBVIOUS
<1>. QED
  BY <1>1, <1>2, <1>3, Zenon DEF Silent

LEMMA SilentTellsNothing ==
    ASSUME NEW p, NEW f
    PROVE  /\ Silent(At(p)) => ~Tells(p, f) /\ ~Gone(p, f) /\ ~Made(p, f)
           /\ Silent(At(p))' => ~Tells(p, f)' /\ ~Gone(p, f)' /\ ~Made(p, f)'
<1>1. ASSUME NEW e, Silent(e) PROVE \A op : e # <<op, W!InDir(f)>>
  BY <1>1, SilentNamesNothing
<1>2. Silent(At(p)) => ~Tells(p, f) /\ ~Gone(p, f) /\ ~Made(p, f)
  BY <1>1 DEF Tells, Gone, Made
<1>3. Silent(At(p))' => ~Tells(p, f)' /\ ~Gone(p, f)' /\ ~Made(p, f)'
  <2>1. Silent(At(p))' => \A op : At(p)' # <<op, W!InDir(f)>>
    BY <1>1 DEF Silent
  <2>. QED
    BY <2>1 DEF Tells, Gone, Made
<1>. QED
  BY <1>2, <1>3

\* What has to be shown of a move.
LEMMA MovedBy ==
    ASSUME NEW h,
           \A p \in Places' : /\ h[p] \in Places
                              /\ At(p)' = At(h[p]) \/ (Silent(At(p))' /\ Silent(At(h[p]))),
           \A q \in Places : Silent(At(q)) \/ \E p \in Places' : h[p] = q,
           \A p, q \in Places' : p < q => (h[p] < h[q] \/ Silent(At(p))' \/ Silent(At(q))')
    PROVE  Moved(h)
<1>1. ASSUME NEW f \in Files, NEW p \in Places'
      PROVE  /\ Tells(p, f)' <=> Tells(h[p], f)
             /\ Gone(p, f)' <=> Gone(h[p], f)
             /\ Made(p, f)' <=> Made(h[p], f)
  <2>1. CASE At(p)' = At(h[p])
    BY <2>1 DEF Tells, Gone, Made
  <2>2. CASE Silent(At(p))' /\ Silent(At(h[p]))
    BY <2>2, SilentTellsNothing
  <2>. QED
    BY <2>1, <2>2
<1>2. ASSUME NEW f \in Files, NEW q \in Places, Tells(q, f) PROVE \E p \in Places' : h[p] = q
  BY <1>2, SilentTellsNothing
<1>3. ASSUME NEW f \in Files, NEW p \in Places', NEW q \in Places',
             p < q, Tells(p, f)', Tells(q, f)'
      PROVE  h[p] < h[q]
  BY <1>3, SilentTellsNothing
<1>. QED
  BY <1>1, <1>2, <1>3 DEF Moved

\* Watch and the loop change no event, or watch sends one of the scan.
LEMMA StayFollows ==
    ASSUME FollowInv, WatcherTyped', UNCHANGED Others, UNCHANGED <<event, notified>>,
           UNCHANGED sending \/ (Silent(sending) /\ Silent(sending)'),
           added => watch' \notin {"read", "add"},
           loop' = "add" => UNCHANGED <<loop, parsed>>
    PROVE  FollowInv'
<1>. DEFINE h == [p \in Places' |-> p]
<1>1. Places' = Places /\ 0 \in Places
  <2>1. Places' = Places
    BY DEF Places
  <2>. QED
    BY <2>1, PlacesAre DEF FollowInv
<1>2. \A p \in Places' : h[p] = p
  OBVIOUS
<1>3. \A p \in Places' : At(p)' = At(p) \/ (Silent(At(p))' /\ Silent(At(p)))
  BY DEF At, Silent
<1>. HIDE DEF h
<1>4. Moved(h)
  BY <1>1, <1>2, <1>3, MovedBy
<1>. QED
  BY <1>1, <1>2, <1>4, MovesFollow

\* Watch takes the first event of the kernel.
LEMMA TakeFollows == FollowInv /\ WatcherTyped' /\ W!TakeNotified => FollowInv'
<1>. SUFFICES ASSUME FollowInv, WatcherTyped', W!TakeNotified PROVE FollowInv'
  OBVIOUS
<1>. DEFINE h == [p \in Places' |-> IF p = 0 THEN 0 ELSE p + 1]
<1>1. /\ sending = <<>> /\ notified \in Seq(Event) /\ notified # <<>>
      /\ sending' = Head(notified) /\ notified' = Tail(notified) /\ event' = event
  BY DEF W!TakeNotified, FollowInv, WatcherTyped
<1>2. /\ Len(notified') = Len(notified) - 1 /\ Len(notified) \in Nat \ {0}
      /\ sending' = notified[1]
      /\ \A i \in 1 .. Len(notified') : notified'[i] = notified[i + 1]
  BY <1>1
<1>3. /\ Places = 0 .. Len(notified) + 1 /\ Places' = 0 .. Len(notified)
  BY <1>2 DEF Places
<1>4. \A p \in Places' : h[p] = IF p = 0 THEN 0 ELSE p + 1
  OBVIOUS
<1>. HIDE DEF h
<1>5. \A p \in Places' : h[p] \in Places /\ At(p)' = At(h[p])
  <2>. SUFFICES ASSUME NEW p \in Places' PROVE h[p] \in Places /\ At(p)' = At(h[p])
    OBVIOUS
  <2>1. CASE p = 0
    BY <1>1, <1>2, <1>3, <1>4, <2>1 DEF At
  <2>2. CASE p = 1
    BY <1>1, <1>2, <1>3, <1>4, <2>2 DEF At
  <2>3. CASE p > 1
    <3>1. p - 1 \in 1 .. Len(notified') /\ h[p] = p + 1 /\ h[p] \in Places
      BY <1>2, <1>3, <1>4, <2>3
    <3>2. At(p)' = notified'[p - 1] /\ At(h[p]) = notified[p]
      BY <1>2, <1>3, <2>3, <3>1 DEF At
    <3>3. notified'[p - 1] = notified[p - 1 + 1] /\ p - 1 + 1 = p
      BY <1>2, <1>3, <3>1
    <3>. QED
      BY <3>1, <3>2, <3>3
  <2>. QED
    BY <1>3, <2>1, <2>2, <2>3
<1>6. \A q \in Places : Silent(At(q)) \/ \E p \in Places' : h[p] = q
  <2>. SUFFICES ASSUME NEW q \in Places PROVE Silent(At(q)) \/ \E p \in Places' : h[p] = q
    OBVIOUS
  <2>1. CASE q = 0
    BY <1>2, <1>3, <1>4, <2>1
  <2>2. CASE q = 1
    BY <1>1, <2>2 DEF At, Silent
  <2>3. CASE q > 1
    <3>1. q - 1 \in Places' /\ q - 1 # 0 /\ q - 1 + 1 = q
      BY <1>2, <1>3, <2>3
    <3>. QED
      BY <1>4, <3>1
  <2>. QED
    BY <1>3, <2>1, <2>2, <2>3
<1>7. \A p, q \in Places' : p < q => h[p] < h[q]
  BY <1>2, <1>3, <1>4
<1>8. Moved(h)
  BY <1>5, <1>6, <1>7, MovedBy
<1>9. /\ UNCHANGED Others /\ UNCHANGED <<loop, parsed>> /\ watch' = "select" /\ h[0] = 0
  BY <1>2, <1>3, <1>4 DEF W!TakeNotified, Others
<1>. QED
  BY <1>8, <1>9, MovesFollow

\* The loop receives what watch sends.
LEMMA ReceiveFollows == FollowInv /\ LoopTyped /\ WatcherTyped' /\ W!Receive => FollowInv'
<1>. SUFFICES ASSUME FollowInv, LoopTyped, WatcherTyped', W!Receive PROVE FollowInv'
  OBVIOUS
<1>. DEFINE h == [p \in Places' |-> IF p = 0 THEN 1 ELSE IF p = 1 THEN 0 ELSE p]
<1>1. event = <<>> /\ event' = sending /\ sending' = <<>> /\ notified' = notified /\ Len(notified) \in Nat
  BY DEF W!Receive, LoopTyped, FollowInv, WatcherTyped
<1>2. Places = 0 .. Len(notified) + 1 /\ Places' = Places
  BY <1>1 DEF Places
<1>3. \A p \in Places' : h[p] = IF p = 0 THEN 1 ELSE IF p = 1 THEN 0 ELSE p
  OBVIOUS
<1>. HIDE DEF h
<1>4. \A p \in Places' : h[p] \in Places /\ At(p)' = At(h[p])
  BY <1>1, <1>2, <1>3 DEF At
<1>5. Silent(At(1))'
  BY <1>1 DEF At, Silent
<1>6. \A q \in Places : \E p \in Places' : h[p] = q
  <2>. SUFFICES ASSUME NEW q \in Places PROVE \E p \in Places' : h[p] = q
    OBVIOUS
  <2>1. h[h[q]] = q /\ h[q] \in Places'
    BY <1>1, <1>2, <1>3
  <2>. QED
    BY <2>1
<1>7. \A p, q \in Places' : p < q => (h[p] < h[q] \/ Silent(At(p))' \/ Silent(At(q))')
  <2>. SUFFICES ASSUME NEW p \in Places', NEW q \in Places', p < q, p # 1, q # 1
                PROVE  h[p] < h[q]
    BY <1>5
  <2>. QED
    BY <1>1, <1>2, <1>3
<1>8. Moved(h)
  BY <1>4, <1>6, <1>7, MovedBy
<1>9. /\ UNCHANGED Others /\ loop' = "parse" /\ UNCHANGED watch
  BY DEF W!Receive, Others
<1>10. added => watch' \notin {"read", "add"}
  BY <1>9 DEF FollowInv, Accounted
<1>. QED
  BY <1>8, <1>9, <1>10, MovesFollow

\* The event in the loop, and the file whose job it is about.
LEMMA EventTells ==
    ASSUME event \in Event, NEW f \in Files
    PROVE  /\ Tells(0, f) => event[2] = W!InDir(f)
           /\ event[2] = W!InDir(f) => Tells(0, f)
           /\ Gone(0, f) <=> (Tells(0, f) /\ event[1] \in {"remove", "rename"})
           /\ Made(0, f) <=> (Tells(0, f) /\ event[1] = "create")
           /\ W!FileOf(W!InDir(f)) = f
           /\ W!CanOpen(W!InDir(f)) <=> disk[f] # "absent"
<1>1. event = <<event[1], event[2]>> /\ event[1] \in Ops /\ At(0) = event
  BY EventNames DEF At
<1>2. \A op, n : event = <<op, n>> <=> (event[1] = op /\ event[2] = n)
  BY <1>1
<1>3. /\ Made(0, f) <=> (event[1] = "create" /\ event[2] = W!InDir(f))
      /\ Gone(0, f) <=> (event[1] \in {"remove", "rename"} /\ event[2] = W!InDir(f))
      /\ Tells(0, f) <=> event[2] = W!InDir(f)
  BY <1>1, <1>2 DEF Made, Gone, Tells, Ops
<1>4. W!FileOf(W!InDir(f)) = f
  BY DEF W!FileOf, W!InDir
<1>5. W!InDir(f)[1] # ""
  BY DEF W!InDir
<1>6. W!CanOpen(W!InDir(f)) <=> disk[f] # "absent"
  BY <1>4, <1>5 DEF W!CanOpen
<1>. QED
  BY <1>3, <1>4, <1>6

\* A file in the directory has a name the executor may know.
LEMMA NamesAreJobs == \A f \in Files : W!InDir(f) \in W!JobNames
BY DEF W!JobNames

LEMMA HandleFollows == FollowInv /\ LoopTyped /\ WatcherTyped' /\ W!Handle => FollowInv'
<1>. SUFFICES ASSUME FollowInv, LoopTyped, WatcherTyped', W!Handle PROVE FollowInv'
  OBVIOUS
<1>1. /\ event \in Event /\ loop = "parse"
      /\ UNCHANGED <<sending, notified, disk, added, absentAtAdd, touched, watch>>
      /\ jobs' = IF event[1] = "create" THEN jobs ELSE [jobs EXCEPT ![event[2]] = "absent"]
  BY DEF W!Handle, LoopTyped, FollowInv, WatcherTyped
<1>2. /\ event[1] \in Ops /\ W!FileOf(event[2]) \in Files
      /\ \A f \in Files : W!InDir(f) \in DOMAIN jobs
  BY <1>1, EventNames, NamesAreJobs DEF LoopTyped
<1>3. \A f \in Files : (~Tells(0, f) \/ Made(0, f)) => jobs'[W!InDir(f)] = jobs[W!InDir(f)]
  BY <1>1, <1>2, EventTells
<1>4. \A f \in Files : (Tells(0, f) /\ ~Made(0, f)) => jobs'[W!InDir(f)] = "absent"
  BY <1>1, <1>2, EventTells
<1>5. CASE /\ event[1] \in {"create", "write"} /\ W!CanOpen(event[2])
           /\ disk[W!FileOf(event[2])] # "partial"
  <2>1. event' = event /\ parsed' = disk[W!FileOf(event[2])]
    BY <1>5 DEF W!Handle
  <2>2. \A f \in Files : Tells(0, f) => ~Gone(0, f) /\ parsed' = disk[f]
    BY <1>1, <1>5, <2>1, EventTells
  <2>. QED
    BY <1>1, <1>3, <2>1, <2>2, ParsesFollow
<1>6. CASE ~(/\ event[1] \in {"create", "write"} /\ W!CanOpen(event[2])
             /\ disk[W!FileOf(event[2])] # "partial")
  <2>1. event' = <<>> /\ loop' = "select"
    BY <1>6 DEF W!Handle
  <2>2. \A f \in Files : Gone(0, f) => jobs'[W!InDir(f)] = "absent"
    BY <1>4, TellsOnce
  <2>3. ASSUME NEW f \in Files, Tells(0, f), \A q \in Places : q > 0 => ~Tells(q, f)
        PROVE  jobs'[W!InDir(f)] = Wanted(f)
    <3>1. 0 \in Places /\ \A q \in Places : q < 0 => FALSE
      BY PlacesAre DEF FollowInv
    <3>2. disk[f] = "absent" <=> Gone(0, f)
      BY <2>3, <3>1 DEF FollowInv, LastTells
    <3>3. Gone(0, f) \/ disk[f] = "partial"
      BY <1>1, <1>2, <1>6, <2>3, <3>2, EventTells DEF Ops
    <3>4. Wanted(f) = "absent"
      BY <3>2, <3>3 DEF Wanted
    <3>5. Made(0, f) => jobs[W!InDir(f)] = "absent"
      BY <3>1 DEF FollowInv, CreatedAfresh
    <3>. QED
      BY <1>3, <1>4, <2>3, <3>4, <3>5
  <2>. QED
    BY <1>1, <1>3, <2>1, <2>2, <2>3, ConsumedFollow
<1>. QED
  BY <1>5, <1>6

LEMMA AddFollows == FollowInv /\ LoopTyped /\ WatcherTyped' /\ W!Add => FollowInv'
<1>. SUFFICES ASSUME FollowInv, LoopTyped, WatcherTyped', W!Add PROVE FollowInv'
  OBVIOUS
<1>1. /\ event \in Event /\ loop = "add" /\ parsed \in {"old", "new"}
      /\ event' = <<>> /\ loop' = "select" /\ jobs' = [jobs EXCEPT ![event[2]] = parsed]
      /\ UNCHANGED <<sending, notified, disk, added, absentAtAdd, touched, watch>>
  BY DEF W!Add, LoopTyped, FollowInv, WatcherTyped
<1>2. \A f \in Files : W!InDir(f) \in DOMAIN jobs
  BY NamesAreJobs DEF LoopTyped
<1>3. \A f \in Files : ~Tells(0, f) => jobs'[W!InDir(f)] = jobs[W!InDir(f)]
  BY <1>1, <1>2, EventTells
<1>4. \A f \in Files : ~Gone(0, f)
  BY <1>1, TellsOnce DEF FollowInv, ParsedFollows
<1>5. ASSUME NEW f \in Files, Tells(0, f), \A q \in Places : q > 0 => ~Tells(q, f)
      PROVE  jobs'[W!InDir(f)] = Wanted(f)
  <2>1. jobs'[W!InDir(f)] = parsed
    BY <1>1, <1>2, <1>5, EventTells
  <2>2. parsed = disk[f]
    BY <1>1, <1>5 DEF FollowInv, ParsedFollows
  <2>. QED
    BY <1>1, <2>1, <2>2 DEF Wanted
<1>. QED
  BY <1>1, <1>3, <1>4, <1>5, ConsumedFollow

LEMMA ChangesFollow ==
    ASSUME FollowInv, WatcherTyped', NEW f \in Files, NEW op \in Ops, NEW content \in W!Contents,
           W!Change(f, op, content), content = "absent" <=> op \in {"remove", "rename"},
           op = "create" => disk[f] = "absent"
    PROVE  FollowInv'
<1>1. /\ UNCHANGED <<added, watch, sending, loop, event, parsed, jobs, absentAtAdd>>
      /\ disk' = [disk EXCEPT ![f] = content]
      /\ notified' = IF added THEN Append(notified, <<op, W!InDir(f)>>) ELSE notified
      /\ touched' = IF added THEN touched \cup {f} ELSE touched
  BY DEF W!Change
<1>2. CASE added
  BY <1>1, <1>2, ChangeFollows
<1>3. CASE ~added
  <2>1. /\ absentAtAdd = {} /\ touched = {}
        /\ \A g \in Files : jobs[W!InDir(g)] = "absent" /\ \A p \in Places : ~Tells(p, g)
    BY <1>3 DEF FollowInv, Accounted
  <2>2. \A p, g : (Tells(p, g)' <=> Tells(p, g)) /\ (Made(p, g)' <=> Made(p, g))
    BY <1>1, <1>3 DEF Tells, Gone, Made, At
  <2>3. Places' = Places /\ 0 \in Places
    <3>1. Places' = Places
      BY <1>1, <1>3 DEF Places
    <3>. QED
      BY <3>1, PlacesAre DEF FollowInv
  <2>4. QuietFilesAreFollowed' /\ Accounted'
    BY <1>1, <1>3, <2>1, <2>2, <2>3 DEF QuietFilesAreFollowed, Accounted
  <2>5. \A g \in Files, p \in Places' : ~Tells(p, g)' /\ ~Made(p, g)'
    BY <2>1, <2>2, <2>3, TellsOnce
  <2>6. LastTells' /\ CreatedAfresh' /\ ParsedFollows'
    BY <2>3, <2>5 DEF LastTells, CreatedAfresh, ParsedFollows
  <2>. QED
    BY <2>4, <2>6 DEF FollowInv
<1>. QED
  BY <1>2, <1>3

LEMMA WatchFollows == FollowInv /\ WatcherTyped' /\ (W!Watch \/ W!ReadDirFails) => FollowInv'
<1>. SUFFICES ASSUME FollowInv, WatcherTyped', W!Watch \/ W!ReadDirFails PROVE FollowInv'
  OBVIOUS
<1>1. added => watch \notin {"read", "add"}
  BY DEF FollowInv, Accounted
<1>2. CASE W!ReadDir \/ W!ReadDirFails \/ W!WatchDone
  <2>1. UNCHANGED Others /\ UNCHANGED <<event, notified, sending, loop, parsed>>
    BY <1>2 DEF W!ReadDir, W!ReadDirFails, W!WatchDone, Others
  <2>2. added => watch' \notin {"read", "add"}
    BY <1>1, <1>2 DEF W!ReadDir, W!ReadDirFails, W!WatchDone
  <2>. QED
    BY <2>1, <2>2, StayFollows
<1>3. CASE W!AddDir
  <2>1. /\ ~added /\ watch' = "scan"
        /\ UNCHANGED <<disk, notified, sending, loop, event, parsed, jobs, touched>>
        /\ \/ added' /\ absentAtAdd' = {f \in Files : disk[f] = "absent"}
           \/ UNCHANGED <<added, absentAtAdd>>
    BY <1>1, <1>3 DEF W!AddDir
  <2>2. CASE added' /\ absentAtAdd' = {f \in Files : disk[f] = "absent"}
    BY <2>1, <2>2, AddDirFollows
  <2>3. CASE UNCHANGED <<added, absentAtAdd>>
    <3>1. UNCHANGED Others
      BY <2>1, <2>3 DEF Others
    <3>. QED
      BY <2>1, <3>1, StayFollows
  <2>. QED
    BY <2>1, <2>2, <2>3
<1>4. CASE W!Scan
  <2>1. /\ UNCHANGED Others /\ UNCHANGED <<event, notified, loop, parsed>>
        /\ watch' \in {"scan", "select"} /\ Silent(sending)
    BY <1>4 DEF W!Scan, Others, Silent
  <2>2. UNCHANGED sending \/ Silent(sending)'
    <3>1. CASE names # <<>>
      <4>1. Head(names) \in Files
        BY <3>1 DEF FollowInv, WatcherTyped
      <4>2. sending' = <<"create", W!Bare(Head(names))>>
        BY <1>4, <3>1 DEF W!Scan
      <4>. QED
        BY <4>1, <4>2 DEF Silent
    <3>2. CASE names = <<>>
      BY <1>4, <3>2 DEF W!Scan
    <3>. QED
      BY <3>1, <3>2
  <2>. QED
    BY <2>1, <2>2, StayFollows
<1>5. CASE W!TakeNotified
  BY <1>5, TakeFollows
<1>. QED
  BY <1>2, <1>3, <1>4, <1>5 DEF W!Watch

LEMMA LoopFollows == FollowInv /\ LoopTyped /\ WatcherTyped' /\ W!Loop => FollowInv'
<1>. SUFFICES ASSUME FollowInv, LoopTyped, WatcherTyped', W!Loop PROVE FollowInv'
  OBVIOUS
<1>1. CASE W!LoopDone
  <2>1. UNCHANGED Others /\ UNCHANGED <<event, notified, sending, parsed, watch>> /\ loop' = "ended"
    BY <1>1 DEF W!LoopDone, Others
  <2>2. added => watch' \notin {"read", "add"}
    BY <2>1 DEF FollowInv, Accounted
  <2>. QED
    BY <2>1, <2>2, StayFollows
<1>. QED
  BY <1>1, ReceiveFollows, HandleFollows, AddFollows DEF W!Loop

LEMMA WatcherFollows == FollowInv /\ LoopTyped /\ W!WatcherNext => FollowInv' /\ LoopTyped'
<1>. SUFFICES ASSUME FollowInv, LoopTyped, W!WatcherNext PROVE FollowInv' /\ LoopTyped'
  OBVIOUS
<1>1. WatcherTyped' /\ LoopTyped'
  BY WatcherKeepsTypes DEF Typed, FollowInv
<1>2. CASE W!Watch \/ W!ReadDirFails
  BY <1>1, <1>2, WatchFollows
<1>3. CASE W!Loop
  BY <1>1, <1>3, LoopFollows
<1>4. ASSUME NEW f \in Files, W!Create(f) \/ W!MoveHere(f) \/ W!Write(f) \/ W!Delete(f)
      PROVE  FollowInv'
  BY <1>1, <1>4, DirectoryChanges, ChangesFollow
<1>. QED
  BY <1>1, <1>2, <1>3, <1>4 DEF W!WatcherNext, W!Directory

-----------------------------------------------------------------------------
(* The theorems.                                                           *)

IInv == done \in BOOLEAN /\ Held /\ LoopTyped /\ FollowInv

LEMMA InitIInv == Init => IInv
<1>. SUFFICES ASSUME Init PROVE IInv
  OBVIOUS
<1>1. done \in BOOLEAN /\ Held
  BY DEF Init, L!ListenerInit, Held, OnlyOfferIsHeld, L!Ends
<1>2. LoopTyped /\ WatcherTyped
  <2>1. /\ disk \in [Files -> {"absent", "old"}] /\ ~added /\ added \in BOOLEAN
        /\ notified = <<>> /\ names = <<>> /\ sending = <<>> /\ event = <<>>
        /\ loop = "select" /\ parsed = "absent" /\ absentAtAdd = {} /\ touched = {}
        /\ jobs = [n \in W!JobNames |-> "absent"]
    BY DEF Init, W!WatcherInit
  <2>2. disk \in [Files -> W!Contents] /\ jobs \in [W!JobNames -> W!Contents \ {"partial"}]
    BY <2>1 DEF W!Contents
  <2>3. LoopTyped
    BY <2>1, <2>2 DEF LoopTyped
  <2>4. WatcherTyped
    BY <2>1, <2>2 DEF WatcherTyped, W!Contents
  <2>. QED
    BY <2>3, <2>4
<1>3. /\ event = <<>> /\ sending = <<>> /\ notified = <<>> /\ ~added /\ loop # "add"
      /\ absentAtAdd = {} /\ touched = {}
      /\ \A f \in Files : jobs[W!InDir(f)] = "absent"
  BY NamesAreJobs DEF Init, W!WatcherInit
<1>4. \A p \in Places : Silent(At(p))
  BY <1>3 DEF Places, At, Silent
<1>5. \A f \in Files, p \in Places : ~Tells(p, f) /\ ~Made(p, f)
  BY <1>4, SilentTellsNothing
<1>6. QuietFilesAreFollowed /\ LastTells /\ CreatedAfresh /\ ParsedFollows /\ Accounted
  BY <1>3, <1>5 DEF QuietFilesAreFollowed, LastTells, CreatedAfresh, ParsedFollows, Accounted
<1>. QED
  BY <1>1, <1>2, <1>6 DEF IInv, FollowInv

LEMMA WatcherRests == IInv /\ UNCHANGED wvars => FollowInv' /\ LoopTyped'
<1>. SUFFICES ASSUME IInv, UNCHANGED wvars PROVE FollowInv' /\ LoopTyped'
  OBVIOUS
<1>1. WatcherTyped' /\ LoopTyped'
  BY DEF IInv, FollowInv, WatcherTyped, LoopTyped, wvars
<1>2. /\ UNCHANGED Others /\ UNCHANGED <<event, notified, sending, loop, parsed, watch>>
  BY DEF wvars, Others
<1>3. FollowInv /\ (added => watch' \notin {"read", "add"})
  BY <1>2 DEF IInv, FollowInv, Accounted
<1>. QED
  BY <1>1, <1>2, <1>3, StayFollows

LEMMA ListenerRests == IInv /\ UNCHANGED lvars => Held'
BY DEF IInv, Held, OnlyOfferIsHeld, lvars

LEMMA NextIInv == IInv /\ [Next]_vars => IInv'
<1>. SUFFICES ASSUME IInv, [Next]_vars PROVE IInv'
  OBVIOUS
<1>1. CASE End
  BY <1>1, WatcherRests, ListenerRests DEF End, IInv
<1>2. CASE L!ListenerNext /\ RestOfFile
  <2>1. done' = done
    BY <1>2 DEF L!ListenerNext, L!Acceptor, L!AcceptFails, L!AcceptConn, L!Server, L!Receive,
       L!ServerDone, L!CloseListener, L!ListenerFails, L!ConnProceeds, L!Dial, L!CopyEnds,
       L!HandshakeFails, L!ConnectionEnds, L!Peers, L!Connect, L!ClientCloses, L!EndpointCloses,
       L!CopyFails, L!Handshake, L!OpenSession, L!ExecRequest, L!SessionEnds
  <2>. QED
    BY <1>2, <2>1, WatcherRests, ListenerStep DEF RestOfFile, IInv
<1>3. CASE W!WatcherNext /\ RestOfDirectory
  <2>1. done' = done
    BY <1>3 DEF W!WatcherNext, W!Watch, W!ReadDir, W!AddDir, W!Scan, W!TakeNotified, W!WatchDone,
       W!ReadDirFails, W!Loop, W!Receive, W!Handle, W!Add, W!LoopDone, W!Directory, W!Create,
       W!MoveHere, W!Write, W!Delete, W!Change
  <2>. QED
    BY <1>3, <2>1, ListenerRests, WatcherFollows DEF RestOfDirectory, IInv
<1>4. CASE UNCHANGED vars
  BY <1>4, WatcherRests, ListenerRests DEF vars, IInv
<1>. QED
  BY <1>1, <1>2, <1>3, <1>4 DEF Next

LEMMA InvariantIInv == Spec => []IInv
BY InitIInv, NextIInv, PTL DEF Spec

\* The goroutines have values of their types, an offered connection is held for the
\* loop that will receive it, and the loop has an event just when it handles one
\* (accept of job/context.go, Start of xCUTEr.go).
THEOREM Typing == Spec => []TypeOK
<1>1. IInv => TypeOK
  BY DEF IInv, Held, LoopTyped, TypeOK
<1>. QED
  BY <1>1, InvariantIInv, PTL

\* accept holds one connection at most, the one it offers: whatever ends in which
\* order, no other accepted connection is left behind without a goroutine to close it.
THEOREM AcceptHoldsOne == Spec => []OnlyOfferIsHeld
<1>1. IInv => OnlyOfferIsHeld
  BY DEF IInv, Held
<1>. QED
  BY <1>1, InvariantIInv, PTL

\* Whatever the directory does, in whatever order the kernel, watch and the event loop
\* run, and although parse reads a file later than the event it is about, the job of a
\* file is the one the file holds as soon as nothing about the file is on its way.
THEOREM QuietFilesFollowed == Spec => []QuietFilesAreFollowed
<1>1. IInv => QuietFilesAreFollowed
  BY DEF IInv, FollowInv
<1>. QED
  BY <1>1, InvariantIInv, PTL

=============================================================================
