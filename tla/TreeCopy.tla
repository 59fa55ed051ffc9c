------------------------------ MODULE TreeCopy ------------------------------
(***************************************************************************)
(* What a recursive copy promises: the nodes of a tree arrive one by one,  *)
(* each after the directory it is in, and the copy is a success only when  *)
(* all of them are there.                                                  *)
(***************************************************************************)
EXTENDS Integers, Sequences

VARIABLES
  tree,      \* the paths of the nodes; a path without its last name is that
             \* of the directory
  copied,    \* the nodes that are complete at the target
  outcome    \* "running", "ok" or "error"

copyVars == <<tree, copied, outcome>>

Above(p) == {SubSeq(p, 1, i) : i \in 1 .. Len(p) - 1}

Init == copied = {} /\ outcome = "running"

\* A failed copy may still be completing what was on its way.
Copy(p) ==
  /\ outcome # "ok"
  /\ p \notin copied
  /\ Above(p) \subseteq copied
  /\ copied' = copied \cup {p}
  /\ UNCHANGED <<tree, outcome>>

Succeed ==
  /\ outcome = "running"
  /\ copied = tree
  /\ outcome' = "ok"
  /\ UNCHANGED <<tree, copied>>

Fail ==
  /\ outcome = "running"
  /\ outcome' = "error"
  /\ UNCHANGED <<tree, copied>>

Next == (\E p \in tree : Copy(p)) \/ Succeed \/ Fail

Spec == Init /\ [][Next]_copyVars

=============================================================================
