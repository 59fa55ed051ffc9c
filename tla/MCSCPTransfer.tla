--------------------------- MODULE MCSCPTransfer ---------------------------
(* Small instances of SCPTransfer. *)
EXTENDS SCPTransfer

MCNames == {"a", "b", "7"}
MCNumeric == {"7"}
MCTimes == {-1, 1, 2, 3}
MCTarget == <<"a">>

Dir(t) == [dir |-> TRUE, content |-> << >>, time |-> t]
File(c, t) == [dir |-> FALSE, content |-> c, time |-> t]

\* A file; two levels of directories with an empty and a full one; a file named
\* like its directory; a name that begins with a digit; a time before 1970.
MCTrees ==
  {<<"b">> :> File(<<"byte", "nul">>, 2),
   <<"a">> :> Dir(1) @@ <<"a", "b">> :> Dir(2) @@ <<"a", "b", "a">> :> File(<<"byte">>, 3)
     @@ <<"a", "a">> :> Dir(1),
   <<"b">> :> Dir(1) @@ <<"b", "b">> :> File(<<"byte">>, 2),
   <<"b">> :> Dir(1) @@ <<"b", "7">> :> File(<<"byte">>, 2),
   <<"b">> :> Dir(1) @@ <<"b", "a">> :> File(<< >>, -1)}

MCContents == {<< >>, <<"byte">>, <<"nul">>, <<"byte", "nul", "byte">>}

=============================================================================
