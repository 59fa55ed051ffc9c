-------------------------- MODULE MCSSHClientStore --------------------------
(* SSHClientStore for TLC: clients and callers are interchangeable.         *)
EXTENDS SSHClientStore, TLC

Symmetry == Permutations(Clients) \cup Permutations(Callers) \cup Permutations(Keys)

=============================================================================
