-------------------------- MODULE MCRemoteVectors --------------------------
(* Small instances of RemoteVectors. *)
EXTENDS RemoteVectors

CONSTANTS p1, p2, t1, t2

MCIds == {1, 2}
MCLimits == {1, 3}
MCKinds == Sql \cup InMemory \cup Services
Symmetric == Permutations(Processes) \cup Permutations(Texts)
=============================================================================
