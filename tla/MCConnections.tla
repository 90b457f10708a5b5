--------------------------- MODULE MCConnections ---------------------------
EXTENDS Connections, TLC

(* Descriptors, users and passwords are interchangeable: no definition     *)
(* orders them or singles one out.                                         *)
Symmetry == Permutations(Fd) \cup Permutations(Users) \cup Permutations(Pwd)
=============================================================================
