--------------------------- MODULE MCFileTransfer ---------------------------
EXTENDS FileTransfer, TLC

(* Senders and the receiver's clients are interchangeable.                 *)
Symmetry == Permutations(Senders) \cup Permutations(Clients)
=============================================================================
