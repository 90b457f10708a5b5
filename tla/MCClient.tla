------------------------------ MODULE MCClient ------------------------------
EXTENDS Client, TLC

(* Descriptors are interchangeable, and so are the users but Me.           *)
Symmetry == Permutations(Fd) \cup Permutations(Users \ {Me})

(* Of the users only Me may have yet to change the initial password: what  *)
(* another user's page is makes no difference to this client.              *)
MCInit == ClientInit /\ \A u \in Users \ {Me} : ~login[u].first
MCSpec == MCInit /\ [][ClientNext]_<<vars, process>>
=============================================================================
