------------------------------ MODULE Sessions ------------------------------
(***************************************************************************)
(* What the server promises about who is logged in, whatever happens to    *)
(* its sockets, queues and tables: a user has at most one session, a       *)
(* connection carries at most one user, and a session moves to another     *)
(* connection in one step, never through a state with two.                 *)
(***************************************************************************)
EXTENDS FiniteSets

CONSTANTS Users, Fd, None

VARIABLE session    \* for a user the connection that speaks for it, or None

Connected == {session[u] : u \in Users} \ {None}

Init == session = [u \in Users |-> None]

(* A user logs in over a connection that carries nobody.  Its former       *)
(* session, if it has one, ends in the same step.                          *)
LogIn(u, f) ==
    /\ f \notin Connected
    /\ session' = [session EXCEPT ![u] = f]

LogOut(u) ==
    /\ session[u] # None
    /\ session' = [session EXCEPT ![u] = None]

(* The daemon stops: sessions are kept in memory only.                     *)
LoseAll == session' = [u \in Users |-> None]

Next ==
    \/ \E u \in Users, f \in Fd : LogIn(u, f)
    \/ \E u \in Users : LogOut(u)
    \/ LoseAll

Spec == Init /\ [][Next]_session
=============================================================================
