----------------------------- MODULE TCPServer -----------------------------
(***************************************************************************)
(* The select loop of src/server/TCPServer.cpp, the one thread of the      *)
(* server.  A pass walks the descriptors from _listen_fd up to _max_fd     *)
(* with the sets select() filled in when the pass began, while the         *)
(* handlers it calls close descriptors, change _wfds, and accept clients   *)
(* on descriptors that were closed before.                                 *)
(*                                                                         *)
(* Of Connections only what the loop sees is here: whether recv_msg and    *)
(* send_msg ask for the socket to be closed, and what they and close_conn  *)
(* do to _wfds.                                                            *)
(*                                                                         *)
(* AcceptSockLastIsMax, AdvanceShort, CloseSockUncounted and               *)
(* ReadSockGoesOn are variants of the operator after them, as a slip in    *)
(* that place of the code would make it. No behaviour uses a variant; the  *)
(* README says which property depends on the place.                        *)
(***************************************************************************)
EXTENDS Naturals, Sequences, FiniteSets, FiniteSetsExt

CONSTANTS
    FD_SETSIZE,
    NOFILE,       \* RLIMIT_NOFILE: descriptors stay below it
    Foreign,      \* descriptors of the process the loop does not know of
    MaxClients    \* bound on the clients that ever connect

(* _listen_fd.  Every lower descriptor stays open, so nothing below it is  *)
(* ever handed out: descriptors are counted from it.                       *)
L == 0

ASSUME SizesAssumption ==
    /\ FD_SETSIZE \in Nat \ {0} /\ NOFILE \in Nat \ {0} /\ MaxClients \in Nat
    /\ Foreign \subseteq 1..(NOFILE - 1)

VARIABLES
    max_fd, num_fd, client_fds,     \* _max_fd, _num_fd, _client_fds
    conns_wfds,     \* _wfds of Connections
    rfds, wfds,     \* the sets select() answered
    i, at,          \* the loop's variable, and where in its body it is
    peer,           \* the client at the other end of a descriptor, 0 if none
    reported,       \* peer, when select() answered
    waiting,        \* clients the kernel has not been asked to accept
    came,           \* clients that connected so far
    readable        \* descriptors with bytes, or an end, to be read

server == <<max_fd, num_fd, client_fds>>
pass   == <<rfds, wfds, i, at>>
vars   == <<server, conns_wfds, pass, peer, reported, waiting, came, readable>>

Descriptors == 1..(NOFILE - 1)

Init ==
    /\ max_fd = L /\ num_fd = L + 1 /\ client_fds = {}
    /\ conns_wfds = {}
    /\ rfds = {} /\ wfds = {} /\ i = L /\ at = "select"
    /\ peer = [fd \in Descriptors |-> 0] /\ reported = peer
    /\ waiting = << >> /\ came = 0
    /\ readable = {}

-----------------------------------------------------------------------------
(* The clients.                                                            *)
Connect ==
    /\ came < MaxClients
    /\ came' = came + 1
    /\ waiting' = Append(waiting, came')
    /\ UNCHANGED <<server, conns_wfds, pass, peer, reported, readable>>

(* The client at fd sends something, or closes its end.                    *)
BecomesReadable(fd) ==
    /\ peer[fd] # 0
    /\ readable' = readable \cup {fd}
    /\ UNCHANGED <<server, conns_wfds, pass, peer, reported, waiting, came>>

-----------------------------------------------------------------------------
(* The pass.                                                               *)
HasRoom == num_fd < FD_SETSIZE

(* select() waits until there is something to do; which sockets of _wfds   *)
(* take output is up to their clients.                                     *)
Select ==
    /\ at = "select"
    /\ rfds' = (client_fds \cap readable)
               \cup IF HasRoom /\ waiting # << >> THEN {L} ELSE {}
    /\ wfds' \in SUBSET conns_wfds
    /\ rfds' \cup wfds' # {}
    /\ i' = L /\ at' = "read"
    /\ reported' = peer
    /\ UNCHANGED <<server, conns_wfds, peer, waiting, came, readable>>

Free == {fd \in Descriptors : peer[fd] = 0 /\ fd \notin Foreign}

(* One accept4 that succeeds: the kernel hands out its lowest descriptor.  *)
CanAccept == HasRoom /\ waiting # << >> /\ Free # {}

AcceptSockLastIsMax ==
    /\ at = "read" /\ i = L /\ L \in rfds
    /\ CanAccept
    /\ LET cfd == Min(Free)
       IN  /\ max_fd' = cfd
           /\ client_fds' = client_fds \cup {cfd}
           /\ num_fd' = num_fd + 1
           /\ peer' = [peer EXCEPT ![cfd] = Head(waiting)]
    /\ waiting' = Tail(waiting)
    /\ UNCHANGED <<conns_wfds, pass, reported, came, readable>>
AcceptSock ==
    /\ at = "read" /\ i = L /\ L \in rfds
    /\ CanAccept
    /\ LET cfd == Min(Free)
       IN  /\ max_fd' = IF cfd > max_fd THEN cfd ELSE max_fd
           /\ client_fds' = client_fds \cup {cfd}
           /\ num_fd' = num_fd + 1
           /\ peer' = [peer EXCEPT ![cfd] = Head(waiting)]
    /\ waiting' = Tail(waiting)
    /\ UNCHANGED <<conns_wfds, pass, reported, came, readable>>

(* ++i, and the end of the pass.                                           *)
AdvanceShort ==
    /\ i' = i + 1
    /\ at' = IF i' < max_fd THEN "read" ELSE "select"
Advance ==
    /\ i' = i + 1
    /\ at' = IF i' <= max_fd THEN "read" ELSE "select"

(* close_sock; close_conn tells the others.                                *)
CloseSockUncounted(fd) ==
    /\ peer' = [peer EXCEPT ![fd] = 0]
    /\ client_fds' = client_fds \ {fd}
    /\ readable' = readable \ {fd}
    /\ \E told \in SUBSET client_fds' : conns_wfds' = (conns_wfds \cup told) \ {fd}
    /\ UNCHANGED <<max_fd, num_fd>>
CloseSock(fd) ==
    /\ peer' = [peer EXCEPT ![fd] = 0]
    /\ client_fds' = client_fds \ {fd}
    /\ num_fd' = num_fd - 1
    /\ readable' = readable \ {fd}
    /\ \E told \in SUBSET client_fds' : conns_wfds' = (conns_wfds \cup told) \ {fd}
    /\ UNCHANGED max_fd

(* The test on rfds fails, or read_sock(_listen_fd) has no more to accept. *)
NothingToRead ==
    /\ at = "read"
    /\ i \notin rfds \/ (i = L /\ ~CanAccept)
    /\ at' = "write"
    /\ UNCHANGED <<server, conns_wfds, rfds, wfds, i, peer, reported, waiting, came, readable>>

(* recv_msg answers true; its handlers may push to any open connection.    *)
Received ==
    /\ at' = "write"
    /\ readable' = readable \ {i}
    /\ \E told \in SUBSET client_fds : conns_wfds' = conns_wfds \cup told
    /\ UNCHANGED <<server, i, peer>>

(* read_sock of a client.  A socket it closes is not written to.           *)
ReadSockGoesOn ==
    /\ at = "read" /\ i # L /\ i \in rfds
    /\ Received \/ (CloseSock(i) /\ at' = "write" /\ UNCHANGED i)
    /\ UNCHANGED <<rfds, wfds, reported, waiting, came>>
ReadSock ==
    /\ at = "read" /\ i # L /\ i \in rfds
    /\ Received \/ (CloseSock(i) /\ Advance)
    /\ UNCHANGED <<rfds, wfds, reported, waiting, came>>

NothingToWrite ==
    /\ at = "write" /\ i \notin wfds
    /\ Advance
    /\ UNCHANGED <<server, conns_wfds, rfds, wfds, peer, reported, waiting, came, readable>>

(* write_sock: send_msg leaves something to send, or clears fd in _wfds.   *)
WriteSock ==
    /\ at = "write" /\ i \in wfds
    /\ \/ /\ conns_wfds' \in {conns_wfds, conns_wfds \ {i}}
          /\ UNCHANGED <<server, peer, readable>>
       \/ CloseSock(i)
    /\ Advance
    /\ UNCHANGED <<rfds, wfds, reported, waiting, came>>

Step == Select \/ AcceptSock \/ NothingToRead \/ ReadSock \/ NothingToWrite \/ WriteSock

Next ==
    \/ Connect
    \/ \E fd \in Descriptors : BecomesReadable(fd)
    \/ Select
    \/ AcceptSock
    \/ NothingToRead
    \/ ReadSock
    \/ NothingToWrite
    \/ WriteSock

Spec == Init /\ [][Next]_vars

(* The thread keeps running.                                               *)
FairSpec == Spec /\ WF_vars(Step)

-----------------------------------------------------------------------------
(* Properties.                                                             *)

(* The loop's sets hold descriptors of open clients, and the loop's        *)
(* variable stays within _max_fd while a pass runs.                        *)
TypeOK ==
    /\ max_fd \in {L} \cup Descriptors /\ num_fd \in Nat
    /\ client_fds = {fd \in Descriptors : peer[fd] # 0}
    /\ conns_wfds \subseteq client_fds
    /\ rfds \subseteq {L} \cup Descriptors /\ wfds \subseteq Descriptors
    /\ at \in {"select", "read", "write"}
    /\ i \in 0..(max_fd + 1) /\ (at # "select" => i <= max_fd)
    /\ reported \in [Descriptors -> 0..MaxClients]
    /\ readable \subseteq client_fds

(* The sets of a pass go stale while it runs, yet a descriptor still to be *)
(* served belongs to the client select() reported: none was closed since,  *)
(* and none was given to another client.                                   *)
ToRead  == {fd \in rfds \ {L} : at # "select" /\ (fd > i \/ (fd = i /\ at = "read"))}
ToWrite == {fd \in wfds : at # "select" /\ fd >= i}

ServesWhomItSaw ==
    \A fd \in ToRead \cup ToWrite : peer[fd] = reported[fd] /\ peer[fd] # 0

(* The asserts at the head of send_msg hold when the loop calls it with    *)
(* the set of a while ago: nobody else took the descriptor out of _wfds.   *)
SendAsserts == ToWrite \subseteq conns_wfds

(* _num_fd counts _listen_fd, what is below it, and the clients.           *)
NumFdCounts == num_fd = L + 1 + Cardinality(client_fds)

(* select() is asked about every client, also after one was accepted on a  *)
(* descriptor below another's.                                             *)
EveryClientWatched == \A fd \in client_fds : fd <= max_fd

(* A socket with something to read is read, or closed, however the others  *)
(* behave.                                                                 *)
ReadableServed == \A fd \in Descriptors : fd \in readable ~> fd \notin readable

(* A client waiting to be accepted is, as long as there are descriptors.   *)
ClientsGetIn == waiting # << >> ~> waiting = << >> \/ Free = {}
=============================================================================
