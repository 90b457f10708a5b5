-------------------------- MODULE TCPServerProofs --------------------------
(***************************************************************************)
(* The select loop, for any number of descriptors and clients: what a pass *)
(* finds when it comes to a descriptor is what select() reported when the  *)
(* pass began, although handlers close, reuse and unwatch descriptors in   *)
(* between.                                                                *)
(***************************************************************************)
EXTENDS TCPServer, FiniteSetTheorems, WellFoundedInduction, TLAPS

USE SizesAssumption DEF L, Descriptors

-----------------------------------------------------------------------------
(* The kernel's lowest descriptor.                                         *)

(* A set of naturals that is not empty has a least element.                *)
LEMMA LeastExists ==
    ASSUME NEW T \in SUBSET Nat, T # {}
    PROVE  \E x \in T : \A y \in T : x <= y
<1> DEFINE R == {ss \in Nat \X Nat : ss[1] < ss[2]}
<1>1. IsWellFoundedOn(R, Nat)
  BY NatLessThanWellFounded DEF OpToRel
<1>2. PICK x \in T : \A y \in T : <<y, x>> \notin R
  <2> HIDE DEF R
  <2> QED BY <1>1, WFMin
<1>3. ASSUME NEW y \in T PROVE x <= y
  <2>1. <<y, x>> \in Nat \X Nat
    BY <1>2
  <2>2. ~(y < x)
    BY <1>2, <2>1, Zenon
  <2> QED BY <2>1, <2>2
<1> QED BY <1>3

LEMMA MinFree == Free # {} => Min(Free) \in Free
<1>1. Free \in SUBSET Nat
  BY DEF Free
<1> QED BY <1>1, LeastExists DEF Min

-----------------------------------------------------------------------------
(* The inductive invariant.  What is still to be served in a pass has the  *)
(* client it was reported for (ServesWhomItSaw), because a descriptor is   *)
(* closed only while it is served itself and only a free one is given to a *)
(* client; the counts and the queue of clients make the types inductive.   *)
Clients == 1..MaxClients

Queueing ==
    /\ came \in 0..MaxClients
    /\ waiting \in Seq(Clients)
    /\ peer \in [Descriptors -> 0..MaxClients]

SInv ==
    /\ TypeOK /\ Queueing
    /\ NumFdCounts /\ EveryClientWatched
    /\ ServesWhomItSaw /\ SendAsserts

LEMMA ClientsFinite ==
    ASSUME TypeOK
    PROVE  IsFiniteSet(client_fds) /\ Cardinality(client_fds) \in Nat
<1>1. client_fds \in SUBSET (1..(NOFILE - 1)) /\ IsFiniteSet(1..(NOFILE - 1))
  BY FS_Interval DEF TypeOK
<1>2. IsFiniteSet(client_fds)
  BY <1>1, FS_Subset
<1> QED BY <1>2, FS_CardinalityType

LEMMA InitSInv == Init => SInv
<1> SUFFICES ASSUME Init PROVE SInv
  OBVIOUS
<1>1. TypeOK /\ Queueing
  BY DEF Init, TypeOK, Queueing
<1>2. NumFdCounts
  BY FS_EmptySet DEF Init, NumFdCounts
<1> QED BY <1>1, <1>2
        DEF Init, SInv, EveryClientWatched, ServesWhomItSaw, SendAsserts, ToRead, ToWrite

-----------------------------------------------------------------------------
(* The steps.                                                              *)
LEMMA OutsideSInv ==
    ASSUME SInv, Connect \/ \E fd \in Descriptors : BecomesReadable(fd)
    PROVE  SInv'
<1>1. CASE Connect
  <2>1. Queueing'
    BY <1>1 DEF Connect, Queueing, SInv, Clients
  <2>2. UNCHANGED <<server, conns_wfds, pass, peer, reported, readable>>
    BY <1>1 DEF Connect
  <2> QED BY <2>1, <2>2
          DEF SInv, TypeOK, NumFdCounts, EveryClientWatched, ServesWhomItSaw, SendAsserts,
              ToRead, ToWrite, server, pass
<1>2. ASSUME NEW fd \in Descriptors, BecomesReadable(fd)
      PROVE  SInv'
  BY <1>2 DEF BecomesReadable, SInv, TypeOK, Queueing, NumFdCounts, EveryClientWatched,
              ServesWhomItSaw, SendAsserts, ToRead, ToWrite, server, pass
<1> QED BY <1>1, <1>2

(* select() reports open clients, and those of _wfds.                      *)
LEMMA SelectSInv ==
    ASSUME SInv, Select
    PROVE  SInv'
<1>1. /\ UNCHANGED <<server, conns_wfds, peer, waiting, came, readable>>
      /\ reported' = peer /\ i' = L /\ at' = "read"
      /\ rfds' \subseteq client_fds \cup {L}
      /\ wfds' \subseteq conns_wfds
  BY DEF Select
<1>2. TypeOK'
  <2>1. TypeOK /\ Queueing
    BY DEF SInv
  <2>2. /\ max_fd' \in {L} \cup Descriptors /\ num_fd' \in Nat
        /\ client_fds' = {fd \in Descriptors : peer'[fd] # 0}
        /\ conns_wfds' \subseteq client_fds' /\ readable' \subseteq client_fds'
        /\ reported' \in [Descriptors -> 0..MaxClients]
    BY <1>1, <2>1 DEF TypeOK, Queueing, server
  <2>3. i' = L /\ max_fd' \in Nat /\ L <= max_fd'
    BY <1>1, <2>2
  <2>4. rfds' \subseteq {L} \cup Descriptors /\ wfds' \subseteq Descriptors
    BY <1>1, <2>1 DEF TypeOK
  <2>5. i' \in 0..(max_fd' + 1) /\ i' <= max_fd'
    <3>1. \A k, n \in Nat : k <= n => k \in 0..(n + 1)
      OBVIOUS
    <3>2. i' \in Nat /\ i' <= max_fd' /\ max_fd' \in Nat
      BY <2>3
    <3> QED BY <3>1, <3>2, Zenon
  <2>6. at' \in {"select", "read", "write"}
    BY <1>1
  <2> QED BY <2>2, <2>4, <2>5, <2>6, Zenon DEF TypeOK
<1>3. Queueing' /\ NumFdCounts' /\ EveryClientWatched'
  BY <1>1 DEF SInv, Queueing, NumFdCounts, EveryClientWatched, server
<1>4. ServesWhomItSaw' /\ SendAsserts'
  BY <1>1 DEF SInv, TypeOK, ServesWhomItSaw, SendAsserts, ToRead, ToWrite, server
<1> QED BY <1>2, <1>3, <1>4 DEF SInv

(* A client gets a descriptor that nobody has: none that is to be served.  *)
LEMMA AcceptSockSInv ==
    ASSUME SInv, AcceptSock
    PROVE  SInv'
<1> DEFINE cfd == Min(Free)
<1>1. cfd \in Descriptors /\ peer[cfd] = 0 /\ cfd \notin client_fds
  BY MinFree DEF AcceptSock, CanAccept, Free, SInv, TypeOK
<1>2. /\ max_fd' = IF cfd > max_fd THEN cfd ELSE max_fd
      /\ client_fds' = client_fds \cup {cfd}
      /\ num_fd' = num_fd + 1
      /\ peer' = [peer EXCEPT ![cfd] = Head(waiting)]
      /\ waiting' = Tail(waiting) /\ waiting # << >>
      /\ UNCHANGED <<conns_wfds, rfds, wfds, i, at, reported, came, readable>>
  BY DEF AcceptSock, CanAccept, pass
<1> HIDE DEF cfd
<1>3. Head(waiting) \in Clients /\ waiting' \in Seq(Clients)
  BY <1>2 DEF SInv, Queueing
<1>4. Queueing'
  BY <1>1, <1>2, <1>3 DEF SInv, Queueing, Clients
<1>5. TypeOK'
  <2>1. /\ max_fd' \in {L} \cup Descriptors /\ num_fd' \in Nat /\ max_fd' >= max_fd
        /\ i \in Nat /\ max_fd \in Nat /\ (at # "select" => i <= max_fd) /\ i <= max_fd + 1
    BY <1>1, <1>2 DEF SInv, TypeOK
  <2>2. client_fds' = {fd \in Descriptors : peer'[fd] # 0}
    BY <1>1, <1>2, <1>3 DEF SInv, TypeOK, Queueing, Clients
  <2>3. i' \in 0..(max_fd' + 1) /\ (at' # "select" => i' <= max_fd')
    BY <1>2, <2>1
  <2> QED BY <1>1, <1>2, <2>1, <2>2, <2>3 DEF SInv, TypeOK
<1>6. NumFdCounts'
  <2>1. Cardinality(client_fds') = Cardinality(client_fds) + 1 /\ Cardinality(client_fds) \in Nat
    BY <1>1, <1>2, ClientsFinite, FS_AddElement DEF SInv
  <2> QED BY <1>2, <2>1 DEF SInv, NumFdCounts
<1>7. EveryClientWatched'
  BY <1>1, <1>2 DEF SInv, EveryClientWatched, TypeOK
<1>8. ServesWhomItSaw' /\ SendAsserts'
  BY <1>1, <1>2 DEF SInv, TypeOK, Queueing, ServesWhomItSaw, SendAsserts, ToRead, ToWrite
<1> QED BY <1>4, <1>5, <1>6, <1>7, <1>8 DEF SInv

(* close_sock of a client the loop knows.                                  *)
LEMMA CloseSockKeeps ==
    ASSUME SInv, NEW fd \in client_fds, CloseSock(fd)
    PROVE  /\ max_fd' = max_fd /\ num_fd' = num_fd - 1 /\ num_fd' \in Nat
           /\ client_fds' = {g \in Descriptors : peer'[g] # 0}
           /\ peer' \in [Descriptors -> 0..MaxClients]
           /\ \A g \in Descriptors \ {fd} : peer'[g] = peer[g]
           /\ conns_wfds' \subseteq client_fds'
           /\ conns_wfds \ {fd} \subseteq conns_wfds'
           /\ readable' \subseteq client_fds'
           /\ NumFdCounts' /\ EveryClientWatched'
<1>1. fd \in Descriptors
  BY DEF SInv, TypeOK
<1>2. Cardinality(client_fds') = Cardinality(client_fds) - 1 /\ Cardinality(client_fds') \in Nat
  <2>1. client_fds' = client_fds \ {fd}
    BY DEF CloseSock
  <2>2. IsFiniteSet(client_fds)
    BY ClientsFinite DEF SInv
  <2> QED BY <2>1, <2>2, FS_RemoveElement, FS_CardinalityType
<1>3. NumFdCounts' /\ num_fd' \in Nat
  BY <1>2, ClientsFinite DEF CloseSock, SInv, NumFdCounts
<1> QED BY <1>1, <1>3 DEF CloseSock, SInv, TypeOK, Queueing, EveryClientWatched

(* What the loop does next is still as it was reported.                    *)
LEMMA AdvanceKeeps ==
    ASSUME SInv, at # "select", max_fd' = max_fd, Advance
    PROVE  /\ i' \in 0..(max_fd' + 1) /\ (at' # "select" => i' <= max_fd')
           /\ at' \in {"select", "read", "write"}
           /\ UNCHANGED <<rfds, wfds>> =>
                /\ ToRead' \subseteq ToRead \ {i}
                /\ ToWrite' \subseteq ToWrite \ {i}
<1>1. i \in Nat /\ max_fd \in Nat /\ rfds \subseteq Nat /\ wfds \subseteq Nat /\ i <= max_fd
  BY DEF SInv, TypeOK
<1>2. i' = i + 1 /\ at' = IF i + 1 <= max_fd THEN "read" ELSE "select"
  BY DEF Advance
<1>3. ASSUME UNCHANGED <<rfds, wfds>>
      PROVE  ToRead' \subseteq ToRead \ {i} /\ ToWrite' \subseteq ToWrite \ {i}
  <2>1. \A n \in Nat : n >= i + 1 => n > i /\ n >= i /\ n # i
    BY <1>1
  <2>2. ASSUME NEW fd \in ToRead' PROVE fd \in ToRead \ {i}
    <3>1. fd \in rfds \ {L} /\ fd \in Nat /\ fd >= i + 1
      BY <1>1, <1>2, <1>3 DEF ToRead
    <3> QED BY <2>1, <3>1 DEF ToRead
  <2>3. ASSUME NEW fd \in ToWrite' PROVE fd \in ToWrite \ {i}
    <3>1. fd \in wfds /\ fd \in Nat /\ fd >= i + 1
      BY <1>1, <1>2, <1>3 DEF ToWrite
    <3> QED BY <2>1, <3>1 DEF ToWrite
  <2> QED BY <2>2, <2>3
<1> QED BY <1>1, <1>2, <1>3

LEMMA NothingSInv ==
    ASSUME SInv, NothingToRead \/ NothingToWrite
    PROVE  SInv'
<1>1. CASE NothingToRead
  BY <1>1 DEF NothingToRead, SInv, TypeOK, Queueing, NumFdCounts, EveryClientWatched,
              ServesWhomItSaw, SendAsserts, ToRead, ToWrite, server
<1>2. CASE NothingToWrite
  <2>1. UNCHANGED <<max_fd, num_fd, client_fds, conns_wfds, rfds, wfds, peer, reported,
                    waiting, came, readable>>
    BY <1>2 DEF NothingToWrite, server
  <2>2. /\ i' \in 0..(max_fd' + 1) /\ (at' # "select" => i' <= max_fd')
        /\ at' \in {"select", "read", "write"}
        /\ ToRead' \subseteq ToRead /\ ToWrite' \subseteq ToWrite
    BY <1>2, <2>1, AdvanceKeeps DEF NothingToWrite
  <2>3. TypeOK' /\ Queueing' /\ NumFdCounts' /\ EveryClientWatched'
    BY <2>1, <2>2 DEF SInv, TypeOK, Queueing, NumFdCounts, EveryClientWatched
  <2>4. ServesWhomItSaw' /\ SendAsserts'
    BY <2>1, <2>2 DEF SInv, ServesWhomItSaw, SendAsserts
  <2> QED BY <2>3, <2>4 DEF SInv
<1> QED BY <1>1, <1>2

(* A socket is closed while it is its turn, and the loop goes on.          *)
LEMMA CloseAndAdvanceSInv ==
    ASSUME SInv, at # "select", i \in client_fds, CloseSock(i), Advance,
           UNCHANGED <<rfds, wfds, reported, waiting, came>>
    PROVE  SInv'
<1>1. /\ max_fd' = max_fd /\ num_fd' \in Nat
      /\ client_fds' = {g \in Descriptors : peer'[g] # 0}
      /\ peer' \in [Descriptors -> 0..MaxClients]
      /\ \A g \in Descriptors \ {i} : peer'[g] = peer[g]
      /\ conns_wfds' \subseteq client_fds'
      /\ conns_wfds \ {i} \subseteq conns_wfds'
      /\ readable' \subseteq client_fds'
      /\ NumFdCounts' /\ EveryClientWatched'
  BY CloseSockKeeps
<1>2. /\ i' \in 0..(max_fd' + 1) /\ (at' # "select" => i' <= max_fd')
      /\ at' \in {"select", "read", "write"}
      /\ ToRead' \subseteq ToRead \ {i} /\ ToWrite' \subseteq ToWrite \ {i}
  BY <1>1, AdvanceKeeps
<1>3. TypeOK' /\ Queueing'
  BY <1>1, <1>2 DEF SInv, TypeOK, Queueing
<1>4. ServesWhomItSaw' /\ SendAsserts'
  <2>1. ToRead \cup ToWrite \subseteq Descriptors
    BY DEF SInv, TypeOK, ToRead, ToWrite
  <2> QED BY <1>1, <1>2, <2>1 DEF SInv, ServesWhomItSaw, SendAsserts
<1> QED BY <1>1, <1>3, <1>4 DEF SInv

(* What is its turn to be read or written is a client's socket.            *)
LEMMA TurnIsClients ==
    ASSUME SInv,
           \/ at = "read" /\ i # L /\ i \in rfds
           \/ at = "write" /\ i \in wfds
    PROVE  i \in client_fds
<1>1. i \in ToRead \cup ToWrite /\ i \in Descriptors
  BY DEF SInv, TypeOK, ToRead, ToWrite
<1> QED BY <1>1 DEF SInv, ServesWhomItSaw, TypeOK

LEMMA ReadSockSInv ==
    ASSUME SInv, ReadSock
    PROVE  SInv'
<1>1. i \in client_fds
  BY TurnIsClients DEF ReadSock
<1>2. CASE Received
  BY <1>2 DEF ReadSock, Received, SInv, TypeOK, Queueing, NumFdCounts, EveryClientWatched,
              ServesWhomItSaw, SendAsserts, ToRead, ToWrite, server
<1>3. CASE CloseSock(i) /\ Advance
  BY <1>1, <1>3, CloseAndAdvanceSInv DEF ReadSock
<1> QED BY <1>2, <1>3 DEF ReadSock

LEMMA WriteSockSInv ==
    ASSUME SInv, WriteSock
    PROVE  SInv'
<1>1. i \in client_fds
  BY TurnIsClients DEF WriteSock
<1>2. CASE /\ conns_wfds' \in {conns_wfds, conns_wfds \ {i}}
           /\ UNCHANGED <<server, peer, readable>>
  <2>1. /\ UNCHANGED <<max_fd, num_fd, client_fds, peer, readable, rfds, wfds, reported,
                       waiting, came>>
        /\ conns_wfds \ {i} \subseteq conns_wfds' /\ conns_wfds' \subseteq conns_wfds
    BY <1>2 DEF WriteSock, server
  <2>2. /\ i' \in 0..(max_fd' + 1) /\ (at' # "select" => i' <= max_fd')
        /\ at' \in {"select", "read", "write"}
        /\ ToRead' \subseteq ToRead \ {i} /\ ToWrite' \subseteq ToWrite \ {i}
    BY <2>1, AdvanceKeeps DEF WriteSock
  <2>3. TypeOK' /\ Queueing' /\ NumFdCounts' /\ EveryClientWatched'
    BY <2>1, <2>2 DEF SInv, TypeOK, Queueing, NumFdCounts, EveryClientWatched
  <2>4. ServesWhomItSaw' /\ SendAsserts'
    BY <2>1, <2>2 DEF SInv, ServesWhomItSaw, SendAsserts
  <2> QED BY <2>3, <2>4 DEF SInv
<1>3. CASE CloseSock(i)
  BY <1>1, <1>3, CloseAndAdvanceSInv DEF WriteSock
<1> QED BY <1>2, <1>3 DEF WriteSock

LEMMA NextSInv == SInv /\ [Next]_vars => SInv'
<1> SUFFICES ASSUME SInv, [Next]_vars PROVE SInv'
  OBVIOUS
<1>1. CASE UNCHANGED vars
  BY <1>1 DEF vars, server, pass, SInv, TypeOK, Queueing, NumFdCounts, EveryClientWatched,
              ServesWhomItSaw, SendAsserts, ToRead, ToWrite
<1>2. CASE Next
  BY <1>2, OutsideSInv, SelectSInv, AcceptSockSInv, NothingSInv, ReadSockSInv, WriteSockSInv
     DEF Next
<1> QED BY <1>1, <1>2

LEMMA SpecSInv == Spec => []SInv
BY InitSInv, NextSInv, PTL DEF Spec

-----------------------------------------------------------------------------
(* The theorems.                                                           *)

(* The loop's sets and counters stay within their types; _num_fd, which    *)
(* decides whether the listening socket is watched, never goes below zero. *)
THEOREM TypeCorrect == Spec => []TypeOK
BY SpecSInv, PTL DEF SInv

(* TCPServer::loop, lines 95-107: a descriptor still to be read or written *)
(* in this pass has the client select() reported, whatever was closed and  *)
(* accepted since.                                                         *)
THEOREM NoStaleDescriptor == Spec => []ServesWhomItSaw
BY SpecSInv, PTL DEF SInv

(* send_msg's asserts (Connections.cpp:61-62) hold for each descriptor     *)
(* the loop calls it with: between select() and its turn nobody takes it   *)
(* out of _wfds.                                                           *)
THEOREM SendAssertsHold == Spec => []SendAsserts
BY SpecSInv, PTL DEF SInv

(* accept_sock and close_sock keep the count select()'s first argument and *)
(* the limit FD_SETSIZE are compared with, and the highest descriptor.     *)
THEOREM CountsAreRight == Spec => [](NumFdCounts /\ EveryClientWatched)
BY SpecSInv, PTL DEF SInv
=============================================================================
