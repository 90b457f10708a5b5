-------------------------- MODULE ConnectionsProofs --------------------------
(***************************************************************************)
(* Proofs about Connections, for any sets of users, descriptors and        *)
(* strangers and any bounds.                                               *)
(***************************************************************************)
EXTENDS Connections, FiniteSetTheorems, TLAPS

USE NamesAssumption, ConnectionsAssumption

-----------------------------------------------------------------------------
(* The queues.                                                             *)

OutType == [que : [Fd -> Seq(Message)], wfds : SUBSET Fd]

(* A set of queues as every handler leaves it.                             *)
Good(o) ==
    /\ o \in OutType
    /\ \A f \in Fd : f \in o.wfds <=> o.que[f] # << >>

(* Going from o to p, only the connections in fds are written to.          *)
OnlyTo(fds, o, p) ==
    \A f \in Fd \ fds : p.que[f] = o.que[f] /\ (f \in p.wfds <=> f \in o.wfds)

(* Appending a message and setting its descriptors, as every push does,    *)
(* keeps queues and _wfds in step.                                         *)
LEMMA PushGood ==
    ASSUME NEW o, Good(o), NEW fds \in SUBSET Fd, NEW m \in Message
    PROVE  Good(Push(o, fds, m)) /\ OnlyTo(fds, o, Push(o, fds, m))
<1> DEFINE p == Push(o, fds, m)
<1>1. /\ p.que = [f \in Fd |-> IF f \in fds THEN Append(o.que[f], m) ELSE o.que[f]]
      /\ p.wfds = o.wfds \cup fds
      /\ p = [que |-> p.que, wfds |-> p.wfds]
  BY DEF Push
<1>2. o.que \in [Fd -> Seq(Message)] /\ o.wfds \in SUBSET Fd
  BY DEF Good, OutType
<1>3. p \in OutType
  <2>1. \A f \in Fd : Append(o.que[f], m) \in Seq(Message)
    BY <1>2
  <2>2. p.que \in [Fd -> Seq(Message)]
    BY <1>1, <1>2, <2>1
  <2> HIDE DEF p
  <2> QED BY <1>1, <1>2, <2>2 DEF OutType
<1>4. \A f \in Fd : Append(o.que[f], m) # << >>
  BY <1>2
<1>5. \A f \in Fd : f \in p.wfds <=> p.que[f] # << >>
  BY <1>1, <1>2, <1>4 DEF Good
<1>6. OnlyTo(fds, o, p)
  BY <1>1 DEF OnlyTo
<1> QED BY <1>3, <1>5, <1>6 DEF Good

(* The messages the handlers build are messages.                           *)
LEMMA MessageTypes ==
    /\ Shutdown \in Message
    /\ \A type \in 0..31 : Unknown(type) \in Message
    /\ \A type \in Bytes \ {\hA1, \hA3}, sub \in Bytes : Plain(type, sub) \in Message
    /\ \A online \in BOOLEAN, uids \in SUBSET Users, slots \in Nat :
          Presence(online, uids, slots) \in Message
    /\ \A uid \in Users : Name(uid) \in Message
    /\ \A rids \in SUBSET Nat : History(rids) \in Message
    /\ \A sub \in {0, 1}, src \in Users, rid \in Nat : Text(sub, src, rid) \in Message
    /\ \A type \in {\hA7, \hA8, \hA9, \hAA}, sub \in 0..2, src, dst \in Users :
          File(type, sub, src, dst) \in Message
<1>1. \A type \in Bytes \ {\hA1, \hA3}, sub \in Bytes : Plain(type, sub) \in Message
  BY DEF Message, Plain
<1>2. Shutdown \in Message
  BY <1>1 DEF Shutdown, Bytes
<1>3. \A type \in 0..31 : Unknown(type) \in Message
  BY <1>1 DEF Unknown, Bytes
<1>4. \A online \in BOOLEAN, uids \in SUBSET Users, slots \in Nat :
         Presence(online, uids, slots) \in Message
  BY DEF Message, Presence
<1>5. \A uid \in Users : Name(uid) \in Message
  BY DEF Message, Name
<1>6. \A rids \in SUBSET Nat : History(rids) \in Message
  BY DEF Message, History
<1>7. \A sub \in {0, 1}, src \in Users, rid \in Nat : Text(sub, src, rid) \in Message
  BY DEF Message, Text
<1>8. \A type \in {\hA7, \hA8, \hA9, \hAA}, sub \in 0..2, src, dst \in Users :
         File(type, sub, src, dst) \in Message
  BY DEF Message, File
<1> QED BY <1>1, <1>2, <1>3, <1>4, <1>5, <1>6, <1>7, <1>8

-----------------------------------------------------------------------------
(* The maps.                                                               *)

(* push_online and push_userlist write to queues of logged-in connections, *)
(* whatever maps they are given.                                           *)
LEMMA PushOnlineGood ==
    ASSUME NEW o, Good(o), NEW f2u \in [Fd -> Users \cup {None}],
           NEW u \in Users, NEW online \in BOOLEAN
    PROVE  LET p == PushOnline(o, f2u, u, online)
           IN  Good(p) /\ OnlyTo(LoggedIn(f2u), o, p)
<1>1. Presence(online, {u}, 1) \in Message
  BY MessageTypes
<1>2. LoggedIn(f2u) \in SUBSET Fd
  BY DEF LoggedIn
<1> QED BY <1>1, <1>2, PushGood DEF PushOnline

(* The lengths push_userlist computes never wrap below zero when the user  *)
(* it answers is online, as it is since parse_login sets the maps first.   *)
LEMMA PushUserlistGood ==
    ASSUME NEW o, Good(o), NEW u2f \in [Users -> Fd \cup {None}],
           NEW f \in Fd, NEW u \in Users, u2f[u] # None
    PROVE  LET p == PushUserlist(o, u2f, f, u)
           IN  Good(p) /\ OnlyTo({f}, o, p)
<1> DEFINE online == Online(u2f)
           listed == Users \ {u}
           on  == Presence(TRUE, listed \cap online, Cardinality(online) - 1)
           off == Presence(FALSE, listed \ online, Cardinality(Users) - Cardinality(online))
<1>1. online \subseteq Users /\ u \in online
  BY DEF Online
<1>2. /\ IsFiniteSet(online) /\ Cardinality(online) \in Nat
      /\ Cardinality(Users) \in Nat /\ Cardinality(online) <= Cardinality(Users)
  BY <1>1, FS_Subset, FS_CardinalityType
<1>3. Cardinality(online) # 0
  BY <1>1, <1>2, FS_EmptySet
<1> HIDE DEF online
<1>4. Cardinality(online) - 1 \in Nat /\ Cardinality(Users) - Cardinality(online) \in Nat
  BY <1>2, <1>3
<1>5. on \in Message /\ off \in Message
  BY <1>4, MessageTypes
<1> HIDE DEF on, off
<1> DEFINE first == Push(o, {f}, on)
<1>6. Good(first) /\ OnlyTo({f}, o, first)
  BY <1>5, PushGood
<1> HIDE DEF first
<1>7. Good(Push(first, {f}, off)) /\ OnlyTo({f}, first, Push(first, {f}, off))
  BY <1>5, <1>6, PushGood
<1>8. OnlyTo({f}, o, Push(first, {f}, off))
  BY <1>6, <1>7 DEF OnlyTo
<1> QED BY <1>7, <1>8 DEF PushUserlist, Userlist, first, on, off, online

-----------------------------------------------------------------------------
(* The invariant.                                                          *)

TablesOK ==
    /\ login \in [Users -> LoginRow]
    /\ record \in Seq(RecordRow)
    /\ filetrans \in SUBSET FiletransRow

ExternalSites == {"push_online", "userlist", "logged_in", "transfile", "killed"}

LEMMA InitIInv == Init => IInv
<1> SUFFICES ASSUME Init PROVE IInv
  OBVIOUS
<1>1. out \in OutType
  BY DEF Init, Empty, OutType
<1>2. TypeOK
  BY <1>1 DEF Init, TypeOK, OutType, Nobody, Phases
<1>3. SessionsInverse /\ SessionIsOwned
  BY DEF Init, SessionsInverse, SessionIsOwned, Nobody
<1>4. WritableIffQueued /\ ClosedIsClean /\ InternalAsserts
  BY DEF Init, WritableIffQueued, ClosedIsClean, InternalAsserts, Empty, Nobody
<1> QED BY <1>2, <1>3, <1>4 DEF IInv

(* A daemon that stops leaves nothing in memory that could be wrong.       *)
LEMMA AbortIInv ==
    ASSUME NEW site \in ExternalSites, Abort(site), TablesOK'
    PROVE  IInv'
<1>1. out' \in OutType
  BY DEF Abort, Empty, OutType
<1>2. TypeOK'
  BY <1>1 DEF Abort, TypeOK, TablesOK, OutType, Nobody, Phases, Sites, ExternalSites
<1>3. SessionsInverse' /\ SessionIsOwned'
  BY DEF Abort, SessionsInverse, SessionIsOwned, Nobody
<1>4. WritableIffQueued' /\ ClosedIsClean' /\ InternalAsserts'
  BY DEF Abort, WritableIffQueued, ClosedIsClean, InternalAsserts, Empty, Nobody,
         ExternalSites
<1> QED BY <1>2, <1>3, <1>4 DEF IInv

LEMMA IInvGood == IInv => Good(out)
BY DEF IInv, TypeOK, WritableIffQueued, Good, OutType

(* A handler that leaves the maps alone and writes to open connections.    *)
LEMMA WriteIInv ==
    ASSUME IInv, NEW fds \in SUBSET Fd, \A g \in fds : phase[g] # "closed",
           Good(out'), OnlyTo(fds, out, out'),
           UNCHANGED <<daemon, uid_to_fd, fd_to_uid, owner>>,
           phase' \in [Fd -> Phases],
           \A g \in Fd : \/ phase'[g] = phase[g]
                         \/ phase[g] # "closed" /\ phase'[g] \in {"asking", "in"},
           view' \in [Fd -> SUBSET Users], mark' \in [Fd -> Nat],
           TablesOK'
    PROVE  IInv'
<1>1. TypeOK'
  BY DEF IInv, TypeOK, TablesOK, Good, OutType
<1>2. SessionsInverse'
  BY DEF IInv, SessionsInverse
<1>3. WritableIffQueued'
  BY DEF Good, WritableIffQueued
<1>4. ClosedIsClean'
  <2> SUFFICES ASSUME NEW f \in Fd, phase'[f] = "closed"
               PROVE  /\ out'.que[f] = << >> /\ f \notin out'.wfds
                      /\ fd_to_uid'[f] = None /\ owner'[f] = None
    BY DEF ClosedIsClean
  <2>1. phase[f] = "closed" /\ f \notin fds
    OBVIOUS
  <2> QED BY <2>1 DEF OnlyTo, IInv, ClosedIsClean
<1>5. SessionIsOwned'
  BY DEF IInv, SessionIsOwned
<1>6. InternalAsserts'
  BY DEF IInv, InternalAsserts
<1> QED BY <1>1, <1>2, <1>3, <1>4, <1>5, <1>6 DEF IInv

(* The same when nothing else changes but one reply to the caller.         *)
LEMMA RespondIInv ==
    ASSUME IInv, NEW f \in Fd, phase[f] # "closed", NEW m \in Message, Respond(f, m),
           UNCHANGED <<daemon, uid_to_fd, fd_to_uid, owner, view, mark>>,
           phase' = phase \/ phase' = [phase EXCEPT ![f] = "asking"],
           TablesOK'
    PROVE  IInv'
<1>1. Good(out') /\ OnlyTo({f}, out, out')
  BY IInvGood, PushGood DEF Respond
<1>2. phase \in [Fd -> Phases] /\ view \in [Fd -> SUBSET Users] /\ mark \in [Fd -> Nat]
  BY DEF IInv, TypeOK
<1>3. phase' \in [Fd -> Phases]
  BY <1>2 DEF Phases
<1>4. \A g \in Fd : \/ phase'[g] = phase[g]
                    \/ phase[g] # "closed" /\ phase'[g] \in {"asking", "in"}
  BY <1>2
<1> QED BY <1>1, <1>2, <1>3, <1>4, WriteIInv

-----------------------------------------------------------------------------
(* One lemma per action.                                                   *)

LEMMA TablesUnchanged ==
    ASSUME IInv, UNCHANGED tables
    PROVE  TablesOK'
BY DEF IInv, TypeOK, TablesOK, tables

LEMMA AcceptIInv ==
    ASSUME IInv, NEW f \in Fd, Accept(f)
    PROVE  IInv'
<1>1. TypeOK'
  BY DEF IInv, TypeOK, Accept, memory, tables, Phases
<1>2. SessionsInverse' /\ WritableIffQueued' /\ InternalAsserts'
  BY DEF IInv, SessionsInverse, WritableIffQueued, InternalAsserts, Accept, memory
<1>3. ClosedIsClean'
  BY DEF IInv, TypeOK, ClosedIsClean, Accept, memory
<1>4. SessionIsOwned'
  BY DEF IInv, TypeOK, ClosedIsClean, SessionIsOwned, Accept, memory
<1> QED BY <1>1, <1>2, <1>3, <1>4 DEF IInv

LEMMA LoginTurnedDownIInv ==
    ASSUME IInv, NEW f \in Fd, LoginFault(f) \/ LoginRefused(f)
    PROVE  IInv'
<1>1. phase[f] # "closed"
  BY DEF LoginFault, LoginRefused, LoginRequest
<1>2. TablesOK'
  BY TablesUnchanged DEF LoginFault, LoginRefused
<1>3. Unknown(\h10) \in Message /\ Plain(\h90, \hF0) \in Message
  BY MessageTypes DEF Bytes
<1> QED BY <1>1, <1>2, <1>3, RespondIInv DEF LoginFault, LoginRefused

(* Of the asserts in parse_login only the one in push_online can fail.     *)
LEMMA LoginAbortsIInv ==
    ASSUME IInv, NEW f \in Fd, LoginAborts(f)
    PROVE  IInv'
<1>1. PICK u \in Users :
         \/ \E site \in Sites : LoginFails(f, u, site) /\ Abort(site)
         \/ Abort("userlist")
  BY DEF LoginAborts
<1>2. TablesOK'
  BY TablesUnchanged DEF LoginAborts
<1>3. ASSUME NEW site \in Sites, LoginFails(f, u, site)
      PROVE  site = "push_online"
  <2>1. fd_to_uid[f] = None
    BY DEF LoginAborts, LoginRequest, IInv, SessionIsOwned
  <2>2. \A g \in Kicked(u) : g \in Fd /\ fd_to_uid[g] = u
    BY DEF Kicked, IInv, SessionsInverse, TypeOK
  <2> QED BY <1>3, <2>1, <2>2 DEF LoginFails, Remaining
<1>4. \E site \in ExternalSites : Abort(site)
  BY <1>1, <1>3 DEF ExternalSites
<1> QED BY <1>2, <1>4, AbortIInv

LEMMA LoginAcceptedMaps ==
    ASSUME IInv, NEW f \in Fd, NEW u \in Users, LoginAccepted(f, u)
    PROVE  /\ fd_to_uid[f] = None
           /\ Kicked(u) \in SUBSET Fd
           /\ \A g \in Kicked(u) : uid_to_fd[u] = g /\ fd_to_uid[g] = u
           /\ Remaining(u) \in [Fd -> Users \cup {None}]
           /\ \A g \in Fd : Remaining(u)[g] # u
           /\ uid_to_fd' \in [Users -> Fd \cup {None}] /\ uid_to_fd'[u] = f
           /\ fd_to_uid' \in [Fd -> Users \cup {None}]
           /\ SessionsInverse'
<1>1. /\ uid_to_fd \in [Users -> Fd \cup {None}]
      /\ fd_to_uid \in [Fd -> Users \cup {None}]
      /\ SessionsInverse
  BY DEF IInv, TypeOK
<1>2. fd_to_uid[f] = None
  BY DEF LoginAccepted, LoginRequest, IInv, SessionIsOwned
<1>3. /\ Kicked(u) \in SUBSET Fd
      /\ \A g \in Kicked(u) : uid_to_fd[u] = g /\ fd_to_uid[g] = u
  BY <1>1 DEF Kicked, SessionsInverse
<1>4. Remaining(u) \in [Fd -> Users \cup {None}]
  BY <1>1 DEF Remaining
<1>5. \A g \in Fd : Remaining(u)[g] # u
  BY DEF LoginAccepted, LoginFails, Sites
<1>6. /\ uid_to_fd' = [uid_to_fd EXCEPT ![u] = f]
      /\ fd_to_uid' = [Remaining(u) EXCEPT ![f] = u]
  BY DEF LoginAccepted
<1>7. /\ uid_to_fd' \in [Users -> Fd \cup {None}] /\ uid_to_fd'[u] = f
      /\ fd_to_uid' \in [Fd -> Users \cup {None}]
  BY <1>1, <1>4, <1>6
<1>8. SessionsInverse'
  <2> SUFFICES ASSUME NEW v \in Users, NEW g \in Fd
               PROVE  uid_to_fd'[v] = g <=> fd_to_uid'[g] = v
    BY DEF SessionsInverse
  <2>1. CASE v = u
    BY <2>1, <1>1, <1>4, <1>5, <1>6
  <2>2. CASE v # u /\ g = f
    BY <2>2, <1>1, <1>2, <1>4, <1>6 DEF SessionsInverse
  <2>3. CASE v # u /\ g # f
    <3>1. fd_to_uid'[g] = IF g \in Kicked(u) THEN None ELSE fd_to_uid[g]
      BY <2>3, <1>4, <1>6 DEF Remaining
    <3>2. uid_to_fd'[v] = uid_to_fd[v]
      BY <2>3, <1>1, <1>6
    <3> QED BY <2>3, <3>1, <3>2, <1>1, <1>3 DEF SessionsInverse
  <2> QED BY <2>1, <2>2, <2>3
<1> QED BY <1>2, <1>3, <1>4, <1>5, <1>7, <1>8

LEMMA LoginOutGood ==
    ASSUME IInv, NEW f \in Fd, NEW u \in Users, LoginAccepted(f, u)
    PROVE  /\ Good(out')
           /\ OnlyTo(Kicked(u) \cup {f} \cup LoggedIn(Remaining(u)), out, out')
<1> DEFINE kicking == Push(out, Kicked(u), Shutdown)
           replied == Push(kicking, {f}, LoginReply(u))
           told    == PushOnline(replied, Remaining(u), u, TRUE)
           list    == PushUserlist(told, uid_to_fd', f, u)
<1>1. Good(kicking) /\ OnlyTo(Kicked(u), out, kicking)
  BY IInvGood, PushGood, LoginAcceptedMaps, MessageTypes
<1> HIDE DEF kicking
<1>2. LoginReply(u) \in Message
  BY MessageTypes DEF LoginReply, Bytes
<1>3. Good(replied) /\ OnlyTo({f}, kicking, replied)
  BY <1>1, <1>2, PushGood
<1> HIDE DEF replied
<1>4. Good(told) /\ OnlyTo(LoggedIn(Remaining(u)), replied, told)
  BY <1>3, PushOnlineGood, LoginAcceptedMaps
<1> HIDE DEF told
<1>5. Good(list) /\ OnlyTo({f}, told, list)
  <2>1. uid_to_fd'[u] # None
    BY LoginAcceptedMaps
  <2> QED BY <1>4, <2>1, PushUserlistGood, LoginAcceptedMaps
<1> HIDE DEF list
<1>6. out' = list
  BY DEF LoginAccepted, LoginOut, list, told, replied, kicking
<1>7. OnlyTo(Kicked(u) \cup {f} \cup LoggedIn(Remaining(u)), out, list)
  BY <1>1, <1>3, <1>4, <1>5 DEF OnlyTo
<1> QED BY <1>5, <1>6, <1>7

LEMMA LoginAcceptedIInv ==
    ASSUME IInv, NEW f \in Fd, NEW u \in Users, LoginAccepted(f, u)
    PROVE  IInv'
<1>1. TypeOK'
  <2>1. TablesOK'
    BY TablesUnchanged DEF LoginAccepted
  <2>2. Len(record) \in Nat
    BY DEF IInv, TypeOK
  <2>3. phase' \in [Fd -> Phases] /\ mark' \in [Fd -> Nat] /\ owner' \in [Fd -> Users \cup {None}]
    BY <2>2 DEF LoginAccepted, IInv, TypeOK, Phases
  <2> QED BY <2>1, <2>3, LoginAcceptedMaps, LoginOutGood
          DEF LoginAccepted, IInv, TypeOK, TablesOK, Good, OutType
<1>2. SessionsInverse'
  BY LoginAcceptedMaps
<1>3. WritableIffQueued'
  BY LoginOutGood DEF Good, WritableIffQueued
<1>4. \A g \in Fd : g # f => phase'[g] = phase[g] /\ owner'[g] = owner[g]
  BY DEF LoginAccepted, IInv, TypeOK
<1>5. \A g \in Fd : g # f => fd_to_uid'[g] \in {fd_to_uid[g], None}
  BY LoginAcceptedMaps DEF LoginAccepted, Remaining
<1>6. phase'[f] = "asking" /\ owner'[f] = u /\ fd_to_uid'[f] = u
  <2>1. phase'[f] = "asking" /\ owner'[f] = u
    BY DEF LoginAccepted, IInv, TypeOK
  <2>2. fd_to_uid'[f] = u
    BY LoginAcceptedMaps DEF SessionsInverse
  <2> QED BY <2>1, <2>2
<1>7. ClosedIsClean'
  <2> SUFFICES ASSUME NEW g \in Fd, phase'[g] = "closed"
               PROVE  /\ out'.que[g] = << >> /\ g \notin out'.wfds
                      /\ fd_to_uid'[g] = None /\ owner'[g] = None
    BY DEF ClosedIsClean
  <2>1. g # f /\ phase[g] = "closed"
    BY <1>4, <1>6
  <2>2. fd_to_uid[g] = None /\ owner[g] = None /\ out.que[g] = << >> /\ g \notin out.wfds
    BY <2>1 DEF IInv, ClosedIsClean
  <2>3. g \notin Kicked(u) /\ g \notin LoggedIn(Remaining(u))
    BY <2>2, LoginAcceptedMaps DEF LoggedIn, Remaining
  <2> QED BY <1>4, <1>5, <2>1, <2>2, <2>3, LoginOutGood DEF OnlyTo
<1>8. SessionIsOwned'
  BY <1>4, <1>5, <1>6 DEF IInv, SessionIsOwned
<1>9. InternalAsserts'
  BY DEF IInv, InternalAsserts, LoginAccepted
<1> QED BY <1>1, <1>2, <1>3, <1>7, <1>8, <1>9 DEF IInv

(* parse_username, and every handler when it only replies.                 *)
LEMMA ParseUsernameIInv ==
    ASSUME IInv, NEW f \in Fd, NEW uid \in Users \cup Strangers, ParseUsername(f, uid)
    PROVE  IInv'
<1>1. PICK ok \in QueryOk :
         Respond(f, IF ~ok THEN Unknown(\h11)
                    ELSE IF CheckUid(uid) THEN Name(uid) ELSE Plain(\h91, \hF0))
  BY DEF ParseUsername
<1>2. PICK m \in Message : Respond(f, m)
  <2>1. Unknown(\h11) \in Message /\ Plain(\h91, \hF0) \in Message
    BY MessageTypes DEF Bytes
  <2>2. CheckUid(uid) => Name(uid) \in Message
    BY MessageTypes DEF CheckUid
  <2> QED BY <1>1, <2>1, <2>2
<1>3. phase[f] # "closed" /\ TablesOK'
  BY TablesUnchanged DEF ParseUsername, Request
<1> QED BY <1>2, <1>3, RespondIInv DEF ParseUsername, client

LEMMA ParseChatrecordIInv ==
    ASSUME IInv, NEW f \in Fd, NEW uid \in Uids, ParseChatrecord(f, uid)
    PROVE  IInv'
<1>1. phase[f] # "closed" /\ TablesOK'
  BY TablesUnchanged DEF ParseChatrecord, Request
<1>2. CASE NotLoggedIn(f)
  BY <1>1, <1>2, AbortIInv DEF NotLoggedIn, ExternalSites
<1>3. CASE /\ \E my_uid \in Users :
                LoggedInAs(f, my_uid) /\ ChatrecordAnswer(f, my_uid, uid)
           /\ UNCHANGED <<daemon, uid_to_fd, fd_to_uid, client>>
  <2>1. PICK my_uid \in Users : ChatrecordAnswer(f, my_uid, uid)
    BY <1>3
  <2>2. \A cnt : SerhMessage(record, my_uid, uid, cnt) \in SUBSET Nat
    BY DEF SerhMessage, IInv, TypeOK
  <2>3. /\ Unknown(\h12) \in Message /\ Plain(\h92, \hF0) \in Message
        /\ \A cnt : History(SerhMessage(record, my_uid, uid, cnt)) \in Message
    BY <2>2, MessageTypes DEF Bytes
  <2>4. PICK m \in Message : Respond(f, m)
    BY <2>1, <2>3 DEF ChatrecordAnswer
  <2> QED BY <1>1, <1>3, <2>4, RespondIInv DEF client
<1> QED BY <1>2, <1>3 DEF ParseChatrecord

LEMMA ParseUnknownIInv ==
    ASSUME IInv, NEW f \in Fd, NEW type \in {\h10, \h13}, ParseUnknown(f, type)
    PROVE  IInv'
<1>1. phase[f] # "closed" /\ TablesOK'
  BY TablesUnchanged DEF ParseUnknown, Request, LoginRequest
<1>2. Unknown(type) \in Message
  BY MessageTypes
<1> QED BY <1>1, <1>2, RespondIInv DEF ParseUnknown

(* The session a private text or a file goes to is over an open connection.*)
LEMMA OnlineIsOpen ==
    ASSUME IInv, NEW u \in Users, u \in Online(uid_to_fd)
    PROVE  uid_to_fd[u] \in Fd /\ phase[uid_to_fd[u]] # "closed"
<1>1. uid_to_fd[u] # None /\ uid_to_fd[u] \in Fd
  BY DEF Online, IInv, TypeOK
<1>2. fd_to_uid[uid_to_fd[u]] = u
  BY <1>1 DEF IInv, SessionsInverse
<1> QED BY <1>1, <1>2 DEF IInv, SessionIsOwned

LEMMA LoggedInIsOpen ==
    ASSUME IInv
    PROVE  \A g \in LoggedIn(fd_to_uid) : g \in Fd /\ phase[g] # "closed"
BY DEF IInv, SessionIsOwned, LoggedIn

LEMMA SaveAndForwardGood ==
    ASSUME IInv, NEW f \in Fd, phase[f] # "closed", NEW my_uid \in Users,
           NEW dst_uid \in Uids, SaveAndForward(f, my_uid, dst_uid)
    PROVE  /\ record' \in Seq(RecordRow)
           /\ \E fds \in SUBSET Fd :
                /\ \A g \in fds : phase[g] # "closed"
                /\ Good(out') /\ OnlyTo(fds, out, out')
<1> DEFINE exist  == dst_uid = ALL \/ CheckUid(dst_uid)
           online == dst_uid = ALL \/ dst_uid \in Online(uid_to_fd)
           replied == Push(out, {f}, TextReply(exist, online))
           rid == Len(record')
<1>1. record \in Seq(RecordRow)
  BY DEF IInv, TypeOK
<1>2. record' \in Seq(RecordRow) /\ rid \in Nat
  BY <1>1 DEF SaveAndForward, SaveMessage, RecordRow
<1>3. TextReply(exist, online) \in Message
  BY MessageTypes DEF TextReply, Bytes
<1>4. Good(replied) /\ OnlyTo({f}, out, replied)
  BY <1>3, IInvGood, PushGood
<1>5. out' = IF online THEN PushTextmsg(replied, fd_to_uid, uid_to_fd, my_uid, dst_uid, rid)
                      ELSE replied
  BY DEF SaveAndForward
<1> HIDE DEF replied, rid
<1>6. Text(1, my_uid, rid) \in Message /\ Text(0, my_uid, rid) \in Message
  BY <1>2, MessageTypes
<1>7. CASE ~online
  BY <1>2, <1>4, <1>5, <1>7
<1>8. CASE dst_uid = ALL
  <2> DEFINE fds == {g \in LoggedIn(fd_to_uid) : fd_to_uid[g] # my_uid}
  <2>1. fds \in SUBSET Fd /\ \A g \in fds : phase[g] # "closed"
    BY LoggedInIsOpen
  <2>2. out' = Push(replied, fds, Text(1, my_uid, rid))
    BY <1>5, <1>8 DEF PushTextmsg
  <2> HIDE DEF fds
  <2>3. Good(out') /\ OnlyTo(fds, replied, out')
    BY <1>4, <1>6, <2>1, <2>2, PushGood
  <2>4. OnlyTo(fds \cup {f}, out, out')
    BY <1>4, <2>3 DEF OnlyTo
  <2>5. fds \cup {f} \in SUBSET Fd /\ \A g \in fds \cup {f} : phase[g] # "closed"
    BY <2>1
  <2> QED BY <1>2, <2>3, <2>4, <2>5
<1>9. CASE dst_uid # ALL /\ dst_uid \in Online(uid_to_fd)
  <2>1. dst_uid \in Users
    BY <1>9 DEF Online
  <2> DEFINE dst_fd == uid_to_fd[dst_uid]
  <2>2. dst_fd \in Fd /\ phase[dst_fd] # "closed"
    BY <1>9, <2>1, OnlineIsOpen
  <2>3. out' = Push(replied, {dst_fd}, Text(0, my_uid, rid))
    BY <1>5, <1>9 DEF PushTextmsg
  <2> HIDE DEF dst_fd
  <2>4. Good(out') /\ OnlyTo({dst_fd}, replied, out')
    BY <1>4, <1>6, <2>2, <2>3, PushGood
  <2>5. OnlyTo({dst_fd, f}, out, out')
    BY <1>4, <2>4 DEF OnlyTo
  <2>6. {dst_fd, f} \in SUBSET Fd /\ \A g \in {dst_fd, f} : phase[g] # "closed"
    BY <2>2
  <2> QED BY <1>2, <2>4, <2>5, <2>6
<1> QED BY <1>7, <1>8, <1>9

LEMMA ParseTextmsgIInv ==
    ASSUME IInv, NEW f \in Fd, NEW dst_uid \in Uids, ParseTextmsg(f, dst_uid)
    PROVE  IInv'
<1>1. phase[f] # "closed"
  BY DEF ParseTextmsg, Request
<1>2. CASE NotLoggedIn(f) /\ UNCHANGED tables
  BY <1>2, TablesUnchanged, AbortIInv DEF NotLoggedIn, ExternalSites
<1>3. CASE /\ \E my_uid \in Users : SaveAndForward(f, my_uid, dst_uid)
           /\ UNCHANGED <<daemon, uid_to_fd, fd_to_uid, login, filetrans, client>>
  <2>1. PICK my_uid \in Users : SaveAndForward(f, my_uid, dst_uid)
    BY <1>3
  <2>2. PICK fds \in SUBSET Fd :
           (\A g \in fds : phase[g] # "closed") /\ Good(out') /\ OnlyTo(fds, out, out')
    BY <1>1, <2>1, SaveAndForwardGood
  <2>3. TablesOK'
    BY <1>1, <1>3, <2>1, SaveAndForwardGood DEF TablesOK, IInv, TypeOK
  <2>4. /\ phase' = phase /\ phase \in [Fd -> Phases]
        /\ view' = view /\ view \in [Fd -> SUBSET Users]
        /\ mark' = mark /\ mark \in [Fd -> Nat]
    BY <1>3 DEF IInv, TypeOK, client
  <2> QED BY <1>3, <2>2, <2>3, <2>4, WriteIInv DEF client
<1>4. CASE /\ Respond(f, Unknown(\h13)) /\ UNCHANGED record
           /\ UNCHANGED <<daemon, uid_to_fd, fd_to_uid, login, filetrans, client>>
  <2>1. Unknown(\h13) \in Message
    BY MessageTypes
  <2>2. TablesOK'
    BY <1>4, TablesUnchanged DEF tables
  <2> QED BY <1>1, <1>4, <2>1, <2>2, RespondIInv DEF client
<1> QED BY <1>2, <1>3, <1>4 DEF ParseTextmsg

LEMMA ParseChangePwdIInv ==
    ASSUME IInv, NEW f \in Fd, NEW old \in Pwd, NEW new \in Pwd, ParseChangePwd(f, old, new)
    PROVE  IInv'
<1>1. phase[f] # "closed"
  BY DEF ParseChangePwd, Request
<1>2. CASE NotLoggedIn(f) /\ UNCHANGED tables
  BY <1>2, TablesUnchanged, AbortIInv DEF NotLoggedIn, ExternalSites
<1>3. ASSUME NEW my_uid \in Users, NEW granted \in BOOLEAN,
             login' = IF granted THEN SetPasswd(login, my_uid, new) ELSE login,
             Respond(f, Plain(\h95, IF granted THEN 0 ELSE \hF0)),
             UNCHANGED <<daemon, uid_to_fd, fd_to_uid, record, filetrans, client>>
      PROVE  IInv'
  <2>1. TablesOK'
    BY <1>3 DEF TablesOK, IInv, TypeOK, SetPasswd, LoginRow
  <2>2. Plain(\h95, IF granted THEN 0 ELSE \hF0) \in Message
    BY MessageTypes DEF Bytes
  <2> QED BY <1>1, <1>3, <2>1, <2>2, RespondIInv DEF client
<1>4. CASE /\ \E my_uid \in Users, ok \in QueryOk :
                /\ LoggedInAs(f, my_uid)
                /\ \E legal \in UpdateLegal(login, my_uid, old, DbFaults) :
                     LET succeed == legal /\ new # old /\ ok
                     IN  /\ login' = IF succeed THEN SetPasswd(login, my_uid, new)
                                                ELSE login
                         /\ Respond(f, Plain(\h95, IF succeed THEN 0 ELSE \hF0))
           /\ UNCHANGED <<daemon, uid_to_fd, fd_to_uid, record, filetrans, client>>
  <2>1. PICK my_uid \in Users, ok \in QueryOk :
           \E legal \in UpdateLegal(login, my_uid, old, DbFaults) :
              LET succeed == legal /\ new # old /\ ok
              IN  /\ login' = IF succeed THEN SetPasswd(login, my_uid, new) ELSE login
                  /\ Respond(f, Plain(\h95, IF succeed THEN 0 ELSE \hF0))
    BY <1>4
  <2>2. PICK legal \in UpdateLegal(login, my_uid, old, DbFaults) :
           LET succeed == legal /\ new # old /\ ok
           IN  /\ login' = IF succeed THEN SetPasswd(login, my_uid, new) ELSE login
               /\ Respond(f, Plain(\h95, IF succeed THEN 0 ELSE \hF0))
    BY <2>1
  <2> DEFINE yes == legal /\ new # old /\ ok
  <2>3. yes \in BOOLEAN
    OBVIOUS
  <2> QED BY <1>3, <1>4, <2>2, <2>3
<1> QED BY <1>2, <1>4 DEF ParseChangePwd

(* What every file request does, given that its query keeps table filetrans*)
(* well formed.                                                            *)
LEMMA TransfileIInv ==
    ASSUME IInv, NEW op, NEW f \in Fd, NEW type \in {\hA7, \hA8, \hA9, \hAA},
           NEW sub \in 0..2, NEW dst_uid \in Users, NEW updated,
           \A u \in Users : updated[u] \in SUBSET FiletransRow,
           Transfile(op, f, type, sub, dst_uid, updated)
    PROVE  IInv'
<1>1. CASE NotLoggedIn(f) /\ UNCHANGED tables
  BY <1>1, TablesUnchanged, AbortIInv DEF NotLoggedIn, ExternalSites
<1>2. ASSUME NEW my_uid \in Users, NEW ok \in QueryOk,
             filetrans' = IF ok THEN updated[my_uid] ELSE filetrans,
             \/ /\ dst_uid \in Online(uid_to_fd)
                /\ out' = PushTransfile(out, uid_to_fd, type, sub, my_uid, dst_uid)
                /\ UNCHANGED <<daemon, uid_to_fd, fd_to_uid, client>>
             \/ dst_uid \notin Online(uid_to_fd) /\ Abort("transfile"),
             UNCHANGED <<login, record>>
      PROVE  IInv'
  <2>1. TablesOK'
    <3>1. filetrans' = updated[my_uid] \/ filetrans' = filetrans
      BY <1>2
    <3> QED BY <1>2, <3>1 DEF TablesOK, IInv, TypeOK
  <2>2. CASE Abort("transfile")
    BY <2>1, <2>2, AbortIInv DEF ExternalSites
  <2>3. CASE /\ dst_uid \in Online(uid_to_fd)
             /\ out' = PushTransfile(out, uid_to_fd, type, sub, my_uid, dst_uid)
             /\ UNCHANGED <<daemon, uid_to_fd, fd_to_uid, client>>
    <3> DEFINE dst_fd == uid_to_fd[dst_uid]
    <3>1. dst_fd \in Fd /\ phase[dst_fd] # "closed"
      BY <2>3, OnlineIsOpen
    <3>2. File(type, sub, my_uid, dst_uid) \in Message
      BY MessageTypes
    <3>3. Good(out') /\ OnlyTo({dst_fd}, out, out')
      BY <2>3, <3>1, <3>2, IInvGood, PushGood DEF PushTransfile
    <3>4. /\ phase' = phase /\ phase \in [Fd -> Phases]
          /\ view' = view /\ view \in [Fd -> SUBSET Users]
          /\ mark' = mark /\ mark \in [Fd -> Nat]
      BY <2>3 DEF IInv, TypeOK, client
    <3> HIDE DEF dst_fd
    <3>5. {dst_fd} \in SUBSET Fd /\ \A g \in {dst_fd} : phase[g] # "closed"
      BY <3>1
    <3> QED BY <2>1, <2>3, <3>3, <3>4, <3>5, WriteIInv DEF client
  <2> QED BY <1>2, <2>2, <2>3
<1>3. CASE /\ \E my_uid \in Users, ok \in QueryOk :
                /\ LoggedInAs(f, my_uid)
                /\ filetrans' = IF ok THEN updated[my_uid] ELSE filetrans
                /\ \/ /\ dst_uid \in Online(uid_to_fd)
                      /\ out' = PushTransfile(out, uid_to_fd, type, sub, my_uid, dst_uid)
                      /\ UNCHANGED <<daemon, uid_to_fd, fd_to_uid, client>>
                   \/ /\ dst_uid \notin Online(uid_to_fd)
                      /\ Abort("transfile")
           /\ UNCHANGED <<login, record>>
  BY <1>2, <1>3
<1> QED BY <1>1, <1>3 DEF Transfile

LEMMA FileRequestsIInv ==
    ASSUME IInv, NEW f \in Fd, NEW dst_uid \in Users
    PROVE  /\ \A tid, siz \in 1..MaxFiles : ParseTransfileAskRc(f, dst_uid, tid, siz) => IInv'
           /\ \A permit \in BOOLEAN : ParseTransfileRepSc(f, dst_uid, permit) => IInv'
           /\ ParseTransfileData(f, dst_uid) => IInv'
           /\ \A siz \in 0..MaxFiles : ParseTransfileAck(f, dst_uid, siz) => IInv'
<1>1. filetrans \in SUBSET FiletransRow
  BY DEF IInv, TypeOK
<1>2. ASSUME NEW tid \in 1..MaxFiles, NEW siz \in 1..MaxFiles,
             ParseTransfileAskRc(f, dst_uid, tid, siz)
      PROVE  IInv'
  <2> DEFINE updated == [u \in Users |-> InsertFileRecord(filetrans, tid, u, dst_uid, siz)]
  <2>1. \A u \in Users : updated[u] \in SUBSET FiletransRow
    BY <1>1 DEF InsertFileRecord, FiletransRow
  <2>2. Transfile("ask", f, \hA7, 0, dst_uid, updated)
    BY <1>2 DEF ParseTransfileAskRc
  <2> HIDE DEF updated
  <2> QED BY <2>1, <2>2, TransfileIInv
<1>3. ASSUME NEW permit \in BOOLEAN, ParseTransfileRepSc(f, dst_uid, permit)
      PROVE  IInv'
  <2> DEFINE updated == [u \in Users |->
                           IF permit THEN PermitFileRecord(filetrans, dst_uid, u)
                                     ELSE DeleteFileRecord(filetrans, dst_uid, u)]
             sub == IF permit THEN 1 ELSE 2
  <2>1. \A u \in Users : updated[u] \in SUBSET FiletransRow
    <3>1. \A u \in Users : PermitFileRecord(filetrans, dst_uid, u) \in SUBSET FiletransRow
      BY <1>1 DEF PermitFileRecord, FiletransRow
    <3>2. \A u \in Users : DeleteFileRecord(filetrans, dst_uid, u) \in SUBSET FiletransRow
      BY <1>1 DEF DeleteFileRecord
    <3> QED BY <3>1, <3>2
  <2>2. Transfile("rep", f, \hA8, sub, dst_uid, updated)
    BY <1>3 DEF ParseTransfileRepSc
  <2>3. sub \in 0..2
    OBVIOUS
  <2> HIDE DEF updated, sub
  <2> QED BY <2>1, <2>2, <2>3, TransfileIInv
<1>4. ASSUME ParseTransfileData(f, dst_uid)
      PROVE  IInv'
  <2> DEFINE updated == [u \in Users |-> filetrans]
  <2>1. \A u \in Users : updated[u] \in SUBSET FiletransRow
    BY <1>1
  <2>2. Transfile("data", f, \hA9, 0, dst_uid, updated)
    BY <1>4 DEF ParseTransfileData
  <2> HIDE DEF updated
  <2> QED BY <2>1, <2>2, TransfileIInv
<1>5. ASSUME NEW siz \in 0..MaxFiles, ParseTransfileAck(f, dst_uid, siz)
      PROVE  IInv'
  <2> DEFINE updated == [u \in Users |-> UpdateFileRecord(filetrans, dst_uid, u, siz)]
  <2>1. \A u \in Users : updated[u] \in SUBSET FiletransRow
    BY <1>1 DEF UpdateFileRecord, FiletransRow
  <2>2. Transfile("ack", f, \hA9, 0, dst_uid, updated)
    BY <1>5 DEF ParseTransfileAck
  <2> HIDE DEF updated
  <2> QED BY <2>1, <2>2, TransfileIInv
<1> QED BY <1>2, <1>3, <1>4, <1>5

(* close_conn: neither of its asserts can fail, and nothing of the session *)
(* or the queue is left for the descriptor's next client.                  *)
LEMMA CloseConnMaps ==
    ASSUME IInv, NEW f \in Fd, CloseConn(f)
    PROVE  /\ \A site \in Sites : ~CloseConnFails(f, site)
           /\ fd_to_uid' = Unmapped(f) /\ Unmapped(f) \in [Fd -> Users \cup {None}]
           /\ uid_to_fd' = UnmappedUid(f) /\ uid_to_fd' \in [Users -> Fd \cup {None}]
           /\ SessionsInverse'
<1>1. /\ uid_to_fd \in [Users -> Fd \cup {None}]
      /\ fd_to_uid \in [Fd -> Users \cup {None}]
      /\ SessionsInverse
  BY DEF IInv, TypeOK
<1>2. Unmapped(f) \in [Fd -> Users \cup {None}]
  BY <1>1 DEF Unmapped
<1>3. ASSUME NEW site \in Sites, CloseConnFails(f, site)
      PROVE  FALSE
  <2>1. fd_to_uid[f] \in Users /\ uid_to_fd[fd_to_uid[f]] = f
    BY <1>1, <1>3 DEF CloseConnFails, SessionsInverse
  <2>2. PICK g \in Fd : Unmapped(f)[g] = fd_to_uid[f]
    BY <1>3, <2>1 DEF CloseConnFails
  <2>3. g # f /\ fd_to_uid[g] = fd_to_uid[f]
    BY <1>1, <2>1, <2>2 DEF Unmapped
  <2> QED BY <1>1, <2>1, <2>3 DEF SessionsInverse
<1>4. fd_to_uid' = Unmapped(f) /\ uid_to_fd' = UnmappedUid(f)
  BY <1>3 DEF CloseConn
<1>5. uid_to_fd' \in [Users -> Fd \cup {None}]
  BY <1>1, <1>4 DEF UnmappedUid
<1>6. SessionsInverse'
  BY <1>1, <1>4 DEF SessionsInverse, Unmapped, UnmappedUid
<1> QED BY <1>2, <1>3, <1>4, <1>5, <1>6

LEMMA DropGood ==
    ASSUME NEW o, Good(o), NEW f \in Fd
    PROVE  /\ Good(Drop(o, f)) /\ OnlyTo({f}, o, Drop(o, f))
           /\ Drop(o, f).que[f] = << >> /\ f \notin Drop(o, f).wfds
<1> DEFINE p == Drop(o, f)
<1>1. o.que \in [Fd -> Seq(Message)] /\ o.wfds \in SUBSET Fd
  BY DEF Good, OutType
<1>2. /\ p.que = [o.que EXCEPT ![f] = << >>]
      /\ p.wfds = o.wfds \ {f}
      /\ p = [que |-> p.que, wfds |-> p.wfds]
  BY DEF Drop
<1>3. p.que \in [Fd -> Seq(Message)]
  BY <1>1, <1>2
<1>4. p \in OutType
  <2> HIDE DEF p
  <2> QED BY <1>1, <1>2, <1>3 DEF OutType
<1>5. \A g \in Fd : g \in p.wfds <=> p.que[g] # << >>
  BY <1>1, <1>2 DEF Good
<1>6. OnlyTo({f}, o, p) /\ p.que[f] = << >> /\ f \notin p.wfds
  BY <1>1, <1>2 DEF OnlyTo
<1> QED BY <1>4, <1>5, <1>6 DEF Good

LEMMA CloseConnIInv ==
    ASSUME IInv, NEW f \in Fd, CloseConn(f), TablesOK'
    PROVE  IInv'
<1> DEFINE told == IF fd_to_uid[f] = None THEN out
                   ELSE PushOnline(out, Unmapped(f), fd_to_uid[f], FALSE)
<1>1. /\ out' = Drop(told, f)
      /\ phase' = [phase EXCEPT ![f] = "closed"]
      /\ owner' = [owner EXCEPT ![f] = None]
      /\ view' = [view EXCEPT ![f] = {}]
      /\ mark' = [mark EXCEPT ![f] = 0]
      /\ UNCHANGED daemon
  BY CloseConnMaps DEF CloseConn
<1>2. Good(told) /\ OnlyTo(LoggedIn(Unmapped(f)), out, told)
  <2>1. CASE fd_to_uid[f] = None
    BY <2>1, IInvGood DEF OnlyTo
  <2>2. CASE fd_to_uid[f] # None
    <3>1. fd_to_uid[f] \in Users
      BY <2>2 DEF IInv, TypeOK
    <3> QED BY <2>2, <3>1, IInvGood, CloseConnMaps, PushOnlineGood
  <2> QED BY <2>1, <2>2
<1> HIDE DEF told
<1>3. /\ Good(out') /\ OnlyTo({f}, told, out')
      /\ out'.que[f] = << >> /\ f \notin out'.wfds
  BY <1>1, <1>2, DropGood
<1>4. /\ phase \in [Fd -> Phases] /\ owner \in [Fd -> Users \cup {None}]
      /\ view \in [Fd -> SUBSET Users] /\ mark \in [Fd -> Nat]
      /\ daemon \in {"up"} \cup Sites
  BY DEF IInv, TypeOK
<1>5. TypeOK'
  <2>1. phase' \in [Fd -> Phases]
    BY <1>1, <1>4 DEF Phases
  <2>2. /\ owner' \in [Fd -> Users \cup {None}]
        /\ view' \in [Fd -> SUBSET Users] /\ mark' \in [Fd -> Nat]
    BY <1>1, <1>4
  <2> QED BY <1>1, <1>3, <1>4, <2>1, <2>2, CloseConnMaps DEF TypeOK, TablesOK, Good, OutType
<1>6. SessionsInverse'
  BY CloseConnMaps
<1>7. WritableIffQueued'
  BY <1>3 DEF Good, WritableIffQueued
<1>8. fd_to_uid'[f] = None /\ \A g \in Fd : g # f => fd_to_uid'[g] = fd_to_uid[g]
  BY CloseConnMaps DEF Unmapped
<1>9. ClosedIsClean'
  <2> SUFFICES ASSUME NEW g \in Fd, phase'[g] = "closed"
               PROVE  /\ out'.que[g] = << >> /\ g \notin out'.wfds
                      /\ fd_to_uid'[g] = None /\ owner'[g] = None
    BY DEF ClosedIsClean
  <2>1. CASE g = f
    BY <1>1, <1>3, <1>4, <1>8, <2>1
  <2>2. CASE g # f
    <3>1. phase[g] = "closed" /\ owner'[g] = owner[g]
      BY <1>1, <1>4, <2>2
    <3>2. /\ out.que[g] = << >> /\ g \notin out.wfds
          /\ fd_to_uid[g] = None /\ owner[g] = None
      BY <3>1 DEF IInv, ClosedIsClean
    <3>3. g \notin LoggedIn(Unmapped(f))
      BY <1>8, <2>2, <3>2, CloseConnMaps DEF LoggedIn
    <3> QED BY <1>2, <1>3, <1>8, <2>2, <3>1, <3>2, <3>3 DEF OnlyTo
  <2> QED BY <2>1, <2>2
<1>10. SessionIsOwned'
  BY <1>1, <1>4, <1>8 DEF IInv, SessionIsOwned
<1>11. InternalAsserts'
  BY <1>1 DEF IInv, InternalAsserts
<1> QED BY <1>5, <1>6, <1>7, <1>9, <1>10, <1>11 DEF IInv

LEMMA LoseConnIInv ==
    ASSUME IInv, NEW f \in Fd, LoseConn(f)
    PROVE  IInv'
BY TablesUnchanged, CloseConnIInv DEF LoseConn

LEMMA PoppedGood ==
    ASSUME NEW o, Good(o), NEW f \in Fd, o.que[f] # << >>
    PROVE  Good(Popped(o, f)) /\ OnlyTo({f}, o, Popped(o, f))
<1> DEFINE p == Popped(o, f)
           rest == Tail(o.que[f])
<1>1. o.que \in [Fd -> Seq(Message)] /\ o.wfds \in SUBSET Fd
  BY DEF Good, OutType
<1>2. rest \in Seq(Message)
  BY <1>1
<1>3. /\ p.que = [o.que EXCEPT ![f] = rest]
      /\ p.wfds = IF rest = << >> THEN o.wfds \ {f} ELSE o.wfds
      /\ p = [que |-> p.que, wfds |-> p.wfds]
  BY DEF Popped
<1> HIDE DEF rest
<1>4. p.que \in [Fd -> Seq(Message)]
  BY <1>1, <1>2, <1>3
<1>5. f \in o.wfds
  BY DEF Good
<1>6. p \in OutType
  <2> HIDE DEF p
  <2> QED BY <1>1, <1>3, <1>4 DEF OutType
<1>7. \A g \in Fd : g \in p.wfds <=> p.que[g] # << >>
  BY <1>1, <1>3, <1>5 DEF Good
<1>8. OnlyTo({f}, o, p)
  BY <1>1, <1>3 DEF OnlyTo
<1> QED BY <1>6, <1>7, <1>8 DEF Good

(* send_msg: its assert on send_que holds, since _wfds says which queues   *)
(* are not empty.                                                          *)
LEMMA SendMsgIInv ==
    ASSUME IInv, NEW f \in Fd, SendMsg(f)
    PROVE  IInv'
<1>1. out.que[f] # << >>
  BY DEF SendMsg, IInv, WritableIffQueued
<1>2. phase[f] # "closed"
  BY <1>1 DEF IInv, ClosedIsClean
<1>3. TablesOK'
  BY TablesUnchanged DEF SendMsg
<1>4. CASE CloseConn(f)
  BY <1>3, <1>4, CloseConnIInv
<1> DEFINE m == Head(out.que[f])
<1>5. CASE out' = Popped(out, f) /\ Delivered(f, m) /\ UNCHANGED <<daemon, uid_to_fd, fd_to_uid>>
  <2>1. Good(out') /\ OnlyTo({f}, out, out')
    BY <1>1, <1>5, IInvGood, PoppedGood
  <2>2. /\ phase \in [Fd -> Phases] /\ view \in [Fd -> SUBSET Users] /\ mark \in [Fd -> Nat]
        /\ out.que[f] \in Seq(Message)
    BY DEF IInv, TypeOK
  <2>3. m \in Message
    BY <1>1, <2>2
  <2> HIDE DEF m
  <2>4. phase' \in [Fd -> Phases]
    BY <1>5, <2>2 DEF Delivered, Phases
  <2>5. \A g \in Fd : phase'[g] = phase[g] \/ (phase[g] # "closed" /\ phase'[g] \in {"asking", "in"})
    BY <1>2, <1>5, <2>2 DEF Delivered
  <2>6. ViewAfter(view[f], m) \in SUBSET Users
    <3>1. m.type = \hA1 => m.uids \in SUBSET Users
      BY <2>3 DEF Message
    <3> QED BY <2>2, <3>1 DEF ViewAfter
  <2>7. m.type = \hA3 => m.rid \in Nat
    BY <2>3 DEF Message
  <2>8. view' \in [Fd -> SUBSET Users] /\ mark' \in [Fd -> Nat]
    BY <1>5, <2>2, <2>6, <2>7 DEF Delivered
  <2>9. {f} \in SUBSET Fd /\ \A g \in {f} : phase[g] # "closed"
    BY <1>2
  <2> QED BY <1>3, <1>5, <2>1, <2>4, <2>5, <2>8, <2>9, WriteIInv DEF Delivered
<1> QED BY <1>1, <1>4, <1>5 DEF SendMsg

-----------------------------------------------------------------------------
(* The theorems.                                                           *)

LEMMA NextIInv == IInv /\ [Next]_vars => IInv'
<1> SUFFICES ASSUME IInv, [Next]_vars PROVE IInv'
  OBVIOUS
<1>1. CASE UNCHANGED vars
  BY <1>1 DEF vars, memory, tables, client, IInv, TypeOK, SessionsInverse,
              WritableIffQueued, ClosedIsClean, SessionIsOwned, InternalAsserts
<1>2. ASSUME NEW f \in Fd, Accept(f) PROVE IInv'
  BY <1>2, AcceptIInv
<1>3. ASSUME NEW f \in Fd, LoginFault(f) \/ LoginRefused(f) PROVE IInv'
  BY <1>3, LoginTurnedDownIInv
<1>4. ASSUME NEW f \in Fd, LoginAborts(f) PROVE IInv'
  BY <1>4, LoginAbortsIInv
<1>5. ASSUME NEW f \in Fd, NEW u \in Users, LoginAccepted(f, u) PROVE IInv'
  BY <1>5, LoginAcceptedIInv
<1>6. ASSUME NEW f \in Fd, Requests(f) PROVE IInv'
  <2>1. ASSUME NEW uid \in Users \cup Strangers, ParseUsername(f, uid) PROVE IInv'
    BY <2>1, ParseUsernameIInv
  <2>2. ASSUME NEW uid \in Uids, ParseChatrecord(f, uid) PROVE IInv'
    BY <2>2, ParseChatrecordIInv
  <2>3. ASSUME NEW uid \in Uids, ParseTextmsg(f, uid) PROVE IInv'
    BY <2>3, ParseTextmsgIInv
  <2>4. ASSUME NEW old \in Pwd, NEW new \in Pwd, ParseChangePwd(f, old, new) PROVE IInv'
    BY <2>4, ParseChangePwdIInv
  <2>5. ASSUME NEW type \in {\h10, \h13}, ParseUnknown(f, type) PROVE IInv'
    BY <2>5, ParseUnknownIInv
  <2> QED BY <1>6, <2>1, <2>2, <2>3, <2>4, <2>5, FileRequestsIInv DEF Requests
<1>7. ASSUME NEW f \in Fd, SendMsg(f) PROVE IInv'
  BY <1>7, SendMsgIInv
<1>8. ASSUME NEW f \in Fd, LoseConn(f) PROVE IInv'
  BY <1>8, LoseConnIInv
<1>9. CASE Kill
  BY <1>9, TablesUnchanged, AbortIInv DEF Kill, ExternalSites
<1>10. CASE Restart
  <2>1. UNCHANGED <<memory, tables, client>> /\ daemon' = "up"
    BY <1>10 DEF Restart
  <2> QED BY <2>1 DEF memory, tables, client, IInv, TypeOK, SessionsInverse,
              WritableIffQueued, ClosedIsClean, SessionIsOwned, InternalAsserts
<1> QED BY <1>1, <1>2, <1>3, <1>4, <1>5, <1>6, <1>7, <1>8, <1>9, <1>10 DEF Next

(* The inductive invariant holds in every state the server reaches.        *)
LEMMA SpecIInv == Spec => []IInv
BY InitIInv, NextIInv, PTL DEF Spec

(* Queues, maps and tables stay well formed through every handler of       *)
(* Connections.cpp: in particular the counts push_userlist computes never  *)
(* wrap below zero.                                                        *)
THEOREM TypeCorrect == Spec => []TypeOK
<1>1. IInv => TypeOK
  BY DEF IInv
<1> QED BY <1>1, SpecIInv, PTL

(* _uid_to_fd and _fd_to_uid are inverse to each other between any two     *)
(* handlers, through logins, takeovers, closings and crashes.              *)
THEOREM MapsAreInverse == Spec => []SessionsInverse
<1>1. IInv => SessionsInverse
  BY DEF IInv
<1> QED BY <1>1, SpecIInv, PTL

(* select() is asked about a connection's output exactly while its queue   *)
(* holds a message.                                                        *)
THEOREM WfdsFollowsQueues == Spec => []WritableIffQueued
<1>1. IInv => WritableIffQueued
  BY DEF IInv
<1> QED BY <1>1, SpecIInv, PTL

(* A descriptor the kernel hands out again carries nothing over from the   *)
(* connection that had it before.                                          *)
THEOREM ReuseIsClean == Spec => []ClosedIsClean
<1>1. IInv => ClosedIsClean
  BY DEF IInv
<1> QED BY <1>1, SpecIInv, PTL

(* No sequence of requests, disconnections and query failures makes the    *)
(* asserts of close_conn and send_msg fail, nor, when a user logs in, the  *)
(* two of parse_login on the maps.                                         *)
THEOREM AssertsHold == Spec => []InternalAsserts
<1>1. IInv => InternalAsserts
  BY DEF IInv
<1> QED BY <1>1, SpecIInv, PTL

-----------------------------------------------------------------------------
(* Connections implements Sessions.                                        *)

(* A request other than a login, and an output that does not end the       *)
(* connection, leave the sessions alone or end the daemon.                 *)
LEMMA RequestsMap ==
    ASSUME NEW f \in Fd, Requests(f)
    PROVE  UNCHANGED uid_to_fd \/ uid_to_fd' = [u \in Users |-> None]
<1>1. ASSUME NEW site, Abort(site) PROVE uid_to_fd' = [u \in Users |-> None]
  BY <1>1 DEF Abort
<1>2. ASSUME NEW op, NEW type, NEW sub, NEW dst_uid, NEW updated,
             Transfile(op, f, type, sub, dst_uid, updated)
      PROVE  UNCHANGED uid_to_fd \/ uid_to_fd' = [u \in Users |-> None]
  BY <1>1, <1>2 DEF Transfile, NotLoggedIn
<1>3. ASSUME NEW uid, ParseUsername(f, uid) PROVE UNCHANGED uid_to_fd
  BY <1>3 DEF ParseUsername
<1>4. ASSUME NEW uid, ParseChatrecord(f, uid)
      PROVE  UNCHANGED uid_to_fd \/ uid_to_fd' = [u \in Users |-> None]
  BY <1>1, <1>4 DEF ParseChatrecord, NotLoggedIn
<1>5. ASSUME NEW uid, ParseTextmsg(f, uid)
      PROVE  UNCHANGED uid_to_fd \/ uid_to_fd' = [u \in Users |-> None]
  BY <1>1, <1>5 DEF ParseTextmsg, NotLoggedIn
<1>6. ASSUME NEW old, NEW new, ParseChangePwd(f, old, new)
      PROVE  UNCHANGED uid_to_fd \/ uid_to_fd' = [u \in Users |-> None]
  BY <1>1, <1>6 DEF ParseChangePwd, NotLoggedIn
<1>7. ASSUME NEW type, ParseUnknown(f, type) PROVE UNCHANGED uid_to_fd
  BY <1>7 DEF ParseUnknown
<1> QED BY <1>2, <1>3, <1>4, <1>5, <1>6, <1>7
        DEF Requests, ParseTransfileAskRc, ParseTransfileRepSc, ParseTransfileData,
            ParseTransfileAck

LEMMA CloseConnMap ==
    ASSUME IInv, NEW f \in Fd, CloseConn(f)
    PROVE  UNCHANGED uid_to_fd \/ \E u \in Users : Abstract!LogOut(u)
<1>1. /\ uid_to_fd \in [Users -> Fd \cup {None}]
      /\ fd_to_uid \in [Fd -> Users \cup {None}]
      /\ SessionsInverse
  BY DEF IInv, TypeOK
<1>2. uid_to_fd' = [u \in Users |-> IF u = fd_to_uid[f] THEN None ELSE uid_to_fd[u]]
  BY CloseConnMaps DEF UnmappedUid
<1>3. CASE fd_to_uid[f] = None
  BY <1>1, <1>2, <1>3
<1>4. CASE fd_to_uid[f] # None
  <2>1. fd_to_uid[f] \in Users /\ uid_to_fd[fd_to_uid[f]] = f
    BY <1>1, <1>4 DEF SessionsInverse
  <2>2. uid_to_fd' = [uid_to_fd EXCEPT ![fd_to_uid[f]] = None]
    BY <1>1, <1>2
  <2>3. Abstract!LogOut(fd_to_uid[f])
    BY <2>1, <2>2 DEF Abstract!LogOut
  <2> QED BY <2>1, <2>3
<1> QED BY <1>3, <1>4

LEMMA LoginAcceptedMap ==
    ASSUME IInv, NEW f \in Fd, NEW u \in Users, LoginAccepted(f, u)
    PROVE  Abstract!LogIn(u, f)
<1>1. \A v \in Users : uid_to_fd[v] # f
  BY LoginAcceptedMaps DEF IInv, SessionsInverse
<1>2. uid_to_fd' = [uid_to_fd EXCEPT ![u] = f]
  BY DEF LoginAccepted
<1> QED BY <1>1, <1>2 DEF Abstract!LogIn, Abstract!Connected

LEMMA NextMap == IInv /\ [Next]_vars => [Abstract!Next]_uid_to_fd
<1> SUFFICES ASSUME IInv, [Next]_vars
             PROVE  UNCHANGED uid_to_fd \/ Abstract!Next
  OBVIOUS
<1>1. ASSUME uid_to_fd' = [u \in Users |-> None] PROVE Abstract!Next
  BY <1>1 DEF Abstract!Next, Abstract!LoseAll
<1>2. ASSUME NEW site, Abort(site) PROVE Abstract!Next
  BY <1>1, <1>2 DEF Abort
<1>3. CASE UNCHANGED vars
  BY <1>3 DEF vars, memory
<1>4. ASSUME NEW f \in Fd, Accept(f) \/ LoginFault(f) \/ LoginRefused(f)
      PROVE  UNCHANGED uid_to_fd
  BY <1>4 DEF Accept, LoginFault, LoginRefused, memory
<1>5. ASSUME NEW f \in Fd, LoginAborts(f) PROVE Abstract!Next
  BY <1>2, <1>5 DEF LoginAborts
<1>6. ASSUME NEW f \in Fd, NEW u \in Users, LoginAccepted(f, u) PROVE Abstract!Next
  BY <1>6, LoginAcceptedMap DEF Abstract!Next
<1>7. ASSUME NEW f \in Fd, Requests(f) PROVE UNCHANGED uid_to_fd \/ Abstract!Next
  BY <1>1, <1>7, RequestsMap
<1>8. ASSUME NEW f \in Fd, CloseConn(f) PROVE UNCHANGED uid_to_fd \/ Abstract!Next
  BY <1>8, CloseConnMap DEF Abstract!Next
<1>9. ASSUME NEW f \in Fd, SendMsg(f) PROVE UNCHANGED uid_to_fd \/ Abstract!Next
  BY <1>2, <1>8, <1>9 DEF SendMsg
<1>10. ASSUME NEW f \in Fd, LoseConn(f) PROVE UNCHANGED uid_to_fd \/ Abstract!Next
  BY <1>8, <1>10 DEF LoseConn
<1>11. CASE Kill
  BY <1>2, <1>11 DEF Kill
<1>12. CASE Restart
  BY <1>12 DEF Restart, memory
<1> QED BY <1>3, <1>4, <1>5, <1>6, <1>7, <1>9, <1>10, <1>11, <1>12 DEF Next

(* The handlers of Connections.cpp implement Sessions: whatever happens to *)
(* sockets, queues and tables, a user has one session at most, and it      *)
(* starts, moves and ends in one step.                                     *)
THEOREM ImplementsSessions == Spec => SessionsSpec
<1>1. Init => Abstract!Init
  BY DEF Init, Abstract!Init
<1> QED BY <1>1, SpecIInv, NextMap, PTL DEF Spec, SessionsSpec, Abstract!Spec

-----------------------------------------------------------------------------
(* Whoever takes a session over shuts the other connection down in the     *)
(* same step: nothing else is queued to it behind the notice.              *)
LEMMA TakeoverStep ==
    ASSUME IInv, [Next]_vars, NEW u \in Users, NEW f \in Fd,
           uid_to_fd[u] = f, uid_to_fd'[u] \notin {f, None}
    PROVE  fd_to_uid'[f] = None /\ out'.que[f][Len(out'.que[f])] = Shutdown
<1>1. PICK g \in Fd, v \in Users : LoginAccepted(g, v)
  <2>1. ~Abstract!LoseAll /\ \A w \in Users : ~Abstract!LogOut(w)
    BY DEF Abstract!LoseAll, Abstract!LogOut, IInv, TypeOK
  <2>2. UNCHANGED vars => UNCHANGED uid_to_fd
    BY DEF vars, memory
  <2>3. ASSUME NEW g \in Fd, Requests(g) PROVE FALSE
    BY <2>3, RequestsMap
  <2>4. ASSUME NEW site, Abort(site) PROVE FALSE
    BY <2>4 DEF Abort
  <2>5. ASSUME NEW g \in Fd, CloseConn(g) PROVE FALSE
    BY <2>1, <2>5, CloseConnMap
  <2>6. ~Kill /\ ~Restart
    BY <2>4 DEF Kill, Restart, memory
  <2>7. ASSUME NEW g \in Fd,
               \/ Accept(g) \/ LoginFault(g) \/ LoginRefused(g) \/ LoginAborts(g)
               \/ SendMsg(g) \/ LoseConn(g)
        PROVE  FALSE
    BY <2>4, <2>5, <2>7 DEF Accept, LoginFault, LoginRefused, LoginAborts, SendMsg, LoseConn, memory
  <2> QED BY <2>2, <2>3, <2>6, <2>7 DEF Next
<1>2. v = u /\ g # f
  BY <1>1 DEF LoginAccepted, IInv, TypeOK
<1>3. fd_to_uid[f] = u /\ fd_to_uid[f] # None
  BY DEF IInv, SessionsInverse
<1>4. fd_to_uid'[f] = None /\ Kicked(u) = {f}
  <2>1. Remaining(u)[f] # u
    BY <1>1, <1>2, LoginAcceptedMaps
  <2>2. f \in Kicked(u) /\ Remaining(u)[f] = None
    BY <1>3, <2>1 DEF Remaining
  <2>3. Kicked(u) = {f}
    BY <2>2 DEF Kicked
  <2> QED BY <1>1, <1>2, <2>2, <2>3, LoginAcceptedMaps DEF LoginAccepted
<1> DEFINE kicking == Push(out, {f}, Shutdown)
           replied == Push(kicking, {g}, LoginReply(u))
           told    == PushOnline(replied, Remaining(u), u, TRUE)
           list    == PushUserlist(told, uid_to_fd', g, u)
<1>5. out' = list
  BY <1>1, <1>2, <1>4 DEF LoginAccepted, LoginOut
<1>6. Good(kicking) /\ kicking.que[f] = Append(out.que[f], Shutdown)
  <2>1. Good(kicking)
    BY IInvGood, PushGood, MessageTypes
  <2> QED BY <2>1 DEF Push
<1> HIDE DEF kicking
<1>7. Good(replied) /\ OnlyTo({g}, kicking, replied)
  <2>1. LoginReply(u) \in Message
    BY MessageTypes DEF LoginReply, Bytes
  <2> QED BY <1>6, <2>1, PushGood
<1> HIDE DEF replied
<1>8. Good(told) /\ OnlyTo(LoggedIn(Remaining(u)), replied, told)
  BY <1>1, <1>2, <1>7, PushOnlineGood, LoginAcceptedMaps
<1> HIDE DEF told
<1>9. OnlyTo({g}, told, list)
  <2>1. uid_to_fd'[u] # None
    BY <1>1, <1>2, LoginAcceptedMaps
  <2> QED BY <1>1, <1>2, <1>8, <2>1, PushUserlistGood, LoginAcceptedMaps
<1> HIDE DEF list
<1>10. f \notin LoggedIn(Remaining(u))
  BY <1>4 DEF LoggedIn, Remaining
<1>11. out'.que[f] = Append(out.que[f], Shutdown)
  BY <1>2, <1>5, <1>6, <1>7, <1>8, <1>9, <1>10 DEF OnlyTo
<1>12. out.que[f] \in Seq(Message)
  BY DEF IInv, TypeOK
<1> QED BY <1>4, <1>11, <1>12

(* parse_login, lines 288-305: a takeover never leaves the connection that *)
(* loses its session without the notice that closes it.                    *)
THEOREM TakeoversShutDown == Spec => TakeoverShutsDown
<1>1. IInv /\ [Next]_vars =>
         [\A u \in Users, f \in Fd :
            uid_to_fd[u] = f /\ uid_to_fd'[u] \notin {f, None} =>
               /\ fd_to_uid'[f] = None
               /\ out'.que[f][Len(out'.que[f])] = Shutdown]_vars
  BY TakeoverStep
<1> QED BY <1>1, SpecIInv, PTL DEF Spec, TakeoverShutsDown

-----------------------------------------------------------------------------
(* What the handlers may do to the tables login and filetrans: the action  *)
(* properties on passwords and file transfers.                             *)

(* The steps that may change a row of login or filetrans are those of four *)
(* requests.                                                               *)
LEMMA TableSteps ==
    ASSUME IInv, [Next]_vars
    PROVE  \/ UNCHANGED <<login, filetrans>>
           \/ /\ UNCHANGED filetrans
              /\ \E f \in Fd, old, new \in Pwd : ParseChangePwd(f, old, new)
           \/ /\ UNCHANGED login
              /\ \E f \in Fd, uid \in Users :
                    \/ \E tid, siz \in 1..MaxFiles : ParseTransfileAskRc(f, uid, tid, siz)
                    \/ \E permit \in BOOLEAN : ParseTransfileRepSc(f, uid, permit)
                    \/ \E siz \in 0..MaxFiles : ParseTransfileAck(f, uid, siz)
<1>1. CASE UNCHANGED vars \/ Restart \/ Kill
  BY <1>1 DEF vars, tables, Restart, Kill
<1>2. ASSUME NEW f \in Fd,
             \/ Accept(f) \/ LoginFault(f) \/ LoginRefused(f) \/ LoginAborts(f)
             \/ \E u \in Users : LoginAccepted(f, u)
             \/ SendMsg(f) \/ LoseConn(f)
      PROVE  UNCHANGED <<login, filetrans>>
  BY <1>2 DEF Accept, LoginFault, LoginRefused, LoginAborts, LoginAccepted, SendMsg,
              LoseConn, tables
<1>3. ASSUME NEW f \in Fd,
             \/ \E uid : ParseUsername(f, uid) \/ ParseChatrecord(f, uid) \/ ParseTextmsg(f, uid)
             \/ \E type : ParseUnknown(f, type)
      PROVE  UNCHANGED <<login, filetrans>>
  BY <1>3 DEF ParseUsername, ParseChatrecord, ParseTextmsg, ParseUnknown, tables
<1>4. ASSUME NEW f \in Fd, NEW old \in Pwd, NEW new \in Pwd, ParseChangePwd(f, old, new)
      PROVE  UNCHANGED filetrans
  BY <1>4 DEF ParseChangePwd, tables
<1>5. ASSUME NEW op, NEW f, NEW type, NEW sub, NEW uid, NEW updated,
             Transfile(op, f, type, sub, uid, updated)
      PROVE  UNCHANGED login
  BY <1>5 DEF Transfile, tables
<1>6. ASSUME NEW f \in Fd, NEW uid, ParseTransfileData(f, uid)
      PROVE  UNCHANGED <<login, filetrans>>
  BY <1>6 DEF ParseTransfileData, Transfile, tables
<1>7. ASSUME NEW f \in Fd, NEW uid,
             \/ \E tid, siz : ParseTransfileAskRc(f, uid, tid, siz)
             \/ \E permit : ParseTransfileRepSc(f, uid, permit)
             \/ \E siz : ParseTransfileAck(f, uid, siz)
      PROVE  UNCHANGED login
  BY <1>5, <1>7 DEF ParseTransfileAskRc, ParseTransfileRepSc, ParseTransfileAck
<1>8. ASSUME NEW f \in Fd, Requests(f)
      PROVE  \/ UNCHANGED <<login, filetrans>>
             \/ \E old, new \in Pwd : ParseChangePwd(f, old, new)
             \/ \E uid \in Users :
                   \/ \E tid, siz \in 1..MaxFiles : ParseTransfileAskRc(f, uid, tid, siz)
                   \/ \E permit \in BOOLEAN : ParseTransfileRepSc(f, uid, permit)
                   \/ \E siz \in 0..MaxFiles : ParseTransfileAck(f, uid, siz)
  BY <1>3, <1>6, <1>8 DEF Requests
<1> QED BY <1>1, <1>2, <1>4, <1>7, <1>8 DEF Next

-----------------------------------------------------------------------------
(* Passwords.                                                              *)

(* A reply is the last message of the queue it was appended to.            *)
LEMMA RespondedLast ==
    ASSUME IInv, NEW f \in Fd, NEW m, Respond(f, m)
    PROVE  out'.que[f][Len(out'.que[f])] = m
<1>1. out'.que[f] = Append(out.que[f], m)
  BY DEF Respond, Push
<1>2. out.que[f] \in Seq(Message)
  BY DEF IInv, TypeOK
<1> QED BY <1>1, <1>2

(* The row that a change of password changes is that of the user asking.   *)
LEMMA ChangePwdChanges ==
    ASSUME IInv, NEW f \in Fd, NEW old \in Pwd, NEW new \in Pwd,
           ParseChangePwd(f, old, new), NEW u \in Users, login'[u] # login[u]
    PROVE  /\ LoggedInAs(f, u)
           /\ out'.que[f][Len(out'.que[f])] = Plain(\h95, 0)
<1>1. login' # login
  OBVIOUS
<1>2. PICK my_uid \in Users, ok \in QueryOk :
         /\ LoggedInAs(f, my_uid)
         /\ \E legal \in UpdateLegal(login, my_uid, old, DbFaults) :
              LET succeed == legal /\ new # old /\ ok
              IN  /\ login' = IF succeed THEN SetPasswd(login, my_uid, new) ELSE login
                  /\ Respond(f, Plain(\h95, IF succeed THEN 0 ELSE \hF0))
  BY <1>1 DEF ParseChangePwd, tables
<1>3. /\ login' = SetPasswd(login, my_uid, new)
      /\ Respond(f, Plain(\h95, 0))
  BY <1>1, <1>2
<1>4. u = my_uid
  BY <1>3 DEF SetPasswd, IInv, TypeOK
<1> QED BY <1>2, <1>3, <1>4, RespondedLast

(* A connection has one session, so the old password compared is that of   *)
(* the user asking.                                                        *)
LEMMA WrongOldChangesNothing ==
    ASSUME IInv, ~DbFaults, NEW f \in Fd, NEW u \in Users, NEW old \in Pwd, NEW new \in Pwd,
           LoggedInAs(f, u), old # login[u].password, ParseChangePwd(f, old, new)
    PROVE  login' = login
<1>1. PICK my_uid \in Users, ok \in QueryOk :
         /\ LoggedInAs(f, my_uid)
         /\ \E legal \in UpdateLegal(login, my_uid, old, DbFaults) :
              login' = IF legal /\ new # old /\ ok THEN SetPasswd(login, my_uid, new)
                                                   ELSE login
  <2>1. ~NotLoggedIn(f)
    BY DEF NotLoggedIn
  <2> QED BY <2>1 DEF ParseChangePwd
<1>2. my_uid = u
  BY <1>1 DEF LoggedInAs
<1>3. \A legal \in UpdateLegal(login, my_uid, old, DbFaults) : ~legal
  BY <1>2 DEF UpdateLegal, LoginCheck
<1> QED BY <1>1, <1>3

(* parse_change_pwd and update_passwd, while their queries succeed: only   *)
(* the user's own session changes a password, and only by quoting the old  *)
(* one.  A query that fails leaves `legal` with a value nobody computed    *)
(* (UpdateLegal), so the hypothesis is needed.                             *)
THEOREM PasswordsNeedOld == ASSUME ~DbFaults PROVE Spec => PasswordNeedsOld
<1>1. ASSUME IInv, [Next]_vars, NEW u \in Users, login'[u] # login[u]
      PROVE  \E f \in Fd, old, new \in Pwd :
                /\ LoggedInAs(f, u)
                /\ ParseChangePwd(f, old, new)
                /\ out'.que[f][Len(out'.que[f])] = Plain(\h95, 0)
  <2>1. PICK f \in Fd, old \in Pwd, new \in Pwd : ParseChangePwd(f, old, new)
    BY <1>1, TableSteps
  <2> QED BY <1>1, <2>1, ChangePwdChanges
<1>2. IInv /\ [Next]_vars =>
        [/\ \A u \in Users : login'[u] # login[u] =>
              \E f \in Fd, old, new \in Pwd :
                 /\ LoggedInAs(f, u)
                 /\ ParseChangePwd(f, old, new)
                 /\ out'.que[f][Len(out'.que[f])] = Plain(\h95, 0)
         /\ \A f \in Fd, u \in Users, old, new \in Pwd :
              /\ LoggedInAs(f, u) /\ old # login[u].password
              /\ ParseChangePwd(f, old, new)
              => login' = login]_vars
  BY <1>1, WrongOldChangesNothing
<1> QED BY <1>2, SpecIInv, PTL DEF Spec, PasswordNeedsOld

-----------------------------------------------------------------------------
(* File transfers.                                                         *)

(* What the query of a file request makes of the table: nothing, when it   *)
(* fails, or what it is for.                                               *)
LEMMA TransfileUpdates ==
    ASSUME NEW op, NEW f, NEW type, NEW sub, NEW uid, NEW updated,
           Transfile(op, f, type, sub, uid, updated)
    PROVE  \/ UNCHANGED filetrans
           \/ \E u \in Users : LoggedInAs(f, u) /\ filetrans' = updated[u]
BY DEF Transfile, tables

LEMMA FiletransSteps ==
    ASSUME IInv, [Next]_vars, filetrans' # filetrans
    PROVE  \E f \in Fd, u, uid \in Users :
              /\ LoggedInAs(f, u)
              /\ \/ \E tid, siz \in 1..MaxFiles :
                       filetrans' = InsertFileRecord(filetrans, tid, u, uid, siz)
                 \/ \E permit \in BOOLEAN :
                       /\ ParseTransfileRepSc(f, uid, permit)
                       /\ filetrans' = IF permit THEN PermitFileRecord(filetrans, uid, u)
                                                 ELSE DeleteFileRecord(filetrans, uid, u)
                 \/ \E siz \in 0..MaxFiles :
                       filetrans' = UpdateFileRecord(filetrans, uid, u, siz)
<1>1. ASSUME NEW f \in Fd, NEW uid \in Users, NEW tid, NEW siz,
             ParseTransfileAskRc(f, uid, tid, siz)
      PROVE  \E u \in Users : LoggedInAs(f, u)
                /\ filetrans' = InsertFileRecord(filetrans, tid, u, uid, siz)
  BY <1>1, TransfileUpdates DEF ParseTransfileAskRc
<1>2. ASSUME NEW f \in Fd, NEW uid \in Users, NEW permit, ParseTransfileRepSc(f, uid, permit)
      PROVE  \E u \in Users : LoggedInAs(f, u)
                /\ filetrans' = IF permit THEN PermitFileRecord(filetrans, uid, u)
                                          ELSE DeleteFileRecord(filetrans, uid, u)
  BY <1>2, TransfileUpdates DEF ParseTransfileRepSc
<1>3. ASSUME NEW f \in Fd, NEW uid \in Users, NEW siz, ParseTransfileAck(f, uid, siz)
      PROVE  \E u \in Users : LoggedInAs(f, u)
                /\ filetrans' = UpdateFileRecord(filetrans, uid, u, siz)
  BY <1>3, TransfileUpdates DEF ParseTransfileAck
<1>4. PICK f \in Fd, uid \in Users :
         \/ \E tid, siz \in 1..MaxFiles : ParseTransfileAskRc(f, uid, tid, siz)
         \/ \E permit \in BOOLEAN : ParseTransfileRepSc(f, uid, permit)
         \/ \E siz \in 0..MaxFiles : ParseTransfileAck(f, uid, siz)
  BY TableSteps
<1> QED BY <1>1, <1>2, <1>3, <1>4

(* A pending row outlives every query but the two of its receiver.         *)
LEMMA PendingKept ==
    ASSUME NEW table \in SUBSET FiletransRow, NEW row \in table, row.statue = 0,
           NEW u \in Users, NEW uid \in Users
    PROVE  /\ \A tid, siz : row \in InsertFileRecord(table, tid, u, uid, siz)
           /\ \A siz : row \in UpdateFileRecord(table, uid, u, siz)
           /\ row \notin PermitFileRecord(table, uid, u) => OfPair(row, uid, u)
           /\ row \notin DeleteFileRecord(table, uid, u) => OfPair(row, uid, u)
BY DEF InsertFileRecord, UpdateFileRecord, PermitFileRecord, DeleteFileRecord

(* The same row, whatever its byte count.                                  *)
Same(kept, row) == [kept EXCEPT !.succsiz = 0] = [row EXCEPT !.succsiz = 0]

(* A permitted row outlives every query.                                   *)
LEMMA PermittedSurvives ==
    ASSUME NEW table \in SUBSET FiletransRow, NEW row \in table, row.statue = 1,
           NEW u \in Users, NEW uid \in Users
    PROVE  /\ \A tid, siz : row \in InsertFileRecord(table, tid, u, uid, siz)
           /\ \A siz : \E kept \in UpdateFileRecord(table, uid, u, siz) : Same(kept, row)
           /\ row \in PermitFileRecord(table, uid, u)
           /\ row \in DeleteFileRecord(table, uid, u)
<1>1. ASSUME NEW siz
      PROVE  \E kept \in UpdateFileRecord(table, uid, u, siz) : Same(kept, row)
  <2>1. CASE OfPair(row, uid, u)
    <3>1. [row EXCEPT !.succsiz = siz] \in UpdateFileRecord(table, uid, u, siz)
      BY <2>1 DEF UpdateFileRecord
    <3>2. Same([row EXCEPT !.succsiz = siz], row)
      BY DEF Same, FiletransRow
    <3> QED BY <3>1, <3>2
  <2>2. CASE ~OfPair(row, uid, u)
    BY <2>2 DEF UpdateFileRecord, Same
  <2> QED BY <2>1, <2>2
<1> QED BY <1>1 DEF InsertFileRecord, PermitFileRecord, DeleteFileRecord

(* parse_transfile_rep_sc is the one handler that settles a transfer, and  *)
(* it does so for the rows whose receiver is the user asking.              *)
THEOREM FilesNeedConsent == Spec => FileConsent
<1>1. ASSUME IInv, [Next]_vars, NEW row \in filetrans, row.statue = 0, row \notin filetrans'
      PROVE  \E f \in Fd, permit \in BOOLEAN :
                /\ LoggedInAs(f, row.recvid)
                /\ ParseTransfileRepSc(f, row.sendid, permit)
  <2>1. filetrans \in SUBSET FiletransRow
    BY <1>1 DEF IInv, TypeOK
  <2>2. PICK f \in Fd, u \in Users, uid \in Users, permit \in BOOLEAN :
           /\ LoggedInAs(f, u)
           /\ ParseTransfileRepSc(f, uid, permit)
           /\ filetrans' = IF permit THEN PermitFileRecord(filetrans, uid, u)
                                     ELSE DeleteFileRecord(filetrans, uid, u)
    BY <1>1, <2>1, FiletransSteps, PendingKept
  <2>3. row.recvid = u /\ row.sendid = uid
    BY <1>1, <2>1, <2>2, PendingKept DEF OfPair
  <2> QED BY <2>2, <2>3
<1>2. IInv /\ [Next]_vars =>
        [\A row \in filetrans : row.statue = 0 /\ row \notin filetrans' =>
           \E f \in Fd, permit \in BOOLEAN :
              /\ LoggedInAs(f, row.recvid)
              /\ ParseTransfileRepSc(f, row.sendid, permit)]_vars
  BY <1>1
<1> QED BY <1>2, SpecIInv, PTL DEF Spec, FileConsent

(* No query takes a permission back: delete_file_record spares the rows    *)
(* that are permitted, and update_file_record changes their byte count     *)
(* alone.                                                                  *)
THEOREM PermissionsStay == Spec => PermittedKept
<1>1. ASSUME IInv, [Next]_vars, NEW row \in filetrans, row.statue = 1
      PROVE  \E kept \in filetrans' : Same(kept, row)
  <2>1. filetrans \in SUBSET FiletransRow
    BY <1>1 DEF IInv, TypeOK
  <2>2. CASE filetrans' = filetrans
    BY <2>2 DEF Same
  <2>3. CASE filetrans' # filetrans
    <3>1. row \in filetrans' => \E kept \in filetrans' : Same(kept, row)
      BY DEF Same
    <3> QED BY <1>1, <2>1, <2>3, <3>1, FiletransSteps, PermittedSurvives
  <2> QED BY <2>2, <2>3
<1>2. IInv /\ [Next]_vars =>
        [\A row \in filetrans : row.statue = 1 =>
           \E kept \in filetrans' :
              [kept EXCEPT !.succsiz = 0] = [row EXCEPT !.succsiz = 0]]_vars
  BY <1>1 DEF Same
<1> QED BY <1>2, SpecIInv, PTL DEF Spec, PermittedKept
=============================================================================
