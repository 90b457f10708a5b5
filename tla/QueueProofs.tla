----------------------------- MODULE QueueProofs -----------------------------
(***************************************************************************)
(* What the clients of Connections are told, for any sets of users and     *)
(* descriptors and any bounds: the order of the messages in their queues,  *)
(* the lists of users, the texts and the files.                            *)
(*                                                                         *)
(* The steps of Connections are first sorted into a few kinds by what they *)
(* do to queues, maps and clients (NextStep); each part of QInv is then    *)
(* shown to survive every kind, from lemmas about one queue.               *)
(***************************************************************************)
EXTENDS ConnectionsProofs

USE NamesAssumption, ConnectionsAssumption

-----------------------------------------------------------------------------
(* One queue: what appending a message to it and taking its head do.       *)

(* The messages of a queue one longer are the old ones and the new one.    *)
LEMMA AppendAt ==
    ASSUME NEW que \in Seq(Message), NEW m \in Message
    PROVE  /\ Append(que, m) \in Seq(Message)
           /\ Len(Append(que, m)) = Len(que) + 1 /\ Len(que) \in Nat
           /\ \A i \in 1..Len(que) : Append(que, m)[i] = que[i] /\ que[i] \in Message
           /\ Append(que, m)[Len(que) + 1] = m
OBVIOUS

(* The messages behind the head of a queue, each one place further on.     *)
LEMMA TailAt ==
    ASSUME NEW que \in Seq(Message), que # << >>
    PROVE  /\ Tail(que) \in Seq(Message) /\ Head(que) = que[1] /\ que[1] \in Message
           /\ Len(que) \in Nat /\ Len(que) >= 1 /\ Len(Tail(que)) = Len(que) - 1
           /\ \A i \in 1..Len(Tail(que)) : Tail(que)[i] = que[i + 1]
OBVIOUS

(* A message that may join the queue of a session, or of a connection that *)
(* has lost its session.                                                   *)
MayFollow(m, ph, session) ==
    /\ ph # "fresh"
    /\ m.type \notin {\h90, \hA0}
    /\ session # None \/ m.type < \hA0

LEMMA AppendOrdered ==
    ASSUME NEW que \in Seq(Message), NEW m \in Message, NEW ph, NEW session,
           QueueOrdered(que, ph, session), MayFollow(m, ph, session)
    PROVE  QueueOrdered(Append(que, m), ph, session)
<1> DEFINE longer == Append(que, m)
<1>1. /\ Len(longer) = Len(que) + 1 /\ Len(que) \in Nat
      /\ \A i \in 1..Len(que) : longer[i] = que[i] /\ que[i] \in Message
      /\ longer[Len(que) + 1] = m
      /\ longer # << >>
  BY AppendAt
<1> HIDE DEF longer
<1>2. ph = "asking" => longer[1].type = \h90
  BY <1>1 DEF QueueOrdered
<1>3. \A i \in 1..Len(longer) : longer[i].type = \h90 => i = 1 /\ ph = "asking"
  BY <1>1 DEF QueueOrdered, MayFollow
<1>4. session # None => \A i \in 1..Len(longer) : longer[i].type # \hA0
  BY <1>1 DEF QueueOrdered, MayFollow
<1>5. ASSUME NEW i \in 1..Len(longer), NEW j \in 1..Len(longer),
             i < j, longer[i].type = \hA0
      PROVE  longer[j].type < \hA0
  <2>1. i \in 1..Len(que)
    BY <1>1, <1>5
  <2>2. CASE j \in 1..Len(que)
    BY <1>1, <1>5, <2>1, <2>2 DEF QueueOrdered
  <2>3. CASE j = Len(que) + 1
    BY <1>1, <1>5, <2>1, <2>3 DEF QueueOrdered, MayFollow
  <2> QED BY <1>1, <2>2, <2>3
<1> QED BY <1>1, <1>2, <1>3, <1>4, <1>5 DEF QueueOrdered, MayFollow, longer

(* The reply to a login, to a connection that has heard nothing before.    *)
LEMMA ReplyOrdered ==
    ASSUME NEW m \in Message, m.type = \h90, NEW session
    PROVE  QueueOrdered(Append(<< >>, m), "asking", session)
<1>1. Append(<< >>, m) = <<m>>
  OBVIOUS
<1>2. /\ Len(<<m>>) = 1 /\ <<m>>[1] = m /\ <<m>> # << >>
      /\ \A i \in 1..Len(<<m>>) : i = 1
  OBVIOUS
<1> QED BY <1>1, <1>2 DEF QueueOrdered

(* The notice that a session is over.                                      *)
LEMMA ShutdownOrdered ==
    ASSUME NEW que \in Seq(Message), NEW ph, NEW session,
           session # None, ph # "fresh", QueueOrdered(que, ph, session)
    PROVE  QueueOrdered(Append(que, Shutdown), ph, None)
<1> DEFINE longer == Append(que, Shutdown)
<1>1. Shutdown \in Message /\ Shutdown.type = \hA0
  BY MessageTypes DEF Shutdown, Plain
<1>2. /\ Len(longer) = Len(que) + 1 /\ Len(que) \in Nat
      /\ \A i \in 1..Len(que) : longer[i] = que[i] /\ que[i] \in Message
      /\ longer[Len(que) + 1] = Shutdown
      /\ longer # << >>
  BY <1>1, AppendAt
<1> HIDE DEF longer
<1>3. ph = "asking" => longer[1].type = \h90
  BY <1>2 DEF QueueOrdered
<1>4. \A i \in 1..Len(longer) : longer[i].type = \h90 => i = 1 /\ ph = "asking"
  BY <1>1, <1>2 DEF QueueOrdered
<1>5. \A i, j \in 1..Len(longer) : ~(i < j /\ longer[i].type = \hA0)
  BY <1>1, <1>2 DEF QueueOrdered
<1> QED BY <1>2, <1>3, <1>4, <1>5 DEF QueueOrdered, longer

(* The client takes the head: after the reply to its login it is let in.   *)
LEMMA TailOrdered ==
    ASSUME NEW que \in Seq(Message), que # << >>, NEW ph \in Phases, NEW session,
           QueueOrdered(que, ph, session)
    PROVE  QueueOrdered(Tail(que), IF Head(que).type = \h90 THEN "in" ELSE ph, session)
<1> DEFINE rest == Tail(que)
           after == IF Head(que).type = \h90 THEN "in" ELSE ph
<1>1. /\ Len(que) \in Nat /\ Len(que) >= 1 /\ Len(rest) = Len(que) - 1 /\ Head(que) = que[1]
      /\ \A i \in 1..Len(rest) : rest[i] = que[i + 1]
  BY TailAt
<1>2. after \notin {"fresh", "asking"}
  BY <1>1 DEF QueueOrdered
<1> HIDE DEF rest, after
<1>3. \A i \in 1..Len(rest) : i + 1 \in 1..Len(que) /\ i + 1 # 1
  BY <1>1
<1>4. \A i \in 1..Len(rest) : rest[i].type # \h90
  BY <1>1, <1>3 DEF QueueOrdered
<1>5. session # None => \A i \in 1..Len(rest) : rest[i].type # \hA0
  BY <1>1, <1>3 DEF QueueOrdered
<1>6. \A i, j \in 1..Len(rest) : i < j /\ rest[i].type = \hA0 => rest[j].type < \hA0
  <2> SUFFICES ASSUME NEW i \in 1..Len(rest), NEW j \in 1..Len(rest),
                      i < j, rest[i].type = \hA0
               PROVE  rest[j].type < \hA0
    OBVIOUS
  <2>1. i + 1 < j + 1 /\ i + 1 \in 1..Len(que) /\ j + 1 \in 1..Len(que)
    BY <1>3
  <2> QED BY SMTT(30), <1>1, <2>1 DEF QueueOrdered
<1> QED BY <1>2, <1>4, <1>5, <1>6 DEF QueueOrdered, rest, after

-----------------------------------------------------------------------------
(* The kinds of step.                                                      *)

(* The messages without a payload, and the type each one has.              *)
OfType(type, m) == m \in Message /\ m.type = type

LEMMA HeaderTypes ==
    /\ \A type \in (0..255) \ {\hA1, \hA3}, sub \in 0..255 : OfType(type, Plain(type, sub))
    /\ \A request \in 0..31 : OfType(request + \h80, Unknown(request))
<1>1. \A type, sub : Plain(type, sub).type = type
  BY DEF Plain
<1>2. \A request \in 0..31 : Unknown(request).type = request + \h80
  BY <1>1 DEF Unknown
<1> QED BY ZenonT(30), <1>1, <1>2, MessageTypes DEF Bytes, OfType

(* Nothing a client can see changes.                                       *)
Still == UNCHANGED <<memory, client, record>>

(* The daemon ends.                                                        *)
Stops == (\E site \in Sites : Abort(site)) /\ UNCHANGED record

(* A logged-in client is answered.                                         *)
Answers(f, m) ==
    /\ phase[f] = "in"
    /\ m \in Message /\ m.type < \hA0 /\ m.type # \h90
    /\ Respond(f, m)
    /\ UNCHANGED <<uid_to_fd, fd_to_uid, client, record>>

(* A login is turned down.                                                 *)
TurnsDown(f, m) ==
    /\ phase[f] = "fresh"
    /\ m \in Message /\ m.type = \h90
    /\ Respond(f, m)
    /\ phase' = [phase EXCEPT ![f] = "asking"]
    /\ UNCHANGED <<uid_to_fd, fd_to_uid, record, owner, view, mark>>

(* A text is saved and forwarded: nobody writes to itself.                 *)
Forwards(f, my_uid, dst_uid) ==
    /\ phase[f] = "in"
    /\ dst_uid # my_uid
    /\ LoggedInAs(f, my_uid)
    /\ SaveAndForward(f, my_uid, dst_uid)
    /\ UNCHANGED <<uid_to_fd, fd_to_uid, client>>

(* A file message is handed on to the session of the user it names.        *)
HandsOn(type, sub, src_uid, dst_uid) ==
    /\ type \in {\hA7, \hA8, \hA9, \hAA} /\ sub \in 0..2
    /\ dst_uid \in Online(uid_to_fd)
    /\ out' = PushTransfile(out, uid_to_fd, type, sub, src_uid, dst_uid)
    /\ UNCHANGED <<uid_to_fd, fd_to_uid, client, record>>

(* A connection is closed.                                                 *)
Closes(f) == CloseConn(f) /\ UNCHANGED record

(* A client takes the head of its queue.                                   *)
Takes(f) ==
    /\ out.que[f] # << >>
    /\ out' = Popped(out, f)
    /\ Delivered(f, Head(out.que[f]))
    /\ UNCHANGED <<uid_to_fd, fd_to_uid, record>>

SomeStep ==
    \/ Still
    \/ Stops
    \/ \E f \in Fd :
          \/ Accept(f)
          \/ \E m \in Message : Answers(f, m) \/ TurnsDown(f, m)
          \/ \E u \in Users : LoginAccepted(f, u)
          \/ \E u \in Users, dst_uid \in Uids : Forwards(f, u, dst_uid)
          \/ Closes(f)
          \/ Takes(f)
    \/ \E type \in {\hA7, \hA8, \hA9, \hAA}, sub \in 0..2, u, dst_uid \in Users :
          HandsOn(type, sub, u, dst_uid)

(* A file request, whatever its query does.                                *)
LEMMA TransfileStep ==
    ASSUME NEW op, NEW f \in Fd, NEW type \in {\hA7, \hA8, \hA9, \hAA},
           NEW sub \in 0..2, NEW dst_uid \in Users, NEW updated,
           Transfile(op, f, type, sub, dst_uid, updated)
    PROVE  SomeStep
<1>1. CASE NotLoggedIn(f) /\ UNCHANGED tables
  BY <1>1 DEF NotLoggedIn, tables, SomeStep, Stops, Sites
<1>2. CASE \E my_uid \in Users :
             /\ \/ /\ dst_uid \in Online(uid_to_fd)
                   /\ out' = PushTransfile(out, uid_to_fd, type, sub, my_uid, dst_uid)
                   /\ UNCHANGED <<daemon, uid_to_fd, fd_to_uid, client>>
                \/ Abort("transfile")
             /\ UNCHANGED <<login, record>>
  <2>1. PICK my_uid \in Users :
             /\ \/ HandsOn(type, sub, my_uid, dst_uid)
                \/ Abort("transfile")
             /\ UNCHANGED record
    BY <1>2 DEF HandsOn
  <2>2. CASE Abort("transfile")
    BY <2>1, <2>2 DEF SomeStep, Stops, Sites
  <2> QED BY <2>1, <2>2 DEF SomeStep
<1> QED BY <1>1, <1>2 DEF Transfile

(* parse_textmsg, from a client that does not write to itself.             *)
LEMMA TextmsgStep ==
    ASSUME IInv, NEW f \in Fd, NEW uid \in Uids \ {owner[f]}, ParseTextmsg(f, uid)
    PROVE  \/ Stops
           \/ \E my_uid \in Users : Forwards(f, my_uid, uid)
           \/ \E m : OfType(\h93, m) /\ Answers(f, m)
<1>1. CASE NotLoggedIn(f) /\ UNCHANGED tables
  BY <1>1 DEF NotLoggedIn, tables, Stops, Sites
<1>2. CASE /\ \E my_uid \in Users : LoggedInAs(f, my_uid) /\ SaveAndForward(f, my_uid, uid)
           /\ UNCHANGED <<daemon, uid_to_fd, fd_to_uid, login, filetrans, client>>
  <2>1. PICK my_uid \in Users : LoggedInAs(f, my_uid) /\ SaveAndForward(f, my_uid, uid)
    BY <1>2
  <2>2. my_uid # uid
    BY <2>1 DEF LoggedInAs, IInv, SessionIsOwned
  <2>3. Forwards(f, my_uid, uid)
    BY <1>2, <2>1, <2>2 DEF Forwards, ParseTextmsg, Request
  <2> QED BY <2>3
<1>3. CASE /\ Respond(f, Unknown(\h13)) /\ UNCHANGED record
           /\ UNCHANGED <<daemon, uid_to_fd, fd_to_uid, login, filetrans, client>>
  <2>1. OfType(\h93, Unknown(\h13))
    BY HeaderTypes
  <2>2. Answers(f, Unknown(\h13))
    BY <1>3, <2>1 DEF Answers, OfType, ParseTextmsg, Request
  <2> QED BY <2>1, <2>2
<1> QED BY <1>1, <1>2, <1>3 DEF ParseTextmsg

(* The requests of a logged-in client.                                     *)
LEMMA RequestsStep ==
    ASSUME IInv, NEW f \in Fd, Requests(f)
    PROVE  SomeStep
<1>1. ASSUME NotLoggedIn(f), UNCHANGED tables PROVE SomeStep
  BY <1>1 DEF NotLoggedIn, tables, SomeStep, Stops, Sites
<1>2. ASSUME NEW uid \in Users \cup Strangers, ParseUsername(f, uid) PROVE SomeStep
  <2>1. PICK ok \in QueryOk :
           Respond(f, IF ~ok THEN Unknown(\h11)
                      ELSE IF CheckUid(uid) THEN Name(uid) ELSE Plain(\h91, \hF0))
    BY <1>2 DEF ParseUsername
  <2>2. PICK m : Respond(f, m) /\ OfType(\h91, m)
    <3>1. /\ OfType(\h91, Unknown(\h11))
          /\ OfType(\h91, Plain(\h91, \hF0))
      BY HeaderTypes
    <3>2. CheckUid(uid) => OfType(\h91, Name(uid))
      BY MessageTypes DEF CheckUid, Name, OfType
    <3> QED BY <2>1, <3>1, <3>2
  <2>3. Answers(f, m)
    BY <1>2, <2>2 DEF Answers, OfType, ParseUsername, Request, tables
  <2> QED BY <2>3 DEF SomeStep, Answers
<1>3. ASSUME NEW uid \in Uids, ParseChatrecord(f, uid) PROVE SomeStep
  <2>1. CASE NotLoggedIn(f)
    BY <1>1, <1>3, <2>1 DEF ParseChatrecord
  <2>2. CASE /\ \E my_uid \in Users : ChatrecordAnswer(f, my_uid, uid)
             /\ UNCHANGED <<daemon, uid_to_fd, fd_to_uid, client>>
    <3>1. PICK my_uid \in Users : ChatrecordAnswer(f, my_uid, uid)
      BY <2>2
    <3>2. \A cnt : SerhMessage(record, my_uid, uid, cnt) \in SUBSET Nat
      BY DEF SerhMessage, IInv, TypeOK
    <3>3. /\ OfType(\h92, Unknown(\h12))
          /\ OfType(\h92, Plain(\h92, \hF0))
      BY HeaderTypes
    <3>4. \A cnt : LET m == History(SerhMessage(record, my_uid, uid, cnt))
                   IN  OfType(\h92, m)
      BY <3>2, MessageTypes DEF History, OfType
    <3>5. PICK m : Respond(f, m) /\ OfType(\h92, m)
      BY <3>1, <3>3, <3>4 DEF ChatrecordAnswer
    <3>6. Answers(f, m)
      BY <1>3, <2>2, <3>5 DEF Answers, OfType, ParseChatrecord, Request, tables
    <3> QED BY <3>6 DEF SomeStep, Answers
  <2> QED BY <1>3, <2>1, <2>2 DEF ParseChatrecord
<1>4. ASSUME NEW uid \in Uids \ {owner[f]}, ParseTextmsg(f, uid) PROVE SomeStep
  BY <1>4, TextmsgStep DEF SomeStep, Answers
<1>5. ASSUME NEW old \in Pwd, NEW new \in Pwd, ParseChangePwd(f, old, new) PROVE SomeStep
  <2>1. CASE NotLoggedIn(f) /\ UNCHANGED tables
    BY <1>1, <2>1
  <2>2. CASE /\ \E granted \in BOOLEAN :
                   Respond(f, Plain(\h95, IF granted THEN 0 ELSE \hF0))
             /\ UNCHANGED <<daemon, uid_to_fd, fd_to_uid, record, filetrans, client>>
    <3>1. PICK granted \in BOOLEAN : Respond(f, Plain(\h95, IF granted THEN 0 ELSE \hF0))
      BY <2>2
    <3> DEFINE m == Plain(\h95, IF granted THEN 0 ELSE \hF0)
    <3>2. OfType(\h95, m)
      BY HeaderTypes
    <3> HIDE DEF m
    <3>3. Answers(f, m)
      BY <1>5, <2>2, <3>1, <3>2 DEF Answers, OfType, ParseChangePwd, Request, m
    <3> QED BY <3>2, <3>3 DEF SomeStep, Answers
  <2>3. CASE /\ \E my_uid \in Users, ok \in QueryOk :
                  /\ LoggedInAs(f, my_uid)
                  /\ \E legal \in UpdateLegal(login, my_uid, old, DbFaults) :
                       LET succeed == legal /\ new # old /\ ok
                       IN  /\ login' = IF succeed THEN SetPasswd(login, my_uid, new)
                                                  ELSE login
                           /\ Respond(f, Plain(\h95, IF succeed THEN 0 ELSE \hF0))
             /\ UNCHANGED <<daemon, uid_to_fd, fd_to_uid, record, filetrans, client>>
    <3>1. PICK my_uid \in Users, ok \in QueryOk :
             \E legal \in UpdateLegal(login, my_uid, old, DbFaults) :
                Respond(f, Plain(\h95, IF legal /\ new # old /\ ok THEN 0 ELSE \hF0))
      BY <2>3
    <3>2. PICK legal :
             Respond(f, Plain(\h95, IF legal /\ new # old /\ ok THEN 0 ELSE \hF0))
      BY <3>1
    <3> DEFINE granted == legal /\ new # old /\ ok
    <3>3. granted \in BOOLEAN /\ Respond(f, Plain(\h95, IF granted THEN 0 ELSE \hF0))
      BY <3>2
    <3> HIDE DEF granted
    <3> QED BY <2>2, <2>3, <3>3
  <2> QED BY <1>5, <2>1, <2>3 DEF ParseChangePwd
<1>6. ASSUME NEW type \in {\h10, \h13}, ParseUnknown(f, type) PROVE SomeStep
  <2>1. OfType(type + \h80, Unknown(type))
    BY HeaderTypes
  <2>2. CASE type = \h13 /\ Request("unknown", f) /\ UNCHANGED phase
    <3>1. Answers(f, Unknown(type))
      BY <1>6, <2>1, <2>2 DEF Answers, OfType, ParseUnknown, Request, tables, client
    <3> QED BY <2>1, <3>1 DEF SomeStep, Answers, TurnsDown
  <2>3. CASE type = \h10 /\ LoginRequest(f) /\ phase' = [phase EXCEPT ![f] = "asking"]
    <3>1. TurnsDown(f, Unknown(type))
      BY <1>6, <2>1, <2>3 DEF TurnsDown, OfType, ParseUnknown, LoginRequest, tables
    <3> QED BY <2>1, <3>1 DEF SomeStep, Answers, TurnsDown
  <2> QED BY <1>6, <2>2, <2>3 DEF ParseUnknown
<1>7. ASSUME NEW dst_uid \in Users,
             \/ \E tid, siz \in 1..MaxFiles : ParseTransfileAskRc(f, dst_uid, tid, siz)
             \/ \E permit \in BOOLEAN : ParseTransfileRepSc(f, dst_uid, permit)
             \/ ParseTransfileData(f, dst_uid)
             \/ \E siz \in 0..MaxFiles : ParseTransfileAck(f, dst_uid, siz)
      PROVE  SomeStep
  <2>1. ASSUME NEW tid \in 1..MaxFiles, NEW siz \in 1..MaxFiles,
               ParseTransfileAskRc(f, dst_uid, tid, siz)
        PROVE  SomeStep
    <3> DEFINE updated == [u \in Users |-> InsertFileRecord(filetrans, tid, u, dst_uid, siz)]
    <3>1. Transfile("ask", f, \hA7, 0, dst_uid, updated)
      BY <2>1 DEF ParseTransfileAskRc
    <3> HIDE DEF updated
    <3> QED BY <3>1, TransfileStep
  <2>2. ASSUME NEW permit \in BOOLEAN, ParseTransfileRepSc(f, dst_uid, permit)
        PROVE  SomeStep
    <3> DEFINE updated == [u \in Users |->
                             IF permit THEN PermitFileRecord(filetrans, dst_uid, u)
                                       ELSE DeleteFileRecord(filetrans, dst_uid, u)]
               sub == IF permit THEN 1 ELSE 2
    <3>1. Transfile("rep", f, \hA8, sub, dst_uid, updated) /\ sub \in 0..2
      BY <2>2 DEF ParseTransfileRepSc
    <3> HIDE DEF updated, sub
    <3> QED BY <3>1, TransfileStep
  <2>3. ASSUME ParseTransfileData(f, dst_uid)
        PROVE  SomeStep
    <3> DEFINE updated == [u \in Users |-> filetrans]
    <3>1. Transfile("data", f, \hA9, 0, dst_uid, updated)
      BY <2>3 DEF ParseTransfileData
    <3> HIDE DEF updated
    <3> QED BY <3>1, TransfileStep
  <2>4. ASSUME NEW siz \in 0..MaxFiles, ParseTransfileAck(f, dst_uid, siz)
        PROVE  SomeStep
    <3> DEFINE updated == [u \in Users |-> UpdateFileRecord(filetrans, dst_uid, u, siz)]
    <3>1. Transfile("ack", f, \hA9, 0, dst_uid, updated)
      BY <2>4 DEF ParseTransfileAck
    <3> HIDE DEF updated
    <3> QED BY <3>1, TransfileStep
  <2> QED BY <1>7, <2>1, <2>2, <2>3, <2>4
<1> QED BY <1>2, <1>3, <1>4, <1>5, <1>6, <1>7 DEF Requests

(* Every step is of one of the kinds.                                      *)
LEMMA NextStep == IInv /\ [Next]_vars => SomeStep
<1> SUFFICES ASSUME IInv, [Next]_vars PROVE SomeStep
  OBVIOUS
<1>1. CASE UNCHANGED vars \/ Restart
  BY <1>1 DEF vars, memory, tables, client, Restart, Still, SomeStep
<1>2. ASSUME NEW f \in Fd, LoginFault(f) \/ LoginRefused(f) PROVE SomeStep
  <2>1. /\ OfType(\h90, Unknown(\h10))
        /\ OfType(\h90, Plain(\h90, \hF0))
    BY HeaderTypes
  <2>2. PICK m \in Message : TurnsDown(f, m)
    BY <1>2, <2>1 DEF LoginFault, LoginRefused, LoginRequest, TurnsDown, OfType, tables
  <2> QED BY <2>2 DEF SomeStep
<1>3. ASSUME NEW f \in Fd, LoginAborts(f) PROVE SomeStep
  BY <1>3 DEF LoginAborts, SomeStep, Stops, Sites, tables
<1>4. ASSUME NEW f \in Fd, SendMsg(f) PROVE SomeStep
  <2>1. out.que[f] # << >>
    BY <1>4 DEF SendMsg, IInv, WritableIffQueued
  <2>2. UNCHANGED record
    BY <1>4 DEF SendMsg, tables
  <2>3. Closes(f) \/ Takes(f)
    BY <1>4, <2>1, <2>2 DEF SendMsg, Closes, Takes
  <2> QED BY <2>3 DEF SomeStep, Answers
<1>5. ASSUME NEW f \in Fd, LoseConn(f) PROVE SomeStep
  BY <1>5 DEF LoseConn, Closes, SomeStep, tables
<1>6. CASE Kill
  BY <1>6 DEF Kill, SomeStep, Stops, Sites, tables
<1>7. ASSUME NEW f \in Fd, Accept(f) \/ \E u \in Users : LoginAccepted(f, u) PROVE SomeStep
  BY <1>7 DEF SomeStep
<1> QED BY <1>1, <1>2, <1>3, <1>4, <1>5, <1>6, <1>7, RequestsStep DEF Next

-----------------------------------------------------------------------------
(* What each kind of step leaves in the queues.                            *)

LEMMA PushAt ==
    ASSUME NEW o, NEW fds, NEW m, NEW g \in Fd
    PROVE  Push(o, fds, m).que[g] = IF g \in fds THEN Append(o.que[g], m) ELSE o.que[g]
BY DEF Push

LEMMA QueueType == IInv => \A g \in Fd : out.que[g] \in Seq(Message)
BY DEF IInv, TypeOK

(* The two lists a login is answered with.                                 *)
ListOn(u, online)  == Presence(TRUE, (Users \ {u}) \cap online, Cardinality(online) - 1)
ListOff(u, online) ==
    Presence(FALSE, (Users \ {u}) \ online, Cardinality(Users) - Cardinality(online))

(* The lengths of the lists agree with what is written into them, and are  *)
(* never negative.                                                         *)
LEMMA ListsFit ==
    ASSUME NEW u \in Users, NEW online \in SUBSET Users, u \in online
    PROVE  /\ ListOn(u, online) \in Message /\ ListOff(u, online) \in Message
           /\ Cardinality((Users \ {u}) \cap online) = Cardinality(online) - 1
           /\ Cardinality((Users \ {u}) \ online) = Cardinality(Users) - Cardinality(online)
<1>1. /\ IsFiniteSet(online) /\ Cardinality(online) \in Nat
      /\ Cardinality(Users) \in Nat /\ Cardinality(online) <= Cardinality(Users)
  BY FS_Subset, FS_CardinalityType
<1>2. (Users \ {u}) \cap online = online \ {u} /\ (Users \ {u}) \ online = Users \ online
  OBVIOUS
<1>3. Cardinality(online \ {u}) = Cardinality(online) - 1
  BY <1>1, FS_RemoveElement
<1>4. Cardinality(Users \ online) = Cardinality(Users) - Cardinality(online)
  <2>1. Users \cap online = online
    OBVIOUS
  <2> QED BY <2>1, <1>1, FS_Difference
<1>5. Cardinality(online) - 1 \in Nat /\ Cardinality(Users) - Cardinality(online) \in Nat
  <2>1. Cardinality(online) # 0
    BY <1>1, FS_EmptySet
  <2> QED BY <1>1, <2>1
<1>6. ListOn(u, online) \in Message
  <2>1. (Users \ {u}) \cap online \in SUBSET Users
    OBVIOUS
  <2> QED BY <1>5, <2>1, MessageTypes DEF ListOn
<1>7. ListOff(u, online) \in Message
  <2>1. (Users \ {u}) \ online \in SUBSET Users
    OBVIOUS
  <2> QED BY <1>5, <2>1, MessageTypes DEF ListOff
<1> QED BY <1>2, <1>3, <1>4, <1>6, <1>7

(* parse_login: what a login leaves in the queue of the connection it came *)
(* over, of the one that loses the session, and of everybody else's.       *)
LEMMA LoginQueues ==
    ASSUME IInv, NEW f \in Fd, NEW u \in Users, LoginAccepted(f, u)
    PROVE  /\ u \in Online(uid_to_fd')
           /\ out'.que[f] =
                 Append(Append(Append(out.que[f], LoginReply(u)),
                               ListOn(u, Online(uid_to_fd'))),
                        ListOff(u, Online(uid_to_fd')))
           /\ \A g \in Fd \ {f} : out'.que[g] =
                 IF g \in Kicked(u) THEN Append(out.que[g], Shutdown)
                 ELSE IF fd_to_uid[g] # None
                 THEN Append(out.que[g], Presence(TRUE, {u}, 1))
                 ELSE out.que[g]
<1> DEFINE online == Online(uid_to_fd')
           kicking == Push(out, Kicked(u), Shutdown)
           replied == Push(kicking, {f}, LoginReply(u))
           told    == PushOnline(replied, Remaining(u), u, TRUE)
           listed  == Push(told, {f}, ListOn(u, online))
           notice  == Presence(TRUE, {u}, 1)
<1>1. u \in online
  BY LoginAcceptedMaps DEF Online
<1>2. out' = Push(listed, {f}, ListOff(u, online))
  BY DEF LoginAccepted, LoginOut, PushUserlist, Userlist, ListOn, ListOff
<1>3. told = Push(replied, LoggedIn(Remaining(u)), notice)
  BY DEF PushOnline
<1>4. f \notin Kicked(u) /\ f \notin LoggedIn(Remaining(u))
  BY LoginAcceptedMaps DEF LoggedIn, Remaining
<1>5. \A g \in Fd : g \in LoggedIn(Remaining(u)) <=> g \notin Kicked(u) /\ fd_to_uid[g] # None
  BY DEF LoggedIn, Remaining
<1> HIDE DEF online, kicking, replied, told, listed, notice
<1>6. \A g \in Fd : kicking.que[g] =
          IF g \in Kicked(u) THEN Append(out.que[g], Shutdown) ELSE out.que[g]
  BY PushAt DEF kicking
<1>7. \A g \in Fd : replied.que[g] =
          IF g = f THEN Append(kicking.que[g], LoginReply(u)) ELSE kicking.que[g]
  BY PushAt DEF replied
<1>8. \A g \in Fd : told.que[g] =
          IF g \in LoggedIn(Remaining(u)) THEN Append(replied.que[g], notice)
          ELSE replied.que[g]
  BY <1>3, PushAt
<1>9. \A g \in Fd : listed.que[g] =
          IF g = f THEN Append(told.que[g], ListOn(u, online)) ELSE told.que[g]
  BY PushAt DEF listed
<1>10. \A g \in Fd : out'.que[g] =
          IF g = f THEN Append(listed.que[g], ListOff(u, online)) ELSE listed.que[g]
  BY <1>2, PushAt
<1>11. out'.que[f] = Append(Append(Append(out.que[f], LoginReply(u)), ListOn(u, online)),
                            ListOff(u, online))
  <2>1. replied.que[f] = Append(out.que[f], LoginReply(u)) /\ told.que[f] = replied.que[f]
    BY <1>4, <1>6, <1>7, <1>8
  <2> QED BY <1>9, <1>10, <2>1
<1>12. \A g \in Fd \ {f} : out'.que[g] =
                 IF g \in Kicked(u) THEN Append(out.que[g], Shutdown)
                 ELSE IF fd_to_uid[g] # None THEN Append(out.que[g], notice)
                 ELSE out.que[g]
  <2> SUFFICES ASSUME NEW g \in Fd \ {f}
               PROVE  out'.que[g] =
                         IF g \in Kicked(u) THEN Append(out.que[g], Shutdown)
                         ELSE IF fd_to_uid[g] # None THEN Append(out.que[g], notice)
                         ELSE out.que[g]
    OBVIOUS
  <2>1. out'.que[g] = told.que[g] /\ replied.que[g] = kicking.que[g]
    BY <1>7, <1>9, <1>10
  <2> QED BY <1>5, <1>6, <1>8, <2>1
<1> QED BY <1>1, <1>11, <1>12 DEF online, notice

(* parse_textmsg: the text is queued to exactly the sessions that are to   *)
(* read it, after its author has been answered.                            *)
Readers(my_uid, dst_uid) ==
    {g \in LoggedIn(fd_to_uid) : ReadBy([sendid |-> my_uid, recvid |-> dst_uid], fd_to_uid[g])}

LEMMA ForwardQueues ==
    ASSUME IInv, NEW f \in Fd, NEW my_uid \in Users, NEW dst_uid \in Uids,
           Forwards(f, my_uid, dst_uid)
    PROVE  \E reply, text \in Message :
             /\ OfType(\h93, reply) /\ OfType(\hA3, text) /\ text.rid = Len(record) + 1
             /\ text.src = my_uid /\ text.sub = (IF dst_uid = ALL THEN 1 ELSE 0)
             /\ \A g \in Fd :
                  LET answered == IF g = f THEN Append(out.que[g], reply) ELSE out.que[g]
                  IN  out'.que[g] = IF g \in Readers(my_uid, dst_uid)
                                    THEN Append(answered, text) ELSE answered
<1> DEFINE exist  == dst_uid = ALL \/ CheckUid(dst_uid)
           online == dst_uid = ALL \/ dst_uid \in Online(uid_to_fd)
           reply  == TextReply(exist, online)
           replied == Push(out, {f}, reply)
           text == Text(IF dst_uid = ALL THEN 1 ELSE 0, my_uid, Len(record'))
<1>1. OfType(\h93, reply)
  BY HeaderTypes DEF TextReply
<1>2. /\ record \in Seq(RecordRow)
      /\ record' = Append(record, [sendid |-> my_uid, recvid |-> dst_uid])
  BY DEF IInv, TypeOK, Forwards, SaveAndForward, SaveMessage
<1>3. Len(record') = Len(record) + 1 /\ Len(record') \in Nat
  BY <1>2
<1>4. /\ OfType(\hA3, text) /\ text.rid = Len(record) + 1
      /\ text.src = my_uid /\ text.sub = (IF dst_uid = ALL THEN 1 ELSE 0)
  <2>1. text \in Message
    BY <1>3, MessageTypes
  <2>2. /\ text.type = \hA3 /\ text.rid = Len(record')
        /\ text.src = my_uid /\ text.sub = (IF dst_uid = ALL THEN 1 ELSE 0)
    BY DEF Text
  <2> QED BY <1>3, <2>1, <2>2 DEF OfType
<1>5. out' = IF online THEN Push(replied, Readers(my_uid, dst_uid), text) ELSE replied
  <2>1. out' = IF online THEN PushTextmsg(replied, fd_to_uid, uid_to_fd, my_uid, dst_uid, Len(record'))
               ELSE replied
    BY DEF Forwards, SaveAndForward
  <2>2. CASE dst_uid = ALL
    <3>1. Readers(my_uid, dst_uid) = {g \in LoggedIn(fd_to_uid) : fd_to_uid[g] # my_uid}
      BY <2>2 DEF Readers, ReadBy, LoggedIn, IInv, TypeOK
    <3> QED BY <2>1, <2>2, <3>1 DEF PushTextmsg
  <2>3. CASE dst_uid # ALL /\ dst_uid \in Online(uid_to_fd)
    <3>1. dst_uid \in Users /\ uid_to_fd[dst_uid] \in Fd
      BY <2>3 DEF Online, IInv, TypeOK
    <3>2. Readers(my_uid, dst_uid) = {uid_to_fd[dst_uid]}
      BY <2>3, <3>1 DEF Readers, ReadBy, LoggedIn, IInv, SessionsInverse
    <3> QED BY <2>1, <2>3, <3>2 DEF PushTextmsg
  <2> QED BY <2>1, <2>2, <2>3
<1>6. ~online => Readers(my_uid, dst_uid) = {}
  BY DEF Readers, ReadBy, LoggedIn, Online, IInv, SessionsInverse, TypeOK
<1>7. \A g \in Fd : replied.que[g] = IF g = f THEN Append(out.que[g], reply) ELSE out.que[g]
  BY PushAt
<1> HIDE DEF online, reply, replied, text
<1>8. \A g \in Fd : out'.que[g] = IF g \in Readers(my_uid, dst_uid)
                                  THEN Append(replied.que[g], text) ELSE replied.que[g]
  BY <1>5, <1>6, PushAt
<1> QED BY <1>1, <1>4, <1>7, <1>8 DEF OfType

(* A file message is queued to the one connection of the user it names.    *)
LEMMA HandOnQueues ==
    ASSUME IInv, NEW type, NEW sub, NEW src_uid \in Users, NEW dst_uid \in Users,
           HandsOn(type, sub, src_uid, dst_uid)
    PROVE  /\ OfType(type, File(type, sub, src_uid, dst_uid))
           /\ \A g \in Fd : out'.que[g] =
                 IF fd_to_uid[g] = dst_uid
                 THEN Append(out.que[g], File(type, sub, src_uid, dst_uid)) ELSE out.que[g]
<1>1. File(type, sub, src_uid, dst_uid) \in Message
  BY MessageTypes DEF HandsOn
<1>2. File(type, sub, src_uid, dst_uid).type = type
  BY DEF File
<1>3. \A g \in Fd : g \in {uid_to_fd[dst_uid]} <=> fd_to_uid[g] = dst_uid
  BY DEF IInv, SessionsInverse
<1>4. out' = Push(out, {uid_to_fd[dst_uid]}, File(type, sub, src_uid, dst_uid))
  BY DEF HandsOn, PushTransfile
<1> QED BY <1>1, <1>2, <1>3, <1>4, PushAt DEF OfType

(* close_conn: the queue is dropped, and whoever is still logged in is told*)
(* of the session that ended with it.                                      *)
LEMMA CloseQueues ==
    ASSUME IInv, NEW f \in Fd, CloseConn(f)
    PROVE  /\ out'.que[f] = << >>
           /\ \A g \in Fd \ {f} : out'.que[g] =
                 IF fd_to_uid[f] # None /\ fd_to_uid[g] # None
                 THEN Append(out.que[g], Presence(FALSE, {fd_to_uid[f]}, 1))
                 ELSE out.que[g]
<1> DEFINE told == IF fd_to_uid[f] = None THEN out
                   ELSE PushOnline(out, Unmapped(f), fd_to_uid[f], FALSE)
<1>1. out' = Drop(told, f)
  BY CloseConnMaps DEF CloseConn
<1>2. \A g \in Fd \ {f} : g \in LoggedIn(Unmapped(f)) <=> fd_to_uid[g] # None
  BY CloseConnMaps DEF LoggedIn, Unmapped
<1>3. \A g \in Fd \ {f} : told.que[g] =
                 IF fd_to_uid[f] # None /\ fd_to_uid[g] # None
                 THEN Append(out.que[g], Presence(FALSE, {fd_to_uid[f]}, 1))
                 ELSE out.que[g]
  <2> DEFINE notice == Presence(FALSE, {fd_to_uid[f]}, 1)
  <2>1. told = IF fd_to_uid[f] = None THEN out ELSE Push(out, LoggedIn(Unmapped(f)), notice)
    BY DEF PushOnline
  <2> HIDE DEF told, notice
  <2>2. \A g \in Fd \ {f} : told.que[g] =
           IF fd_to_uid[f] # None /\ fd_to_uid[g] # None
           THEN Append(out.que[g], notice) ELSE out.que[g]
    BY <1>2, <2>1, PushAt
  <2> QED BY <2>2 DEF notice
<1>4. Good(told)
  <2>1. fd_to_uid[f] # None => fd_to_uid[f] \in Users
    BY DEF IInv, TypeOK
  <2> QED BY <2>1, IInvGood, CloseConnMaps, PushOnlineGood
<1> HIDE DEF told
<1>5. OnlyTo({f}, told, out') /\ out'.que[f] = << >>
  BY <1>1, <1>4, DropGood
<1> QED BY <1>3, <1>5 DEF OnlyTo

(* send_msg takes the head of one queue.                                   *)
LEMMA TakeQueues ==
    ASSUME IInv, NEW f \in Fd, Takes(f)
    PROVE  /\ out.que[f] # << >> /\ out'.que[f] = Tail(out.que[f])
           /\ \A g \in Fd \ {f} : out'.que[g] = out.que[g]
BY DEF Takes, Popped, IInv, TypeOK

-----------------------------------------------------------------------------
(* The order of the messages in every queue.                               *)

LEMMA EmptyOrdered ==
    ASSUME NEW ph, ph # "asking", NEW session
    PROVE  QueueOrdered(<< >>, ph, session)
BY DEF QueueOrdered

(* A handler that leaves clients and sessions alone and queues what may    *)
(* follow, or nothing.                                                     *)
LEMMA AppendsOrdered ==
    ASSUME QueuesOrdered, IInv, NEW o, NEW m \in Message,
           \A g \in Fd : \/ o.que[g] = out.que[g]
                         \/ /\ o.que[g] = Append(out.que[g], m)
                            /\ MayFollow(m, phase[g], fd_to_uid[g])
    PROVE  \A g \in Fd : /\ o.que[g] \in Seq(Message)
                         /\ QueueOrdered(o.que[g], phase[g], fd_to_uid[g])
<1> TAKE g \in Fd
<1>1. out.que[g] \in Seq(Message) /\ QueueOrdered(out.que[g], phase[g], fd_to_uid[g])
  BY QueueType DEF QueuesOrdered
<1>2. CASE o.que[g] = out.que[g]
  BY <1>1, <1>2
<1>3. CASE o.que[g] = Append(out.que[g], m) /\ MayFollow(m, phase[g], fd_to_uid[g])
  BY <1>1, <1>3, AppendOrdered, AppendAt
<1> QED BY <1>2, <1>3

LEMMA LoginOrdered ==
    ASSUME IInv, QueuesOrdered, NEW f \in Fd, NEW u \in Users, LoginAccepted(f, u)
    PROVE  QueuesOrdered'
<1> DEFINE online == Online(uid_to_fd')
<1>1. phase[f] = "fresh" /\ phase' = [phase EXCEPT ![f] = "asking"]
  BY DEF LoginAccepted, LoginRequest
<1>2. phase \in [Fd -> Phases] /\ fd_to_uid' = [Remaining(u) EXCEPT ![f] = u]
  BY DEF IInv, TypeOK, LoginAccepted
<1>3. SUFFICES ASSUME NEW g \in Fd
               PROVE  QueueOrdered(out'.que[g], phase'[g], fd_to_uid'[g])
  BY DEF QueuesOrdered
<1>4. CASE g = f
  <2> DEFINE q1 == Append(<< >>, LoginReply(u))
             q2 == Append(q1, ListOn(u, online))
             q3 == Append(q2, ListOff(u, online))
  <2>1. out.que[f] = << >>
    BY <1>1 DEF QueuesOrdered, QueueOrdered
  <2>2. out'.que[f] = q3 /\ u \in online
    BY <2>1, LoginQueues
  <2>3. OfType(\h90, LoginReply(u))
    BY HeaderTypes DEF LoginReply
  <2>4. q1 \in Seq(Message) /\ QueueOrdered(q1, "asking", u)
    BY <2>3, ReplyOrdered DEF OfType
  <2>5. /\ ListOn(u, online) \in Message /\ ListOff(u, online) \in Message
    BY <2>2, ListsFit DEF Online
  <2>6. /\ MayFollow(ListOn(u, online), "asking", u)
        /\ MayFollow(ListOff(u, online), "asking", u)
    BY DEF MayFollow, ListOn, ListOff, Presence
  <2> HIDE DEF online, q1
  <2>7. q2 \in Seq(Message) /\ QueueOrdered(q2, "asking", u)
    BY <2>4, <2>5, <2>6, AppendOrdered, AppendAt
  <2> HIDE DEF q2
  <2>8. QueueOrdered(q3, "asking", u)
    BY <2>5, <2>6, <2>7, AppendOrdered
  <2> HIDE DEF q3
  <2>9. phase'[f] = "asking"
    BY <1>1, <1>2
  <2>10. fd_to_uid'[f] = u
    BY <1>2, LoginAcceptedMaps
  <2> QED BY <1>4, <2>2, <2>8, <2>9, <2>10
<1>5. CASE g # f
  <2>1. /\ out.que[g] \in Seq(Message) /\ phase'[g] = phase[g]
        /\ QueueOrdered(out.que[g], phase[g], fd_to_uid[g])
    BY <1>1, <1>2, <1>5, QueueType DEF QueuesOrdered
  <2>2. fd_to_uid'[g] = IF g \in Kicked(u) THEN None ELSE fd_to_uid[g]
    BY <1>2, <1>5, LoginAcceptedMaps DEF Remaining
  <2>3. fd_to_uid[g] # None => phase[g] # "fresh"
    BY DEF IInv, SessionIsOwned
  <2>4. CASE g \in Kicked(u)
    <3>1. fd_to_uid[g] # None
      BY <2>4, LoginAcceptedMaps
    <3>2. out'.que[g] = Append(out.que[g], Shutdown)
      BY <1>5, <2>4, LoginQueues
    <3> QED BY <2>1, <2>2, <2>3, <2>4, <3>1, <3>2, ShutdownOrdered
  <2>5. CASE g \notin Kicked(u) /\ fd_to_uid[g] # None
    <3>1. out'.que[g] = Append(out.que[g], Presence(TRUE, {u}, 1))
      BY <1>5, <2>5, LoginQueues
    <3>2. Presence(TRUE, {u}, 1) \in Message
      BY MessageTypes
    <3>3. MayFollow(Presence(TRUE, {u}, 1), phase[g], fd_to_uid[g])
      BY <2>3, <2>5 DEF MayFollow, Presence
    <3> QED BY <2>1, <2>2, <2>5, <3>1, <3>2, <3>3, AppendOrdered
  <2>6. CASE g \notin Kicked(u) /\ fd_to_uid[g] = None
    <3>1. out'.que[g] = out.que[g]
      BY <1>5, <2>6, LoginQueues
    <3> QED BY <2>1, <2>2, <2>6, <3>1
  <2> QED BY <2>4, <2>5, <2>6
<1> QED BY <1>4, <1>5

LEMMA ForwardOrdered ==
    ASSUME IInv, QueuesOrdered, NEW f \in Fd, NEW my_uid \in Users, NEW dst_uid \in Uids,
           Forwards(f, my_uid, dst_uid)
    PROVE  QueuesOrdered'
<1>1. PICK reply \in Message, text \in Message :
        /\ OfType(\h93, reply) /\ OfType(\hA3, text)
        /\ \A g \in Fd :
             LET answered == IF g = f THEN Append(out.que[g], reply) ELSE out.que[g]
             IN  out'.que[g] = IF g \in Readers(my_uid, dst_uid)
                               THEN Append(answered, text) ELSE answered
  BY ForwardQueues
<1>2. /\ phase[f] = "in" /\ phase' = phase /\ fd_to_uid' = fd_to_uid
  BY DEF Forwards, client
<1> DEFINE mid == [que |-> [g \in Fd |-> IF g = f THEN Append(out.que[g], reply)
                                                  ELSE out.que[g]]]
<1>3. \A g \in Fd : mid.que[g] = IF g = f THEN Append(out.que[g], reply) ELSE out.que[g]
  OBVIOUS
<1> HIDE DEF mid
<1>4. MayFollow(reply, phase[f], fd_to_uid[f])
  BY <1>1, <1>2 DEF MayFollow, OfType
<1>5. \A g \in Fd : /\ mid.que[g] \in Seq(Message)
                    /\ QueueOrdered(mid.que[g], phase[g], fd_to_uid[g])
  BY <1>3, <1>4, AppendsOrdered
<1>6. \A g \in Fd : out'.que[g] = IF g \in Readers(my_uid, dst_uid)
                                  THEN Append(mid.que[g], text) ELSE mid.que[g]
  BY <1>1, <1>3
<1>7. \A g \in Readers(my_uid, dst_uid) : MayFollow(text, phase[g], fd_to_uid[g])
  BY <1>1 DEF MayFollow, OfType, Readers, LoggedIn, IInv, SessionIsOwned
<1>8. \A g \in Fd : QueueOrdered(out'.que[g], phase[g], fd_to_uid[g])
  BY <1>5, <1>6, <1>7, AppendOrdered
<1> QED BY <1>2, <1>8 DEF QueuesOrdered

(* Whatever clients, sockets and queries do, the order is kept.            *)
LEMMA OrderedStep ==
    ASSUME IInv, QueuesOrdered, SomeStep
    PROVE  QueuesOrdered'
<1>1. CASE Still
  BY <1>1 DEF Still, memory, client, QueuesOrdered
<1>2. CASE Stops
  BY <1>2, EmptyOrdered DEF Stops, Abort, Empty, QueuesOrdered
<1>3. ASSUME NEW f \in Fd, Accept(f) PROVE QueuesOrdered'
  <2>1. /\ phase' = [phase EXCEPT ![f] = "fresh"] /\ phase \in [Fd -> Phases]
        /\ out' = out /\ fd_to_uid' = fd_to_uid /\ out.que[f] = << >>
    BY <1>3 DEF Accept, memory, IInv, TypeOK, ClosedIsClean
  <2> QED BY <2>1, EmptyOrdered DEF QueuesOrdered
<1>4. ASSUME NEW f \in Fd, NEW m \in Message, Answers(f, m) PROVE QueuesOrdered'
  <2>1. /\ \A g \in Fd : out'.que[g] = IF g = f THEN Append(out.que[g], m) ELSE out.que[g]
        /\ phase' = phase /\ fd_to_uid' = fd_to_uid
    BY <1>4, PushAt DEF Answers, Respond, client
  <2>2. MayFollow(m, phase[f], fd_to_uid[f])
    BY <1>4 DEF Answers, MayFollow
  <2> QED BY <2>1, <2>2, AppendsOrdered DEF QueuesOrdered
<1>5. ASSUME NEW f \in Fd, NEW m \in Message, TurnsDown(f, m) PROVE QueuesOrdered'
  <2>1. /\ \A g \in Fd : out'.que[g] = IF g = f THEN Append(out.que[g], m) ELSE out.que[g]
        /\ fd_to_uid' = fd_to_uid /\ phase[f] = "fresh" /\ m.type = \h90
        /\ phase' = [phase EXCEPT ![f] = "asking"] /\ phase \in [Fd -> Phases]
    BY <1>5, PushAt DEF TurnsDown, Respond, IInv, TypeOK
  <2>2. out.que[f] = << >>
    BY <2>1 DEF QueuesOrdered, QueueOrdered
  <2>3. out'.que[f] = Append(<< >>, m) /\ phase'[f] = "asking"
    BY ZenonT(30), <2>1, <2>2
  <2>4. QueueOrdered(Append(<< >>, m), "asking", fd_to_uid[f])
    BY <2>1, ReplyOrdered
  <2>5. QueueOrdered(out'.que[f], phase'[f], fd_to_uid[f])
    BY <2>3, <2>4
  <2> QED BY <2>1, <2>5 DEF QueuesOrdered
<1>6. ASSUME NEW type \in {\hA7, \hA8, \hA9, \hAA}, NEW sub \in 0..2, NEW u \in Users,
             NEW dst_uid \in Users, HandsOn(type, sub, u, dst_uid)
      PROVE  QueuesOrdered'
  <2> DEFINE m == File(type, sub, u, dst_uid)
  <2>1. phase' = phase /\ fd_to_uid' = fd_to_uid
    BY <1>6 DEF HandsOn, client
  <2>2. /\ OfType(type, m)
        /\ \A g \in Fd : out'.que[g] = IF fd_to_uid[g] = dst_uid THEN Append(out.que[g], m)
                                                                 ELSE out.que[g]
    BY <1>6, HandOnQueues
  <2> HIDE DEF m
  <2>3. \A g \in Fd : fd_to_uid[g] = dst_uid => MayFollow(m, phase[g], fd_to_uid[g])
    <3>1. m.type \notin {\h90, \hA0}
      BY <2>2 DEF OfType
    <3>2. \A g \in Fd : fd_to_uid[g] # None => phase[g] # "fresh"
      BY DEF IInv, SessionIsOwned
    <3>3. dst_uid # None
      BY NamesAssumption
    <3> QED BY <3>1, <3>2, <3>3 DEF MayFollow
  <2>4. m \in Message
    BY <2>2 DEF OfType
  <2>5. ASSUME NEW g \in Fd PROVE QueueOrdered(out'.que[g], phase[g], fd_to_uid[g])
    <3>1. out.que[g] \in Seq(Message) /\ QueueOrdered(out.que[g], phase[g], fd_to_uid[g])
      BY QueueType DEF QueuesOrdered
    <3>2. CASE fd_to_uid[g] = dst_uid
      <4>1. QueueOrdered(Append(out.que[g], m), phase[g], fd_to_uid[g])
        BY <2>3, <2>4, <3>1, <3>2, AppendOrdered
      <4> QED BY <2>2, <3>2, <4>1
    <3>3. CASE fd_to_uid[g] # dst_uid
      BY <2>2, <3>1, <3>3
    <3> QED BY <3>2, <3>3
  <2> QED BY <2>1, <2>5 DEF QueuesOrdered
<1>7. ASSUME NEW f \in Fd, Closes(f) PROVE QueuesOrdered'
  <2> DEFINE m == Presence(FALSE, {fd_to_uid[f]}, 1)
             told == fd_to_uid[f] # None
  <2>1. /\ phase' = [phase EXCEPT ![f] = "closed"] /\ phase \in [Fd -> Phases]
        /\ \A g \in Fd \ {f} : fd_to_uid'[g] = fd_to_uid[g]
        /\ CloseConn(f)
    BY <1>7, CloseConnMaps DEF Closes, CloseConn, IInv, TypeOK, Unmapped
  <2>2. /\ out'.que[f] = << >>
        /\ \A g \in Fd \ {f} : out'.que[g] = IF told /\ fd_to_uid[g] # None
                                             THEN Append(out.que[g], m) ELSE out.que[g]
    BY <2>1, CloseQueues
  <2>3. told => m \in Message
    BY ZenonT(30), MessageTypes DEF IInv, TypeOK
  <2>4. m.type = \hA1
    BY DEF Presence
  <2> HIDE DEF m, told
  <2>5. \A g \in Fd : fd_to_uid[g] # None => MayFollow(m, phase[g], fd_to_uid[g])
    BY <2>4 DEF MayFollow, IInv, SessionIsOwned
  <2>6. ASSUME NEW g \in Fd \ {f} PROVE QueueOrdered(out'.que[g], phase[g], fd_to_uid[g])
    <3>1. out.que[g] \in Seq(Message) /\ QueueOrdered(out.que[g], phase[g], fd_to_uid[g])
      BY QueueType DEF QueuesOrdered
    <3>2. CASE told /\ fd_to_uid[g] # None
      <4>1. QueueOrdered(Append(out.que[g], m), phase[g], fd_to_uid[g])
        BY <2>3, <2>5, <3>1, <3>2, AppendOrdered
      <4> QED BY <2>2, <3>2, <4>1
    <3>3. CASE ~(told /\ fd_to_uid[g] # None)
      BY <2>2, <3>1, <3>3
    <3> QED BY <3>2, <3>3
  <2>7. QueueOrdered(out'.que[f], phase'[f], fd_to_uid'[f])
    BY <2>1, <2>2, EmptyOrdered
  <2> QED BY <2>1, <2>6, <2>7 DEF QueuesOrdered
<1>8. ASSUME NEW f \in Fd, Takes(f) PROVE QueuesOrdered'
  <2>1. /\ fd_to_uid' = fd_to_uid
        /\ phase \in [Fd -> Phases] /\ out.que[f] \in Seq(Message)
        /\ phase' = [phase EXCEPT ![f] = IF Head(out.que[f]).type = \h90 THEN "in" ELSE @]
    BY <1>8 DEF Takes, Delivered, IInv, TypeOK
  <2>2. /\ out.que[f] # << >> /\ out'.que[f] = Tail(out.que[f])
        /\ \A g \in Fd \ {f} : out'.que[g] = out.que[g]
    BY <1>8, TakeQueues
  <2>3. /\ phase'[f] = IF Head(out.que[f]).type = \h90 THEN "in" ELSE phase[f]
        /\ \A g \in Fd \ {f} : phase'[g] = phase[g]
    BY <2>1
  <2>4. QueueOrdered(out.que[f], phase[f], fd_to_uid[f]) /\ phase[f] \in Phases
    BY <2>1 DEF QueuesOrdered
  <2>5. QueueOrdered(out'.que[f], phase'[f], fd_to_uid[f])
    BY <2>1, <2>2, <2>3, <2>4, TailOrdered
  <2> QED BY <2>1, <2>2, <2>3, <2>5 DEF QueuesOrdered
<1>9. ASSUME NEW f \in Fd, NEW u \in Users, LoginAccepted(f, u) PROVE QueuesOrdered'
  BY <1>9, LoginOrdered
<1>10. ASSUME NEW f \in Fd, NEW u \in Users, NEW dst_uid \in Uids, Forwards(f, u, dst_uid)
       PROVE  QueuesOrdered'
  BY <1>10, ForwardOrdered
<1> QED BY <1>1, <1>2, <1>3, <1>4, <1>5, <1>6, <1>7, <1>8, <1>9, <1>10 DEF SomeStep

-----------------------------------------------------------------------------
(* What single messages say: UserlistFits and NoMisdelivery.               *)

(* A list of users is as long as it says, a file message names the user    *)
(* whose client it is sent to.                                             *)
Addressed(m, own) ==
    /\ m.type = \hA1 => Cardinality(m.uids) = m.slots
    /\ m.type \in \hA7..\hAA => m.dst = own

AllAddressed(que, own) == \A i \in 1..Len(que) : Addressed(que[i], own)

QueuesAddressed == \A f \in Fd : AllAddressed(out.que[f], owner[f])

LEMMA AddressedMeans == QueuesAddressed <=> UserlistFits /\ NoMisdelivery
BY DEF QueuesAddressed, AllAddressed, Addressed, UserlistFits, NoMisdelivery

LEMMA PlainAddressed ==
    ASSUME NEW m, m.type # \hA1, m.type \notin \hA7..\hAA, NEW own
    PROVE  Addressed(m, own)
BY DEF Addressed

LEMMA NoticeAddressed ==
    ASSUME NEW online, NEW u, NEW own
    PROVE  Addressed(Presence(online, {u}, 1), own)
<1>1. Cardinality({u}) = 1
  BY FS_Singleton
<1>2. /\ Presence(online, {u}, 1).type = \hA1
      /\ Presence(online, {u}, 1).uids = {u} /\ Presence(online, {u}, 1).slots = 1
  BY DEF Presence
<1> QED BY <1>1, <1>2 DEF Addressed

LEMMA ListsAddressed ==
    ASSUME NEW u \in Users, NEW online \in SUBSET Users, u \in online, NEW own
    PROVE  Addressed(ListOn(u, online), own) /\ Addressed(ListOff(u, online), own)
<1>1. \A yes, uids, slots : Cardinality(uids) = slots => Addressed(Presence(yes, uids, slots), own)
  BY DEF Presence, Addressed
<1> QED BY <1>1, ListsFit DEF ListOn, ListOff

LEMMA AppendAddressed ==
    ASSUME NEW que \in Seq(Message), NEW m \in Message, NEW own,
           AllAddressed(que, own), Addressed(m, own)
    PROVE  AllAddressed(Append(que, m), own)
BY AppendAt DEF AllAddressed

LEMMA TailAddressed ==
    ASSUME NEW que \in Seq(Message), que # << >>, NEW own, AllAddressed(que, own)
    PROVE  AllAddressed(Tail(que), own)
<1>1. /\ Len(que) \in Nat /\ Len(Tail(que)) = Len(que) - 1
      /\ \A i \in 1..Len(Tail(que)) : Tail(que)[i] = que[i + 1]
  BY TailAt
<1>2. \A i \in 1..Len(Tail(que)) : i + 1 \in 1..Len(que)
  BY <1>1
<1> QED BY <1>1, <1>2 DEF AllAddressed

LEMMA EmptyAddressed == ASSUME NEW own PROVE AllAddressed(<< >>, own)
BY DEF AllAddressed

LEMMA LoginAddressed ==
    ASSUME IInv, QueuesOrdered, QueuesAddressed,
           NEW f \in Fd, NEW u \in Users, LoginAccepted(f, u)
    PROVE  QueuesAddressed'
<1> DEFINE online == Online(uid_to_fd')
           q1 == Append(<< >>, LoginReply(u))
           q2 == Append(q1, ListOn(u, online))
           q3 == Append(q2, ListOff(u, online))
<1>1. /\ owner' = [owner EXCEPT ![f] = u] /\ owner \in [Fd -> Users \cup {None}]
      /\ out.que[f] = << >>
  BY DEF LoginAccepted, LoginRequest, IInv, TypeOK, QueuesOrdered, QueueOrdered
<1>2. out'.que[f] = q3 /\ u \in online
  BY <1>1, LoginQueues
<1>3. OfType(\h90, LoginReply(u))
  BY HeaderTypes DEF LoginReply
<1>4. q1 \in Seq(Message) /\ AllAddressed(q1, u)
  <2>1. LoginReply(u) \in Message /\ Addressed(LoginReply(u), u)
    BY <1>3, PlainAddressed DEF OfType
  <2>2. << >> \in Seq(Message) /\ AllAddressed(<< >>, u)
    BY EmptyAddressed
  <2> QED BY <2>1, <2>2, AppendAt, AppendAddressed
<1>5. /\ ListOn(u, online) \in Message /\ ListOff(u, online) \in Message
      /\ Addressed(ListOn(u, online), u) /\ Addressed(ListOff(u, online), u)
  BY <1>2, ListsFit, ListsAddressed DEF Online
<1> HIDE DEF online, q1
<1>6. q2 \in Seq(Message) /\ AllAddressed(q2, u)
  BY <1>4, <1>5, AppendAddressed, AppendAt
<1> HIDE DEF q2
<1>7. AllAddressed(out'.que[f], owner'[f])
  BY <1>1, <1>2, <1>5, <1>6, AppendAddressed
<1>8. ASSUME NEW g \in Fd \ {f} PROVE AllAddressed(out'.que[g], owner'[g])
  <2> DEFINE m == IF g \in Kicked(u) THEN Shutdown ELSE Presence(TRUE, {u}, 1)
  <2>1. out'.que[g] \in {out.que[g], Append(out.que[g], m)}
    BY ZenonT(30), LoginQueues
  <2>2. Shutdown.type = \hA0 /\ Shutdown \in Message /\ Presence(TRUE, {u}, 1) \in Message
    BY MessageTypes DEF Shutdown, Plain
  <2>3. m \in Message /\ Addressed(m, owner[g])
    <3>1. Addressed(Shutdown, owner[g])
      BY <2>2, PlainAddressed
    <3>2. Addressed(Presence(TRUE, {u}, 1), owner[g])
      BY NoticeAddressed
    <3> QED BY <2>2, <3>1, <3>2
  <2> HIDE DEF m
  <2>4. owner'[g] = owner[g] /\ AllAddressed(out.que[g], owner[g]) /\ out.que[g] \in Seq(Message)
    BY <1>1, QueueType DEF QueuesAddressed
  <2> QED BY <2>1, <2>3, <2>4, AppendAddressed
<1> QED BY <1>7, <1>8 DEF QueuesAddressed

LEMMA AddressedStep ==
    ASSUME IInv, QueuesOrdered, QueuesAddressed, SomeStep
    PROVE  QueuesAddressed'
<1>1. CASE Still
  BY <1>1 DEF Still, memory, client, QueuesAddressed
<1>2. CASE Stops
  BY <1>2, EmptyAddressed DEF Stops, Abort, Empty, QueuesAddressed
<1>3. ASSUME NEW f \in Fd, Accept(f) PROVE QueuesAddressed'
  BY <1>3 DEF Accept, memory, QueuesAddressed
(* One message, the same for all, appended to some queues.                 *)
<1>4. ASSUME NEW m \in Message, owner' = owner,
             \A g \in Fd : \/ out'.que[g] = out.que[g]
                           \/ out'.que[g] = Append(out.que[g], m) /\ Addressed(m, owner[g])
      PROVE  QueuesAddressed'
  BY <1>4, AppendAddressed, QueueType DEF QueuesAddressed
<1>5. ASSUME NEW f \in Fd, NEW m \in Message, Answers(f, m) \/ TurnsDown(f, m)
      PROVE  QueuesAddressed'
  <2>1. owner' = owner /\ Respond(f, m) /\ m.type \in {\h90} \cup (0..(\hA0 - 1))
    <3>1. m.type \in Int
      BY DEF Message, Bytes
    <3>2. m.type >= 0
      BY DEF Message, Bytes
    <3> QED BY <1>5, <3>1, <3>2 DEF Answers, TurnsDown, client
  <2>2. \A g \in Fd : out'.que[g] = out.que[g] \/ out'.que[g] = Append(out.que[g], m)
    <3>1. \A g \in Fd : out'.que[g] = IF g = f THEN Append(out.que[g], m) ELSE out.que[g]
      BY <2>1, PushAt DEF Respond
    <3> QED BY <3>1
  <2>3. \A g \in Fd : Addressed(m, owner[g])
    BY <2>1, PlainAddressed
  <2> QED BY <1>4, <2>1, <2>2, <2>3
<1>6. ASSUME NEW type \in {\hA7, \hA8, \hA9, \hAA}, NEW sub \in 0..2, NEW u \in Users,
             NEW dst_uid \in Users, HandsOn(type, sub, u, dst_uid)
      PROVE  QueuesAddressed'
  <2> DEFINE m == File(type, sub, u, dst_uid)
  <2>1. owner' = owner
    BY <1>6 DEF HandsOn, client
  <2>2. /\ OfType(type, m)
        /\ \A g \in Fd : out'.que[g] = IF fd_to_uid[g] = dst_uid THEN Append(out.que[g], m)
                                                                 ELSE out.que[g]
    BY <1>6, HandOnQueues
  <2>3. m.dst = dst_uid /\ m.type = type
    BY DEF File
  <2> HIDE DEF m
  <2>4. \A g \in Fd : fd_to_uid[g] = dst_uid => Addressed(m, owner[g])
    BY <2>3 DEF Addressed, IInv, SessionIsOwned
  <2>5. m \in Message
    BY <2>2 DEF OfType
  <2>6. \A g \in Fd : \/ out'.que[g] = out.que[g]
                      \/ out'.que[g] = Append(out.que[g], m) /\ Addressed(m, owner[g])
    BY <2>2, <2>4
  <2> QED BY <1>4, <2>1, <2>5, <2>6
<1>7. ASSUME NEW f \in Fd, Closes(f) PROVE QueuesAddressed'
  <2> DEFINE m == Presence(FALSE, {fd_to_uid[f]}, 1)
             told == fd_to_uid[f] # None
  <2>1. /\ owner' = [owner EXCEPT ![f] = None] /\ owner \in [Fd -> Users \cup {None}]
        /\ CloseConn(f)
    BY <1>7, CloseConnMaps DEF Closes, CloseConn, IInv, TypeOK
  <2>2. /\ out'.que[f] = << >>
        /\ \A g \in Fd \ {f} : out'.que[g] = IF told /\ fd_to_uid[g] # None
                                             THEN Append(out.que[g], m) ELSE out.que[g]
    BY <2>1, CloseQueues
  <2>3. told => m \in Message
    BY ZenonT(30), MessageTypes DEF IInv, TypeOK
  <2>4. \A g \in Fd : Addressed(m, owner[g])
    BY NoticeAddressed
  <2> HIDE DEF m, told
  <2>5. ASSUME NEW g \in Fd \ {f} PROVE AllAddressed(out'.que[g], owner[g])
    <3>1. out.que[g] \in Seq(Message) /\ AllAddressed(out.que[g], owner[g])
      BY QueueType DEF QueuesAddressed
    <3>2. CASE told /\ fd_to_uid[g] # None
      <4>1. AllAddressed(Append(out.que[g], m), owner[g])
        BY <2>3, <2>4, <3>1, <3>2, AppendAddressed
      <4> QED BY <2>2, <3>2, <4>1
    <3>3. CASE ~(told /\ fd_to_uid[g] # None)
      BY <2>2, <3>1, <3>3
    <3> QED BY <3>2, <3>3
  <2>6. AllAddressed(out'.que[f], None)
    BY <2>2, EmptyAddressed
  <2>7. \A g \in Fd : owner'[g] = IF g = f THEN None ELSE owner[g]
    BY <2>1

  <2>8. ASSUME NEW g \in Fd PROVE AllAddressed(out'.que[g], owner'[g])
    BY <2>5, <2>6, <2>7
  <2> QED BY <2>8 DEF QueuesAddressed
<1>8. ASSUME NEW f \in Fd, Takes(f) PROVE QueuesAddressed'
  BY ZenonT(30), <1>8, TakeQueues, TailAddressed, QueueType DEF QueuesAddressed, Takes, Delivered
<1>9. ASSUME NEW f \in Fd, NEW u \in Users, LoginAccepted(f, u) PROVE QueuesAddressed'
  BY <1>9, LoginAddressed
<1>10. ASSUME NEW f \in Fd, NEW u \in Users, NEW dst_uid \in Uids, Forwards(f, u, dst_uid)
       PROVE  QueuesAddressed'
  <2>1. PICK reply \in Message, text \in Message :
          /\ OfType(\h93, reply) /\ OfType(\hA3, text)
          /\ \A g \in Fd :
               LET answered == IF g = f THEN Append(out.que[g], reply) ELSE out.que[g]
               IN  out'.que[g] = IF g \in Readers(u, dst_uid)
                                 THEN Append(answered, text) ELSE answered
    BY <1>10, ForwardQueues
  <2>2. owner' = owner
    BY <1>10 DEF Forwards, client
  <2>3. \A g \in Fd : Addressed(reply, owner[g]) /\ Addressed(text, owner[g])
    BY <2>1, PlainAddressed DEF OfType
  <2>4. ASSUME NEW g \in Fd PROVE AllAddressed(out'.que[g], owner[g])
    <3> DEFINE answered == IF g = f THEN Append(out.que[g], reply) ELSE out.que[g]
    <3>1. answered \in Seq(Message) /\ AllAddressed(answered, owner[g])
      BY <2>3, QueueType, AppendAt, AppendAddressed DEF QueuesAddressed
    <3>2. out'.que[g] = IF g \in Readers(u, dst_uid) THEN Append(answered, text) ELSE answered
      BY <2>1
    <3> HIDE DEF answered
    <3> QED BY <2>3, <3>1, <3>2, AppendAddressed
  <2> QED BY <2>2, <2>4 DEF QueuesAddressed
<1> QED BY <1>1, <1>2, <1>3, <1>5, <1>6, <1>7, <1>8, <1>9, <1>10 DEF SomeStep

-----------------------------------------------------------------------------
(* What a client will believe: Believed is what reading the queue message  *)
(* by message comes to.  The three lemmas are the recursion it replaces.   *)

LEMMA BelievedEmpty ==
    ASSUME NEW seen \in SUBSET Users
    PROVE  Believed(seen, << >>) = seen
BY DEF Believed

LEMMA ViewAfterMeans ==
    ASSUME NEW seen, NEW m \in Message, NEW v
    PROVE  /\ Mentions(m, v) => (v \in ViewAfter(seen, m) <=> m.sub = 0)
           /\ ~Mentions(m, v) => (v \in ViewAfter(seen, m) <=> v \in seen)
BY DEF ViewAfter, Mentions

LEMMA BelievedAppend ==
    ASSUME NEW seen \in SUBSET Users, NEW que \in Seq(Message), NEW m \in Message
    PROVE  Believed(seen, Append(que, m)) = ViewAfter(Believed(seen, que), m)
<1> DEFINE longer == Append(que, m)
           n == Len(que)
<1>1. /\ n \in Nat /\ Len(longer) = n + 1 /\ longer[n + 1] = m
      /\ \A i \in 1..n : longer[i] = que[i]
  BY AppendAt
<1> HIDE DEF longer, n
<1>2. ViewAfter(Believed(seen, que), m) \subseteq Users
  <2>1. m.type = \hA1 => m.uids \in SUBSET Users
    BY DEF Message
  <2>2. Believed(seen, que) \subseteq Users
    BY DEF Believed
  <2> QED BY <2>1, <2>2 DEF ViewAfter
<1>3. ASSUME NEW v \in Users
      PROVE  v \in Believed(seen, longer) <=> v \in ViewAfter(Believed(seen, que), m)
  <2>1. CASE Mentions(m, v)
    <3>1. n + 1 \in 1..Len(longer) /\ Mentions(longer[n + 1], v)
      BY <1>1, <2>1
    <3>2. \A i \in 1..n : n + 1 \in (i + 1)..Len(longer)
      BY <1>1
    <3>3. v \in Believed(seen, longer) <=> m.sub = 0
      <4>1. ASSUME v \in Believed(seen, longer) PROVE m.sub = 0
        <5>1. PICK i \in 1..Len(longer) :
                 /\ longer[i].sub = 0
                 /\ \A j \in (i + 1)..Len(longer) : ~Mentions(longer[j], v)
          BY <3>1, <4>1 DEF Believed
        <5>2. i \notin 1..n
          BY <3>1, <3>2, <5>1
        <5>3. i = n + 1
          BY <1>1, <5>2
        <5> QED BY <1>1, <5>1, <5>3
      <4>2. ASSUME m.sub = 0 PROVE v \in Believed(seen, longer)
        <5>1. (n + 1 + 1)..Len(longer) = {}
          BY <1>1
        <5> QED BY <1>1, <3>1, <4>2, <5>1 DEF Believed
      <4> QED BY <4>1, <4>2
    <3> QED BY <2>1, <3>3, ViewAfterMeans
  <2>2. CASE ~Mentions(m, v)
    <3>1. \A i \in 1..Len(longer) : i \in 1..n \/ i = n + 1
      BY <1>1
    <3>2. (\A i \in 1..Len(longer) : ~Mentions(longer[i], v))
             <=> (\A i \in 1..n : ~Mentions(que[i], v))
      BY <1>1, <2>2, <3>1
    <3>3. ASSUME NEW i \in 1..n
          PROVE  (\A j \in (i + 1)..Len(longer) : ~Mentions(longer[j], v))
                    <=> (\A j \in (i + 1)..n : ~Mentions(que[j], v))
      <4>1. \A j \in (i + 1)..Len(longer) : j \in (i + 1)..n \/ j = n + 1
        BY <1>1
      <4>2. \A j \in (i + 1)..n : j \in 1..n /\ j \in (i + 1)..Len(longer)
        BY <1>1
      <4> QED BY <1>1, <2>2, <4>1, <4>2
    <3>4. \A i \in 1..n : i \in 1..Len(longer)
      BY <1>1
    <3>5. (\E i \in 1..Len(longer) :
              /\ Mentions(longer[i], v) /\ longer[i].sub = 0
              /\ \A j \in (i + 1)..Len(longer) : ~Mentions(longer[j], v))
           <=> (\E i \in 1..n :
              /\ Mentions(que[i], v) /\ que[i].sub = 0
              /\ \A j \in (i + 1)..n : ~Mentions(que[j], v))
      <4>1. ASSUME NEW i \in 1..Len(longer),
                   Mentions(longer[i], v), longer[i].sub = 0,
                   \A j \in (i + 1)..Len(longer) : ~Mentions(longer[j], v)
            PROVE  \E k \in 1..n :
                      /\ Mentions(que[k], v) /\ que[k].sub = 0
                      /\ \A j \in (k + 1)..n : ~Mentions(que[j], v)
        <5>1. i \in 1..n
          BY <1>1, <2>2, <3>1, <4>1
        <5>2. que[i] = longer[i]
          BY <1>1, <5>1
        <5> QED BY <3>3, <4>1, <5>1, <5>2
      <4>2. ASSUME NEW i \in 1..n,
                   Mentions(que[i], v), que[i].sub = 0,
                   \A j \in (i + 1)..n : ~Mentions(que[j], v)
            PROVE  \E k \in 1..Len(longer) :
                      /\ Mentions(longer[k], v) /\ longer[k].sub = 0
                      /\ \A j \in (k + 1)..Len(longer) : ~Mentions(longer[j], v)
        <5>1. que[i] = longer[i] /\ i \in 1..Len(longer)
          BY <1>1, <3>4
        <5> QED BY <3>3, <4>2, <5>1
      <4> QED BY <4>1, <4>2
    <3>6. v \in Believed(seen, longer) <=> v \in Believed(seen, que)
      BY <3>2, <3>5 DEF Believed, n
    <3> QED BY <2>2, <3>6, ViewAfterMeans
  <2> QED BY <2>1, <2>2
<1>4. Believed(seen, longer) \subseteq Users
  BY DEF Believed
<1> QED BY <1>2, <1>3, <1>4 DEF longer

LEMMA BelievedTail ==
    ASSUME NEW seen \in SUBSET Users, NEW que \in Seq(Message), que # << >>
    PROVE  Believed(ViewAfter(seen, Head(que)), Tail(que)) = Believed(seen, que)
<1> DEFINE rest == Tail(que)
           h == Head(que)
           after == ViewAfter(seen, h)
           n == Len(que)
<1>1. /\ n \in Nat /\ n >= 1 /\ Len(rest) = n - 1 /\ h = que[1] /\ h \in Message
      /\ \A i \in 1..Len(rest) : rest[i] = que[i + 1]
  BY TailAt
<1> HIDE DEF rest, h, n
<1>2. \A i \in 1..Len(rest) : i + 1 \in 2..n /\ i + 1 \in 1..n
  BY <1>1
<1>3. \A i \in 2..n : i - 1 \in 1..Len(rest) /\ i \in 1..n /\ rest[i - 1] = que[i]
  <2> TAKE i \in 2..n
  <2>1. i - 1 \in 1..Len(rest) /\ (i - 1) + 1 = i
    BY <1>1
  <2> QED BY <1>1, <2>1
<1>4. 1 \in 1..n /\ \A i \in 1..n : i = 1 \/ i \in 2..n
  BY <1>1
<1>5. SUFFICES ASSUME NEW v \in Users
               PROVE  v \in Believed(after, rest) <=> v \in Believed(seen, que)
  BY DEF Believed, rest, h
<1>6. /\ Mentions(h, v) => (v \in after <=> h.sub = 0)
      /\ ~Mentions(h, v) => (v \in after <=> v \in seen)
  BY <1>1, ViewAfterMeans
<1> HIDE DEF after
<1> DEFINE Quiet == \A i \in 1..Len(rest) : ~Mentions(rest[i], v)
           Said(i) == /\ Mentions(que[i], v) /\ que[i].sub = 0
                      /\ \A j \in (i + 1)..n : ~Mentions(que[j], v)
<1>7. Quiet <=> \A i \in 2..n : ~Mentions(que[i], v)
  <2>1. ASSUME Quiet, NEW i \in 2..n PROVE ~Mentions(que[i], v)
    BY <1>3, <2>1
  <2>2. ASSUME \A i \in 2..n : ~Mentions(que[i], v), NEW i \in 1..Len(rest)
        PROVE  ~Mentions(rest[i], v)
    BY <1>1, <1>2, <2>2
  <2> QED BY <2>1, <2>2
<1>8. (\A i \in 1..n : ~Mentions(que[i], v)) <=> ~Mentions(h, v) /\ Quiet
  BY <1>1, <1>3, <1>4, <1>7
<1>9. Said(1) <=> Mentions(h, v) /\ h.sub = 0 /\ Quiet
  <2>1. 1 + 1 = 2
    OBVIOUS
  <2> QED BY <1>1, <1>7, <2>1
<1>10. ASSUME NEW i \in 1..Len(rest)
       PROVE  Said(i + 1) <=> /\ Mentions(rest[i], v) /\ rest[i].sub = 0
                              /\ \A j \in (i + 1)..Len(rest) : ~Mentions(rest[j], v)
  <2>1. ASSUME NEW j \in (i + 1)..Len(rest) PROVE j + 1 \in (i + 1 + 1)..n /\ j \in 1..Len(rest)
    BY <1>1
  <2>2. ASSUME NEW j \in (i + 1 + 1)..n PROVE j - 1 \in (i + 1)..Len(rest) /\ j \in 2..n
    BY <1>1
  <2>3. (\A j \in (i + 1 + 1)..n : ~Mentions(que[j], v))
           <=> (\A j \in (i + 1)..Len(rest) : ~Mentions(rest[j], v))
    <3>1. ASSUME \A j \in (i + 1 + 1)..n : ~Mentions(que[j], v),
                 NEW j \in (i + 1)..Len(rest)
          PROVE  ~Mentions(rest[j], v)
      BY <1>1, <2>1, <3>1
    <3>2. ASSUME \A j \in (i + 1)..Len(rest) : ~Mentions(rest[j], v),
                 NEW j \in (i + 1 + 1)..n
          PROVE  ~Mentions(que[j], v)
      BY <1>3, <2>2, <3>2
    <3> QED BY <3>1, <3>2
  <2> QED BY <1>1, <2>3
<1>11. (\E i \in 2..n : Said(i)) <=> (\E i \in 1..Len(rest) : Said(i + 1))
  <2>1. ASSUME NEW i \in 2..n, Said(i) PROVE \E k \in 1..Len(rest) : Said(k + 1)
    <3>1. i - 1 \in 1..Len(rest) /\ (i - 1) + 1 = i
      BY <1>3
    <3>2. Said((i - 1) + 1)
      BY <2>1, <3>1
    <3> HIDE DEF Said
    <3> QED BY <3>1, <3>2
  <2>2. ASSUME NEW i \in 1..Len(rest), Said(i + 1) PROVE \E k \in 2..n : Said(k)
    <3> HIDE DEF Said
    <3> QED BY <1>2, <2>2
  <2> QED BY <2>1, <2>2
<1>12. (\E i \in 1..n : Said(i)) <=> Said(1) \/ \E i \in 1..Len(rest) : Said(i + 1)
  <2> HIDE DEF Said
  <2> QED BY <1>3, <1>4, <1>11
<1>13. v \in Believed(seen, que) <=>
          \/ v \in seen /\ \A i \in 1..n : ~Mentions(que[i], v)
          \/ \E i \in 1..n : Said(i)
  BY DEF Believed, n
<1>14. v \in Believed(after, rest) <=>
          \/ v \in after /\ Quiet
          \/ \E i \in 1..Len(rest) : Said(i + 1)
  <2>1. (\E i \in 1..Len(rest) : Said(i + 1)) <=>
           (\E i \in 1..Len(rest) :
               /\ Mentions(rest[i], v) /\ rest[i].sub = 0
               /\ \A j \in (i + 1)..Len(rest) : ~Mentions(rest[j], v))
    <3> HIDE DEF Said
    <3> QED BY <1>10
  <2> HIDE DEF Said
  <2> QED BY <2>1 DEF Believed
<1> HIDE DEF Quiet, Said
<1> QED BY <1>6, <1>8, <1>9, <1>12, <1>13, <1>14

LEMMA QuietAppend ==
    ASSUME NEW seen \in SUBSET Users, NEW que \in Seq(Message), NEW m \in Message,
           m.type # \hA1
    PROVE  Believed(seen, Append(que, m)) = Believed(seen, que)
BY BelievedAppend DEF ViewAfter

LEMMA NoticeAppend ==
    ASSUME NEW seen \in SUBSET Users, NEW que \in Seq(Message),
           NEW m \in Message, m.type = \hA1
    PROVE  /\ m.sub = 0 => Believed(seen, Append(que, m)) = Believed(seen, que) \cup m.uids
           /\ m.sub # 0 => Believed(seen, Append(que, m)) = Believed(seen, que) \ m.uids
BY BelievedAppend DEF ViewAfter

LEMMA UnseenStep ==
    ASSUME IInv, QueuesOrdered, UnseenAtFirst, SomeStep
    PROVE  UnseenAtFirst'
<1>1. phase \in [Fd -> Phases] /\ view \in [Fd -> SUBSET Users]
  BY DEF IInv, TypeOK
<1>2. CASE Still
  BY <1>2 DEF Still, client, UnseenAtFirst
<1>3. CASE Stops
  BY <1>3 DEF Stops, Abort, UnseenAtFirst
<1>4. ASSUME NEW f \in Fd, Accept(f) PROVE UnseenAtFirst'
  BY <1>1, <1>4 DEF Accept, UnseenAtFirst
<1>5. ASSUME NEW f \in Fd, NEW m \in Message, Answers(f, m) \/ TurnsDown(f, m)
      PROVE  UnseenAtFirst'
  BY <1>1, <1>5 DEF Answers, TurnsDown, client, UnseenAtFirst
<1>6. ASSUME NEW f \in Fd, NEW u \in Users, LoginAccepted(f, u) PROVE UnseenAtFirst'
  BY <1>1, <1>6 DEF LoginAccepted, UnseenAtFirst
<1>7. ASSUME NEW f \in Fd, NEW u, NEW dst_uid, Forwards(f, u, dst_uid) PROVE UnseenAtFirst'
  BY <1>7 DEF Forwards, client, UnseenAtFirst
<1>8. ASSUME NEW type, NEW sub, NEW u, NEW dst_uid, HandsOn(type, sub, u, dst_uid)
      PROVE  UnseenAtFirst'
  BY <1>8 DEF HandsOn, client, UnseenAtFirst
<1>9. ASSUME NEW f \in Fd, Closes(f) PROVE UnseenAtFirst'
  <2>1. phase' = [phase EXCEPT ![f] = "closed"] /\ view' = [view EXCEPT ![f] = {}]
    BY <1>9, CloseConnMaps DEF Closes, CloseConn
  <2> QED BY <1>1, <2>1 DEF UnseenAtFirst
<1>10. ASSUME NEW f \in Fd, Takes(f) PROVE UnseenAtFirst'
  <2>1. phase[f] \notin {"closed", "fresh"}
    BY <1>10 DEF Takes, IInv, ClosedIsClean, QueuesOrdered, QueueOrdered
  <2>2. phase'[f] \notin {"closed", "fresh"}
        /\ \A g \in Fd \ {f} : phase'[g] = phase[g] /\ view'[g] = view[g]
    BY <1>1, <1>10, <2>1 DEF Takes, Delivered
  <2> QED BY <2>2 DEF UnseenAtFirst
<1> QED BY <1>2, <1>3, <1>4, <1>5, <1>6, <1>7, <1>8, <1>9, <1>10 DEF SomeStep

LEMMA LoginPresence ==
    ASSUME IInv, QueuesOrdered, UnseenAtFirst, PresenceTold,
           NEW f \in Fd, NEW u \in Users, LoginAccepted(f, u)
    PROVE  PresenceTold'
<1> DEFINE online == Online(uid_to_fd')
<1>1. /\ phase[f] = "fresh" /\ view' = view /\ view \in [Fd -> SUBSET Users]
      /\ uid_to_fd' = [uid_to_fd EXCEPT ![u] = f] /\ uid_to_fd \in [Users -> Fd \cup {None}]
      /\ fd_to_uid' = [Remaining(u) EXCEPT ![f] = u]
  BY DEF LoginAccepted, LoginRequest, IInv, TypeOK
<1>2. online = Online(uid_to_fd) \cup {u}
  BY <1>1 DEF Online
<1>3. out.que[f] = << >> /\ view[f] = {}
  BY <1>1 DEF QueuesOrdered, QueueOrdered, UnseenAtFirst
<1> SUFFICES ASSUME NEW g \in Fd, fd_to_uid'[g] # None
             PROVE  Believed(view[g], out'.que[g]) = online \ {fd_to_uid'[g]}
  BY <1>1 DEF PresenceTold, LoggedIn
<1>4. CASE g = f
  <2> DEFINE q1 == Append(<< >>, LoginReply(u))
             q2 == Append(q1, ListOn(u, online))
             q3 == Append(q2, ListOff(u, online))
  <2>1. out'.que[f] = q3 /\ u \in online
    BY <1>3, LoginQueues
  <2>2. LoginReply(u) \in Message /\ LoginReply(u).type # \hA1
    <3>1. OfType(\h90, LoginReply(u))
      BY HeaderTypes DEF LoginReply
    <3> QED BY <3>1 DEF OfType
  <2>3. << >> \in Seq(Message) /\ {} \in SUBSET Users
    OBVIOUS
  <2>4. q1 \in Seq(Message) /\ Believed({}, q1) = {}
    <3>1. q1 \in Seq(Message)
      BY <2>2, <2>3, AppendAt
    <3>2. Believed({}, q1) = Believed({}, << >>)
      BY <2>2, <2>3, QuietAppend
    <3>3. Believed({}, << >>) = {}
      BY <2>3, BelievedEmpty
    <3> QED BY <3>1, <3>2, <3>3
  <2>5. /\ ListOn(u, online) \in Message /\ ListOff(u, online) \in Message
        /\ online \subseteq Users
    <3>1. online \subseteq Users
      BY DEF Online
    <3> HIDE DEF online
    <3>2. ListOn(u, online) \in Message /\ ListOff(u, online) \in Message
      BY <2>1, <3>1, ListsFit
    <3> QED BY <3>1, <3>2
  <2> HIDE DEF q1, online
  <2> DEFINE on == ListOn(u, online)
             off == ListOff(u, online)
  <2>6. /\ on.type = \hA1 /\ on.uids = (Users \ {u}) \cap online /\ on.sub = 0
        /\ off.type = \hA1 /\ off.uids = (Users \ {u}) \ online /\ off.sub # 0
    BY DEF ListOn, ListOff, Presence
  <2> HIDE DEF on, off
  <2>7. q2 \in Seq(Message) /\ Believed({}, q2) = {} \cup on.uids
    <3>1. q2 = Append(q1, on) /\ on \in Message
      BY <2>5 DEF on
    <3>2. Append(q1, on) \in Seq(Message)
      BY <2>4, <3>1, AppendAt
    <3>3. Believed({}, Append(q1, on)) = Believed({}, q1) \cup on.uids
      BY <2>3, <2>4, <2>6, <3>1, NoticeAppend
    <3> HIDE DEF q2
    <3> QED BY <2>4, <3>1, <3>2, <3>3
  <2> HIDE DEF q2
  <2>8. Believed({}, q3) = Believed({}, q2) \ off.uids
    <3>1. q3 = Append(q2, off) /\ off \in Message
      BY <2>5 DEF off
    <3>2. Believed({}, Append(q2, off)) = Believed({}, q2) \ off.uids
      BY <2>3, <2>6, <2>7, <3>1, NoticeAppend
    <3> HIDE DEF q3
    <3> QED BY <3>1, <3>2
  <2>9. fd_to_uid'[f] = u
    BY <1>1, LoginAcceptedMaps
  <2> HIDE DEF q3
  <2> QED BY <1>3, <1>4, <2>1, <2>5, <2>6, <2>7, <2>8, <2>9
<1>5. CASE g # f
  <2>1. /\ g \notin Kicked(u) /\ fd_to_uid'[g] = fd_to_uid[g] /\ fd_to_uid[g] # u
    BY <1>1, <1>5, LoginAcceptedMaps DEF Remaining
  <2>2. out'.que[g] = Append(out.que[g], Presence(TRUE, {u}, 1))
    BY <1>5, <2>1, LoginQueues
  <2>3. Believed(view[g], out.que[g]) = Online(uid_to_fd) \ {fd_to_uid[g]}
    BY <2>1 DEF PresenceTold, LoggedIn
  <2>4. view[g] \in SUBSET Users /\ out.que[g] \in Seq(Message) /\ {u} \in SUBSET Users
    BY <1>1, QueueType
  <2>5. Believed(view[g], out'.que[g]) = Believed(view[g], out.que[g]) \cup {u}
    <3> DEFINE m == Presence(TRUE, {u}, 1)
    <3>1. m \in Message
      BY MessageTypes
    <3>2. m.type = \hA1 /\ m.uids = {u} /\ m.sub = 0
      BY DEF Presence
    <3> HIDE DEF m
    <3>3. Believed(view[g], Append(out.que[g], m)) = Believed(view[g], out.que[g]) \cup m.uids
      BY <2>4, <3>1, <3>2, NoticeAppend
    <3> QED BY <2>2, <3>2, <3>3 DEF m
  <2> HIDE DEF online
  <2> QED BY <1>2, <2>1, <2>3, <2>5
<1> QED BY <1>4, <1>5

LEMMA ClosePresence ==
    ASSUME IInv, PresenceTold, NEW f \in Fd, CloseConn(f)
    PROVE  PresenceTold'
<1>1. /\ view' = [view EXCEPT ![f] = {}] /\ view \in [Fd -> SUBSET Users]
      /\ fd_to_uid' = Unmapped(f) /\ uid_to_fd' = UnmappedUid(f)
      /\ fd_to_uid \in [Fd -> Users \cup {None}] /\ uid_to_fd \in [Users -> Fd \cup {None}]
  BY CloseConnMaps DEF CloseConn, IInv, TypeOK
<1> SUFFICES ASSUME NEW g \in Fd, fd_to_uid'[g] # None
             PROVE  Believed(view'[g], out'.que[g]) = Online(uid_to_fd') \ {fd_to_uid'[g]}
  BY DEF PresenceTold, LoggedIn
<1>2. g # f /\ fd_to_uid'[g] = fd_to_uid[g] /\ view'[g] = view[g]
  BY <1>1 DEF Unmapped
<1>3. Believed(view[g], out.que[g]) = Online(uid_to_fd) \ {fd_to_uid[g]}
  BY <1>2 DEF PresenceTold, LoggedIn
<1>4. Online(uid_to_fd') = Online(uid_to_fd) \ {fd_to_uid[f]}
  BY <1>1 DEF Online, UnmappedUid
<1>5. CASE fd_to_uid[f] = None
  <2>1. out'.que[g] = out.que[g] /\ fd_to_uid[f] \notin Online(uid_to_fd)
    BY <1>2, <1>5, CloseQueues DEF Online
  <2> QED BY <1>2, <1>3, <1>4, <2>1
<1>6. CASE fd_to_uid[f] # None
  <2> DEFINE gone == fd_to_uid[f]
  <2>1. out'.que[g] = Append(out.que[g], Presence(FALSE, {gone}, 1))
    BY <1>2, <1>6, CloseQueues
  <2>2. view[g] \in SUBSET Users /\ out.que[g] \in Seq(Message) /\ {gone} \in SUBSET Users
    BY <1>1, <1>6, QueueType
  <2> HIDE DEF gone
  <2>3. Believed(view[g], out'.que[g]) = Believed(view[g], out.que[g]) \ {gone}
    <3> DEFINE m == Presence(FALSE, {gone}, 1)
    <3>1. m \in Message
      BY <2>2, MessageTypes
    <3>2. m.type = \hA1 /\ m.uids = {gone} /\ m.sub # 0
      BY DEF Presence
    <3> HIDE DEF m
    <3>3. Believed(view[g], Append(out.que[g], m)) = Believed(view[g], out.que[g]) \ m.uids
      BY <2>2, <3>1, <3>2, NoticeAppend
    <3> QED BY <2>1, <3>2, <3>3 DEF m
  <2> QED BY <1>2, <1>3, <1>4, <2>3 DEF gone
<1> QED BY <1>5, <1>6

LEMMA PresenceStep ==
    ASSUME IInv, QueuesOrdered, UnseenAtFirst, PresenceTold, SomeStep
    PROVE  PresenceTold'
<1>1. CASE Still
  BY <1>1 DEF Still, memory, client, PresenceTold
<1>2. CASE Stops
  BY <1>2 DEF Stops, Abort, Nobody, PresenceTold, LoggedIn
<1>3. ASSUME NEW f \in Fd, Accept(f) PROVE PresenceTold'
  BY <1>3 DEF Accept, memory, PresenceTold
(* Messages that are not about presence, appended to some queues.          *)
<1>4. ASSUME NEW m \in Message, m.type # \hA1, NEW o,
             \A g \in Fd : /\ o.que[g] \in Seq(Message)
                           /\ \/ out'.que[g] = o.que[g]
                              \/ out'.que[g] = Append(o.que[g], m)
                           /\ Believed(view[g], o.que[g]) = Believed(view[g], out.que[g]),
             UNCHANGED <<uid_to_fd, fd_to_uid, view>>
      PROVE  PresenceTold'
  <2> SUFFICES ASSUME NEW g \in Fd, fd_to_uid[g] # None
               PROVE  Believed(view[g], out'.que[g]) = Online(uid_to_fd) \ {fd_to_uid[g]}
    BY <1>4 DEF PresenceTold, LoggedIn
  <2>1. view[g] \in SUBSET Users /\ o.que[g] \in Seq(Message)
    BY <1>4 DEF IInv, TypeOK
  <2>2. Believed(view[g], out'.que[g]) = Believed(view[g], o.que[g])
    <3>1. Believed(view[g], Append(o.que[g], m)) = Believed(view[g], o.que[g])
      BY <1>4, <2>1, QuietAppend
    <3> QED BY <1>4, <3>1
  <2>3. Believed(view[g], out.que[g]) = Online(uid_to_fd) \ {fd_to_uid[g]}
    BY DEF PresenceTold, LoggedIn
  <2> QED BY <1>4, <2>2, <2>3
<1>5. ASSUME NEW f \in Fd, NEW m \in Message, Answers(f, m) \/ TurnsDown(f, m)
      PROVE  PresenceTold'
  <2>1. Respond(f, m) /\ m.type # \hA1 /\ UNCHANGED <<uid_to_fd, fd_to_uid, view>>
    <3>1. m.type \in Int
      BY DEF Message, Bytes
    <3> QED BY <1>5, <3>1 DEF Answers, TurnsDown, client
  <2>2. \A g \in Fd : out'.que[g] = IF g = f THEN Append(out.que[g], m) ELSE out.que[g]
    BY <2>1, PushAt DEF Respond
  <2>3. \A g \in Fd : /\ out.que[g] \in Seq(Message)
                      /\ out'.que[g] = out.que[g] \/ out'.que[g] = Append(out.que[g], m)
    BY <2>2, QueueType
  <2> QED BY <1>4, <2>1, <2>3
<1>6. ASSUME NEW type \in {\hA7, \hA8, \hA9, \hAA}, NEW sub \in 0..2, NEW u \in Users,
             NEW dst_uid \in Users, HandsOn(type, sub, u, dst_uid)
      PROVE  PresenceTold'
  <2> DEFINE m == File(type, sub, u, dst_uid)
  <2>1. UNCHANGED <<uid_to_fd, fd_to_uid, view>>
    BY <1>6 DEF HandsOn, client
  <2>2. /\ OfType(type, m)
        /\ \A g \in Fd : out'.que[g] = IF fd_to_uid[g] = dst_uid THEN Append(out.que[g], m)
                                                                 ELSE out.que[g]
    BY <1>6, HandOnQueues
  <2> HIDE DEF m
  <2>3. m \in Message
    BY <2>2 DEF OfType
  <2>4. m.type # \hA1
    BY <2>2 DEF OfType
  <2>5. \A g \in Fd : /\ out.que[g] \in Seq(Message)
                      /\ out'.que[g] = out.que[g] \/ out'.que[g] = Append(out.que[g], m)
    BY <2>2, QueueType
  <2> QED BY <1>4, <2>1, <2>3, <2>4, <2>5
<1>7. ASSUME NEW f \in Fd, Closes(f) PROVE PresenceTold'
  BY <1>7, ClosePresence DEF Closes
<1>8. ASSUME NEW f \in Fd, Takes(f) PROVE PresenceTold'
  <2>1. /\ UNCHANGED <<uid_to_fd, fd_to_uid>> /\ view \in [Fd -> SUBSET Users]
        /\ view' = [view EXCEPT ![f] = ViewAfter(@, Head(out.que[f]))]
        /\ out.que[f] \in Seq(Message)
    BY <1>8 DEF Takes, Delivered, IInv, TypeOK
  <2>2. /\ out.que[f] # << >> /\ out'.que[f] = Tail(out.que[f])
        /\ \A g \in Fd \ {f} : out'.que[g] = out.que[g]
    BY <1>8, TakeQueues
  <2>3. Believed(view'[f], out'.que[f]) = Believed(view[f], out.que[f])
    <3>1. view'[f] = ViewAfter(view[f], Head(out.que[f])) /\ view[f] \in SUBSET Users
      BY <2>1
    <3> QED BY <2>1, <2>2, <3>1, BelievedTail
  <2>4. \A g \in Fd : Believed(view'[g], out'.que[g]) = Believed(view[g], out.que[g])
    BY <2>1, <2>2, <2>3
  <2> QED BY <2>1, <2>4 DEF PresenceTold, LoggedIn
<1>9. ASSUME NEW f \in Fd, NEW u \in Users, LoginAccepted(f, u) PROVE PresenceTold'
  BY <1>9, LoginPresence
<1>10. ASSUME NEW f \in Fd, NEW u \in Users, NEW dst_uid \in Uids, Forwards(f, u, dst_uid)
       PROVE  PresenceTold'
  <2>1. PICK reply \in Message, text \in Message :
          /\ OfType(\h93, reply) /\ OfType(\hA3, text)
          /\ \A g \in Fd :
               LET answered == IF g = f THEN Append(out.que[g], reply) ELSE out.que[g]
               IN  out'.que[g] = IF g \in Readers(u, dst_uid)
                                 THEN Append(answered, text) ELSE answered
    BY <1>10, ForwardQueues
  <2>2. UNCHANGED <<uid_to_fd, fd_to_uid, view>>
    BY <1>10 DEF Forwards, client
  <2>3. reply.type # \hA1 /\ text.type # \hA1
    BY <2>1 DEF OfType
  <2> DEFINE o == [que |-> [g \in Fd |-> IF g = f THEN Append(out.que[g], reply)
                                                  ELSE out.que[g]]]
  <2>4. \A g \in Fd : o.que[g] = IF g = f THEN Append(out.que[g], reply) ELSE out.que[g]
    OBVIOUS
  <2> HIDE DEF o
  <2>5. ASSUME NEW g \in Fd
        PROVE  /\ o.que[g] \in Seq(Message)
               /\ Believed(view[g], o.que[g]) = Believed(view[g], out.que[g])
    <3>1. view[g] \in SUBSET Users /\ out.que[g] \in Seq(Message)
      BY DEF IInv, TypeOK
    <3>2. Append(out.que[g], reply) \in Seq(Message)
      BY <3>1
    <3>3. Believed(view[g], Append(out.que[g], reply)) = Believed(view[g], out.que[g])
      BY <2>3, <3>1, QuietAppend
    <3> QED BY <2>4, <3>1, <3>2, <3>3
  <2>6. \A g \in Fd : out'.que[g] = o.que[g] \/ out'.que[g] = Append(o.que[g], text)
    BY <2>1, <2>4
  <2>7. \A g \in Fd : /\ o.que[g] \in Seq(Message)
                      /\ out'.que[g] = o.que[g] \/ out'.que[g] = Append(o.que[g], text)
                      /\ Believed(view[g], o.que[g]) = Believed(view[g], out.que[g])
    BY <2>5, <2>6
  <2> QED BY <1>4, <2>2, <2>3, <2>7
<1> QED BY <1>1, <1>2, <1>3, <1>5, <1>6, <1>7, <1>8, <1>9, <1>10 DEF SomeStep

-----------------------------------------------------------------------------
(* The texts on their way.                                                 *)

TextsIn(que, rec, from, u) ==
    /\ {que[i].rid : i \in Texts(que)} = Due(rec, from, u)
    /\ \A i, j \in Texts(que) : i < j => que[i].rid < que[j].rid

LEMMA TextsMeans ==
    TextsDue <=> \A f \in LoggedIn(fd_to_uid) : TextsIn(out.que[f], record, mark[f], owner[f])
BY DEF TextsDue, TextsIn

LEMMA TextRid ==
    ASSUME NEW que \in Seq(Message), NEW i \in Texts(que)
    PROVE  que[i].rid \in Nat /\ i \in 1..Len(que)
<1>1. que[i] \in Message /\ que[i].type = \hA3 /\ i \in 1..Len(que)
  BY DEF Texts
<1>2. \A m \in Message : m.type = \hA3 => m.rid \in Nat
  BY DEF Message
<1> QED BY <1>1, <1>2

(* A row more in the table is due to its readers and to nobody else.       *)
LEMMA DueAppend ==
    ASSUME NEW rec \in Seq(RecordRow), NEW row \in RecordRow,
           NEW from \in Nat, from <= Len(rec), NEW u
    PROVE  Due(Append(rec, row), from, u) =
              IF ReadBy(row, u) THEN Due(rec, from, u) \cup {Len(rec) + 1} ELSE Due(rec, from, u)
<1> DEFINE more == Append(rec, row)
           n == Len(rec)
<1>1. /\ n \in Nat /\ Len(more) = n + 1 /\ more[n + 1] = row
      /\ \A rid \in 1..n : more[rid] = rec[rid]
  OBVIOUS
<1> HIDE DEF more, n
<1>2. \A rid : rid \in (from + 1)..Len(more) <=> rid \in (from + 1)..n \/ rid = n + 1
  BY <1>1 DEF n
<1>3. \A rid \in (from + 1)..n : rid \in 1..n
  BY <1>1
<1>4. n + 1 \notin (from + 1)..n
  BY <1>1
<1>5. ASSUME NEW rid
      PROVE  rid \in Due(more, from, u) <=>
                rid \in Due(rec, from, u) \/ (rid = n + 1 /\ ReadBy(row, u))
  <2>1. rid \in Due(more, from, u) <=> rid \in (from + 1)..Len(more) /\ ReadBy(more[rid], u)
    BY DEF Due
  <2>2. rid \in Due(rec, from, u) <=> rid \in (from + 1)..n /\ ReadBy(rec[rid], u)
    BY DEF Due, n
  <2> QED BY <1>1, <1>2, <1>3, <1>4, <2>1, <2>2
<1> QED BY <1>5 DEF more, n

(* Another message leaves the texts in a queue as they are.                *)
LEMMA OtherAppendTexts ==
    ASSUME NEW que \in Seq(Message), NEW m \in Message, m.type # \hA3,
           NEW rec, NEW from, NEW u, TextsIn(que, rec, from, u)
    PROVE  TextsIn(Append(que, m), rec, from, u)
<1> DEFINE longer == Append(que, m)
<1>1. /\ Len(que) \in Nat /\ Len(longer) = Len(que) + 1 /\ longer[Len(que) + 1] = m
      /\ \A i \in 1..Len(que) : longer[i] = que[i]
  BY AppendAt
<1> HIDE DEF longer
<1>2. Texts(longer) = Texts(que)
  BY <1>1 DEF Texts
<1>3. \A i \in Texts(que) : longer[i] = que[i]
  BY <1>1 DEF Texts
<1>4. {longer[i].rid : i \in Texts(longer)} = {que[i].rid : i \in Texts(que)}
  BY <1>2, <1>3
<1>5. \A i, j \in Texts(longer) : i < j => longer[i].rid < longer[j].rid
  BY <1>2, <1>3 DEF TextsIn
<1> QED BY <1>4, <1>5 DEF TextsIn, longer

(* The text of the newest row joins the queue of one of its readers.       *)
LEMMA NewAppendTexts ==
    ASSUME NEW que \in Seq(Message), NEW m \in Message, m.type = \hA3,
           NEW rec \in Seq(RecordRow), m.rid = Len(rec) + 1, NEW row \in RecordRow,
           NEW from \in Nat, from <= Len(rec), NEW u, ReadBy(row, u),
           TextsIn(que, rec, from, u)
    PROVE  TextsIn(Append(que, m), Append(rec, row), from, u)
<1> DEFINE longer == Append(que, m)
           n == Len(que)
<1>1. /\ n \in Nat /\ Len(longer) = n + 1 /\ longer[n + 1] = m
      /\ \A i \in 1..n : longer[i] = que[i]
  BY AppendAt
<1>2. Due(Append(rec, row), from, u) = Due(rec, from, u) \cup {m.rid}
  BY DueAppend
<1> HIDE DEF longer
<1>3. Texts(longer) = Texts(que) \cup {n + 1}
  BY <1>1 DEF Texts
<1>4. \A i \in Texts(que) : longer[i] = que[i] /\ i \in 1..n
  BY <1>1 DEF Texts
<1>5. {longer[i].rid : i \in Texts(longer)} = {que[i].rid : i \in Texts(que)} \cup {m.rid}
  BY <1>1, <1>3, <1>4
<1>6. \A i \in Texts(que) : que[i].rid < m.rid
  <2> TAKE i \in Texts(que)
  <2>1. que[i].rid \in Due(rec, from, u)
    BY DEF TextsIn
  <2>2. que[i].rid \in (from + 1)..Len(rec) /\ Len(rec) \in Nat
    BY <2>1 DEF Due
  <2> QED BY <2>2
<1>7. ASSUME NEW i \in Texts(longer), NEW j \in Texts(longer), i < j
      PROVE  longer[i].rid < longer[j].rid
  <2>1. i \in Texts(que)
    <3>1. i # n + 1
      BY <1>1, <1>3, <1>4, <1>7
    <3> QED BY <1>3, <3>1
  <2>2. CASE j \in Texts(que)
    <3>1. que[i].rid < que[j].rid
      BY <1>7, <2>1, <2>2 DEF TextsIn
    <3> QED BY <1>4, <2>1, <2>2, <3>1
  <2>3. CASE j = n + 1
    BY ZenonT(30), <1>1, <1>4, <1>6, <2>1, <2>3
  <2> QED BY <1>3, <2>2, <2>3
<1> QED BY <1>2, <1>5, <1>7 DEF TextsIn, longer

(* The client takes the head: a text becomes the last one it was sent.     *)
LEMMA TailTexts ==
    ASSUME NEW que \in Seq(Message), que # << >>,
           NEW rec \in Seq(RecordRow), NEW from \in Nat, NEW u,
           TextsIn(que, rec, from, u)
    PROVE  LET h == Head(que)
               to == IF h.type = \hA3 THEN h.rid ELSE from
           IN  TextsIn(Tail(que), rec, to, u) /\ (h.type = \hA3 => h.rid <= Len(rec))
<1> DEFINE rest == Tail(que)
           h == Head(que)
           to == IF h.type = \hA3 THEN h.rid ELSE from
<1>1. /\ Len(que) \in Nat /\ Len(que) >= 1 /\ Len(rest) = Len(que) - 1 /\ h = que[1]
      /\ \A i \in 1..Len(rest) : rest[i] = que[i + 1]
  BY TailAt
<1> HIDE DEF rest, h
<1>2. \A i \in Texts(rest) : i + 1 \in Texts(que) /\ rest[i] = que[i + 1] /\ i \in Nat /\ i >= 1
  BY <1>1 DEF Texts
<1>3. \A i \in Texts(que) : i # 1 => i - 1 \in Texts(rest) /\ rest[i - 1] = que[i]
  <2> SUFFICES ASSUME NEW i \in Texts(que), i # 1
               PROVE  i - 1 \in Texts(rest) /\ rest[i - 1] = que[i]
    OBVIOUS
  <2>1. i \in 2..Len(que) /\ que[i].type = \hA3
    BY <1>1 DEF Texts
  <2>2. i - 1 \in 1..Len(rest) /\ (i - 1) + 1 = i
    BY <1>1, <2>1
  <2> QED BY <1>1, <2>1, <2>2 DEF Texts
<1>4. \A i, j \in Texts(rest) : i < j => rest[i].rid < rest[j].rid
  <2> SUFFICES ASSUME NEW i \in Texts(rest), NEW j \in Texts(rest), i < j
               PROVE  rest[i].rid < rest[j].rid
    OBVIOUS
  <2>1. i + 1 < j + 1
    BY <1>2
  <2> QED BY <1>2, <2>1 DEF TextsIn
<1>5. CASE h.type # \hA3
  <2>1. 1 \notin Texts(que)
    BY <1>1, <1>5 DEF Texts
  <2>2. {rest[i].rid : i \in Texts(rest)} = {que[i].rid : i \in Texts(que)}
    BY <1>2, <1>3, <2>1
  <2> QED BY <1>4, <1>5, <2>2 DEF TextsIn, rest, h
<1>6. CASE h.type = \hA3
  <2>1. 1 \in Texts(que)
    BY <1>1, <1>6 DEF Texts
  <2>2. h.rid \in Due(rec, from, u)
    BY <1>1, <2>1 DEF TextsIn
  <2>3. h.rid \in (from + 1)..Len(rec) /\ Len(rec) \in Nat /\ h.rid \in Nat
    BY <2>2 DEF Due
  <2>4. \A i \in Texts(rest) : h.rid < rest[i].rid
    <3> TAKE i \in Texts(rest)
    <3>1. 1 < i + 1
      BY <1>2
    <3> QED BY <1>1, <1>2, <2>1, <3>1 DEF TextsIn
  <2>5. ASSUME NEW rid \in Due(rec, h.rid, u)
        PROVE  \E i \in Texts(rest) : rest[i].rid = rid
    <3>1. rid \in (h.rid + 1)..Len(rec) /\ ReadBy(rec[rid], u)
      BY DEF Due
    <3>2. rid \in Due(rec, from, u)
      BY <2>3, <3>1 DEF Due
    <3>3. PICK i \in Texts(que) : que[i].rid = rid
      BY <3>2 DEF TextsIn
    <3>4. i # 1
      BY <1>1, <2>3, <3>1, <3>3
    <3> QED BY <1>3, <3>3, <3>4
  <2>6. ASSUME NEW i \in Texts(rest)
        PROVE  rest[i].rid \in Due(rec, h.rid, u)
    <3>1. rest[i].rid \in Due(rec, from, u)
      BY <1>2 DEF TextsIn
    <3>2. rest[i].rid \in (from + 1)..Len(rec) /\ ReadBy(rec[rest[i].rid], u)
      BY <3>1 DEF Due
    <3>3. rest[i].rid \in (h.rid + 1)..Len(rec)
      BY <2>3, <2>4, <3>2
    <3> QED BY <3>2, <3>3 DEF Due
  <2>7. {rest[i].rid : i \in Texts(rest)} = Due(rec, h.rid, u)
    BY <2>5, <2>6
  <2>8. TextsIn(rest, rec, h.rid, u) /\ h.rid <= Len(rec)
    BY <1>4, <2>3, <2>7 DEF TextsIn
  <2> QED BY <1>6, <2>8 DEF rest, h
<1> QED BY <1>5, <1>6

Caught(f) ==
    /\ mark[f] <= Len(record)
    /\ TextsIn(out.que[f], record, mark[f], owner[f])

AllCaught == \A f \in LoggedIn(fd_to_uid) : Caught(f)

LEMMA CaughtMeans == AllCaught <=> MarksSaved /\ TextsDue
BY TextsMeans DEF AllCaught, Caught, MarksSaved

LEMMA LoginTexts ==
    ASSUME IInv, QueuesOrdered, AllCaught,
           NEW f \in Fd, NEW u \in Users, LoginAccepted(f, u)
    PROVE  AllCaught'
<1> DEFINE online == Online(uid_to_fd')
           n == Len(record)
<1>1. /\ phase[f] = "fresh" /\ record' = record /\ record \in Seq(RecordRow)
      /\ owner' = [owner EXCEPT ![f] = u] /\ owner \in [Fd -> Users \cup {None}]
      /\ mark' = [mark EXCEPT ![f] = n] /\ mark \in [Fd -> Nat]
      /\ fd_to_uid' = [Remaining(u) EXCEPT ![f] = u]
  BY DEF LoginAccepted, LoginRequest, IInv, TypeOK, tables
<1> SUFFICES ASSUME NEW g \in Fd, fd_to_uid'[g] # None
             PROVE  /\ mark'[g] <= Len(record)
                    /\ TextsIn(out'.que[g], record, mark'[g], owner'[g])
  BY <1>1 DEF AllCaught, Caught, LoggedIn
<1>2. CASE g = f
  <2> DEFINE q1 == Append(<< >>, LoginReply(u))
             q2 == Append(q1, ListOn(u, online))
             q3 == Append(q2, ListOff(u, online))
  <2>1. out.que[f] = << >>
    BY <1>1 DEF QueuesOrdered, QueueOrdered
  <2>2. out'.que[f] = q3 /\ u \in online
    BY <2>1, LoginQueues
  <2>3. LoginReply(u) \in Message /\ LoginReply(u).type # \hA3
    <3>1. OfType(\h90, LoginReply(u))
      BY HeaderTypes DEF LoginReply
    <3> QED BY <3>1 DEF OfType
  <2>4. /\ ListOn(u, online) \in Message /\ ListOff(u, online) \in Message
    BY <2>2, ListsFit DEF Online
  <2>5. ListOn(u, online).type # \hA3 /\ ListOff(u, online).type # \hA3
    BY DEF ListOn, ListOff, Presence
  <2>6. << >> \in Seq(Message) /\ TextsIn(<< >>, record, n, u)
    <3>1. n \in Nat
      BY <1>1
    <3>2. Due(record, n, u) = {}
      BY <3>1 DEF Due
    <3>3. Texts(<< >>) = {}
      BY DEF Texts
    <3> QED BY <3>2, <3>3 DEF TextsIn
  <2> HIDE DEF online, n
  <2>7. q1 \in Seq(Message) /\ TextsIn(q1, record, n, u)
    <3>1. q1 \in Seq(Message)
      BY <2>3, <2>6, AppendAt
    <3> QED BY <2>3, <2>6, <3>1, OtherAppendTexts
  <2> HIDE DEF q1
  <2>8. q2 \in Seq(Message) /\ TextsIn(q2, record, n, u)
    <3>1. q2 \in Seq(Message)
      BY <2>4, <2>7, AppendAt
    <3> QED BY <2>4, <2>5, <2>7, <3>1, OtherAppendTexts
  <2> HIDE DEF q2
  <2>9. TextsIn(q3, record, n, u)
    BY <2>4, <2>5, <2>8, OtherAppendTexts
  <2> HIDE DEF q3
  <2>10. mark'[f] = n /\ owner'[f] = u /\ n <= Len(record)
    BY <1>1 DEF n
  <2> QED BY <1>2, <2>2, <2>9, <2>10
<1>3. CASE g # f
  <2>1. /\ g \notin Kicked(u) /\ fd_to_uid[g] # None
        /\ mark'[g] = mark[g] /\ owner'[g] = owner[g]
    BY <1>1, <1>3, LoginAcceptedMaps DEF Remaining
  <2> DEFINE m == Presence(TRUE, {u}, 1)
  <2>2. out'.que[g] = Append(out.que[g], m)
    BY <1>3, <2>1, LoginQueues
  <2>3. m \in Message
    BY MessageTypes
  <2>4. m.type # \hA3
    BY DEF Presence
  <2> HIDE DEF m
  <2>5. Caught(g) /\ out.que[g] \in Seq(Message)
    BY <2>1, QueueType DEF AllCaught, LoggedIn
  <2> QED BY <2>1, <2>2, <2>3, <2>4, <2>5, OtherAppendTexts DEF Caught
<1> QED BY <1>2, <1>3

LEMMA ForwardTexts ==
    ASSUME IInv, AllCaught, NEW f \in Fd, NEW my_uid \in Users, NEW dst_uid \in Uids,
           Forwards(f, my_uid, dst_uid)
    PROVE  AllCaught'
<1> DEFINE row == [sendid |-> my_uid, recvid |-> dst_uid]
<1>1. PICK reply \in Message, text \in Message :
        /\ OfType(\h93, reply) /\ OfType(\hA3, text) /\ text.rid = Len(record) + 1
        /\ \A g \in Fd :
             LET answered == IF g = f THEN Append(out.que[g], reply) ELSE out.que[g]
             IN  out'.que[g] = IF g \in Readers(my_uid, dst_uid)
                               THEN Append(answered, text) ELSE answered
  BY ForwardQueues
<1>2. /\ UNCHANGED <<fd_to_uid, mark, owner>> /\ mark \in [Fd -> Nat]
      /\ record' = Append(record, row) /\ record \in Seq(RecordRow) /\ row \in RecordRow
  BY DEF Forwards, SaveAndForward, SaveMessage, client, IInv, TypeOK, RecordRow
<1>3. reply.type # \hA3 /\ text.type = \hA3
  BY <1>1 DEF OfType
<1> SUFFICES ASSUME NEW g \in Fd, fd_to_uid[g] # None
             PROVE  /\ mark[g] <= Len(record')
                    /\ TextsIn(out'.que[g], record', mark[g], owner[g])
  BY <1>2 DEF AllCaught, Caught, LoggedIn
<1>4. /\ Caught(g) /\ out.que[g] \in Seq(Message)
      /\ g \in Readers(my_uid, dst_uid) <=> ReadBy(row, owner[g])
  BY QueueType DEF AllCaught, LoggedIn, Readers, IInv, SessionIsOwned
<1> DEFINE answered == IF g = f THEN Append(out.que[g], reply) ELSE out.que[g]
<1>5. answered \in Seq(Message) /\ TextsIn(answered, record, mark[g], owner[g])
  <2>1. TextsIn(out.que[g], record, mark[g], owner[g])
    BY <1>4 DEF Caught
  <2>2. Append(out.que[g], reply) \in Seq(Message)
    BY <1>4, AppendAt
  <2>3. TextsIn(Append(out.que[g], reply), record, mark[g], owner[g])
    BY <1>3, <1>4, <2>1, OtherAppendTexts
  <2> QED BY <1>4, <2>1, <2>2, <2>3
<1>6. out'.que[g] = IF g \in Readers(my_uid, dst_uid) THEN Append(answered, text) ELSE answered
  BY <1>1
<1> HIDE DEF answered, row
<1>7. mark[g] \in Nat /\ mark[g] <= Len(record) /\ Len(record') = Len(record) + 1
      /\ Len(record) \in Nat
  BY <1>2, <1>4 DEF Caught
<1>8. CASE g \in Readers(my_uid, dst_uid)
  <2>1. TextsIn(Append(answered, text), Append(record, row), mark[g], owner[g])
    BY <1>1, <1>2, <1>3, <1>4, <1>5, <1>7, <1>8, NewAppendTexts
  <2> QED BY <1>2, <1>6, <1>7, <1>8, <2>1
<1>9. CASE g \notin Readers(my_uid, dst_uid)
  <2>1. Due(Append(record, row), mark[g], owner[g]) = Due(record, mark[g], owner[g])
    BY <1>2, <1>4, <1>7, <1>9, DueAppend
  <2>2. TextsIn(answered, record', mark[g], owner[g])
    BY <1>2, <1>5, <2>1 DEF TextsIn
  <2> QED BY <1>6, <1>7, <1>9, <2>2
<1> QED BY <1>8, <1>9

LEMMA TextsStep ==
    ASSUME IInv, QueuesOrdered, AllCaught, SomeStep
    PROVE  AllCaught'
<1>1. CASE Still
  BY <1>1 DEF Still, memory, client, AllCaught, Caught
<1>2. CASE Stops
  BY <1>2 DEF Stops, Abort, Nobody, AllCaught, LoggedIn
<1>3. ASSUME NEW f \in Fd, Accept(f) PROVE AllCaught'
  BY <1>3 DEF Accept, memory, tables, AllCaught, Caught
(* A message that is not a text, appended to some queues.                  *)
<1>4. ASSUME NEW m \in Message, m.type # \hA3,
             \A g \in Fd : out'.que[g] = out.que[g] \/ out'.que[g] = Append(out.que[g], m),
             UNCHANGED <<fd_to_uid, mark, owner, record>>
      PROVE  AllCaught'
  <2> SUFFICES ASSUME NEW g \in Fd, fd_to_uid[g] # None
               PROVE  /\ mark[g] <= Len(record)
                      /\ TextsIn(out'.que[g], record, mark[g], owner[g])
    BY <1>4 DEF AllCaught, Caught, LoggedIn
  <2>1. Caught(g) /\ out.que[g] \in Seq(Message)
    BY QueueType DEF AllCaught, LoggedIn
  <2>2. TextsIn(Append(out.que[g], m), record, mark[g], owner[g])
    BY <1>4, <2>1, OtherAppendTexts DEF Caught
  <2> QED BY <1>4, <2>1, <2>2 DEF Caught
<1>5. ASSUME NEW f \in Fd, NEW m \in Message, Answers(f, m) \/ TurnsDown(f, m)
      PROVE  AllCaught'
  <2>1. Respond(f, m) /\ m.type # \hA3 /\ UNCHANGED <<fd_to_uid, mark, owner, record>>
    <3>1. m.type \in Int
      BY DEF Message, Bytes
    <3> QED BY <1>5, <3>1 DEF Answers, TurnsDown, client
  <2>2. \A g \in Fd : out'.que[g] = IF g = f THEN Append(out.que[g], m) ELSE out.que[g]
    BY <2>1, PushAt DEF Respond
  <2>3. \A g \in Fd : out'.que[g] = out.que[g] \/ out'.que[g] = Append(out.que[g], m)
    BY <2>2
  <2> QED BY <1>4, <2>1, <2>3
<1>6. ASSUME NEW type \in {\hA7, \hA8, \hA9, \hAA}, NEW sub \in 0..2, NEW u \in Users,
             NEW dst_uid \in Users, HandsOn(type, sub, u, dst_uid)
      PROVE  AllCaught'
  <2> DEFINE m == File(type, sub, u, dst_uid)
  <2>1. UNCHANGED <<fd_to_uid, mark, owner, record>>
    BY <1>6 DEF HandsOn, client
  <2>2. /\ OfType(type, m)
        /\ \A g \in Fd : out'.que[g] = IF fd_to_uid[g] = dst_uid THEN Append(out.que[g], m)
                                                                 ELSE out.que[g]
    BY <1>6, HandOnQueues
  <2> HIDE DEF m
  <2>3. m \in Message
    BY <2>2 DEF OfType
  <2>4. m.type # \hA3
    BY <2>2 DEF OfType
  <2>5. \A g \in Fd : out'.que[g] = out.que[g] \/ out'.que[g] = Append(out.que[g], m)
    BY <2>2
  <2> QED BY <1>4, <2>1, <2>3, <2>4, <2>5
<1>7. ASSUME NEW f \in Fd, Closes(f) PROVE AllCaught'
  <2> DEFINE m == Presence(FALSE, {fd_to_uid[f]}, 1)
  <2>1. /\ owner' = [owner EXCEPT ![f] = None] /\ mark' = [mark EXCEPT ![f] = 0]
        /\ owner \in [Fd -> Users \cup {None}] /\ mark \in [Fd -> Nat]
        /\ fd_to_uid' = Unmapped(f) /\ fd_to_uid \in [Fd -> Users \cup {None}]
        /\ record' = record /\ CloseConn(f)
    BY <1>7, CloseConnMaps DEF Closes, CloseConn, IInv, TypeOK
  <2> SUFFICES ASSUME NEW g \in Fd, fd_to_uid'[g] # None
               PROVE  /\ mark'[g] <= Len(record)
                      /\ TextsIn(out'.que[g], record, mark'[g], owner'[g])
    BY <2>1 DEF AllCaught, Caught, LoggedIn
  <2>2. /\ g # f /\ fd_to_uid[g] # None /\ mark'[g] = mark[g] /\ owner'[g] = owner[g]
    BY <2>1 DEF Unmapped
  <2>3. Caught(g) /\ out.que[g] \in Seq(Message)
    BY <2>2, QueueType DEF AllCaught, LoggedIn
  <2>4. out'.que[g] = IF fd_to_uid[f] # None THEN Append(out.que[g], m) ELSE out.que[g]
    BY <2>1, <2>2, CloseQueues
  <2>5. fd_to_uid[f] # None => m \in Message
    BY <2>1, MessageTypes
  <2>6. m.type # \hA3
    BY DEF Presence
  <2> HIDE DEF m
  <2>7. fd_to_uid[f] # None => TextsIn(Append(out.que[g], m), record, mark[g], owner[g])
    BY <2>3, <2>5, <2>6, OtherAppendTexts DEF Caught
  <2> QED BY <2>2, <2>3, <2>4, <2>7 DEF Caught
<1>8. ASSUME NEW f \in Fd, Takes(f) PROVE AllCaught'
  <2> DEFINE h == Head(out.que[f])
  <2>1. /\ UNCHANGED <<fd_to_uid, owner, record>> /\ mark \in [Fd -> Nat]
        /\ record \in Seq(RecordRow)
        /\ mark' = [mark EXCEPT ![f] = IF h.type = \hA3 THEN h.rid ELSE @]
    BY <1>8 DEF Takes, Delivered, IInv, TypeOK
  <2>2. /\ out.que[f] # << >> /\ out'.que[f] = Tail(out.que[f])
        /\ \A g \in Fd \ {f} : out'.que[g] = out.que[g]
    BY <1>8, TakeQueues
  <2> SUFFICES ASSUME NEW g \in Fd, fd_to_uid[g] # None
               PROVE  /\ mark'[g] <= Len(record)
                      /\ TextsIn(out'.que[g], record, mark'[g], owner[g])
    BY <2>1 DEF AllCaught, Caught, LoggedIn
  <2>3. Caught(g) /\ out.que[g] \in Seq(Message)
    BY QueueType DEF AllCaught, LoggedIn
  <2>4. CASE g # f
    BY <2>1, <2>2, <2>3, <2>4 DEF Caught
  <2>5. CASE g = f
    <3>1. mark'[f] = IF h.type = \hA3 THEN h.rid ELSE mark[f]
      BY <2>1
    <3>2. TextsIn(out.que[f], record, mark[f], owner[f]) /\ mark[f] <= Len(record)
          /\ mark[f] \in Nat
      BY <2>1, <2>3, <2>5 DEF Caught
    <3>3. /\ TextsIn(Tail(out.que[f]), record, mark'[f], owner[f])
          /\ h.type = \hA3 => h.rid <= Len(record)
      BY <2>1, <2>2, <2>3, <2>5, <3>1, <3>2, TailTexts
    <3> HIDE DEF h
    <3> QED BY <2>2, <2>5, <3>1, <3>2, <3>3
  <2> QED BY <2>4, <2>5
<1>9. ASSUME NEW f \in Fd, NEW u \in Users, LoginAccepted(f, u) PROVE AllCaught'
  BY <1>9, LoginTexts
<1>10. ASSUME NEW f \in Fd, NEW u \in Users, NEW dst_uid \in Uids, Forwards(f, u, dst_uid)
       PROVE  AllCaught'
  BY <1>10, ForwardTexts
<1> QED BY <1>1, <1>2, <1>3, <1>5, <1>6, <1>7, <1>8, <1>9, <1>10 DEF SomeStep

-----------------------------------------------------------------------------
(* The theorems.                                                           *)

LEMMA InitQInv == Init => QInv
<1> SUFFICES ASSUME Init PROVE QInv
  OBVIOUS
<1>1. /\ \A f \in Fd : out.que[f] = << >> /\ phase[f] = "closed" /\ view[f] = {}
      /\ LoggedIn(fd_to_uid) = {}
  BY DEF Init, Empty, Nobody, LoggedIn
<1>2. QueuesOrdered
  BY <1>1, EmptyOrdered DEF QueuesOrdered
<1>3. UserlistFits /\ NoMisdelivery
  BY <1>1, EmptyAddressed, AddressedMeans DEF QueuesAddressed
<1> QED BY <1>1, <1>2, <1>3 DEF QInv, UnseenAtFirst, PresenceTold, MarksSaved, TextsDue

LEMMA NextQInv == IInv /\ QInv /\ [Next]_vars => QInv'
<1> SUFFICES ASSUME IInv, QInv, [Next]_vars PROVE QInv'
  OBVIOUS
<1>1. SomeStep
  BY NextStep
<1>2. QueuesOrdered'
  BY <1>1, OrderedStep DEF QInv
<1>3. UserlistFits' /\ NoMisdelivery'
  <2>1. QueuesAddressed
    BY AddressedMeans DEF QInv
  <2>2. QueuesAddressed'
    BY <1>1, <2>1, AddressedStep DEF QInv
  <2>3. QueuesAddressed' <=> UserlistFits' /\ NoMisdelivery'
    BY AddressedMeans, PTL
  <2> QED BY <2>2, <2>3
<1>4. UnseenAtFirst' /\ PresenceTold'
  BY <1>1, UnseenStep, PresenceStep DEF QInv
<1>5. MarksSaved' /\ TextsDue'
  <2>1. AllCaught
    BY CaughtMeans DEF QInv
  <2>2. AllCaught'
    BY <1>1, <2>1, TextsStep DEF QInv
  <2>3. AllCaught' <=> MarksSaved' /\ TextsDue'
    BY CaughtMeans, PTL
  <2> QED BY <2>2, <2>3
<1> QED BY <1>2, <1>3, <1>4, <1>5 DEF QInv

LEMMA SpecQInv == Spec => []QInv
BY SpecIInv, InitQInv, NextQInv, PTL DEF Spec

(* What a client hears first is the reply to its login, and it hears it    *)
(* once: TcpClient takes its own uid from it.                              *)
THEOREM RepliesComeFirst == Spec => []LoginReplyFirst
<1>1. QInv => LoginReplyFirst
  BY DEF QInv, QueuesOrdered, QueueOrdered, LoginReplyFirst
<1> QED BY <1>1, SpecQInv, PTL

(* parse_login, lines 288-305: no notice, text or file of the user follows *)
(* the 0xA0 that ends a session.                                           *)
THEOREM ShutdownIsLast == Spec => []NothingAfterShutdown
<1>1. QInv => NothingAfterShutdown
  BY DEF QInv, QueuesOrdered, QueueOrdered, NothingAfterShutdown
<1> QED BY <1>1, SpecQInv, PTL

(* push_userlist, lines 546-588: the lists are as long as their payloads   *)
(* were sized for, however logins and closings interleave.                 *)
THEOREM UserlistsFit == Spec => []UserlistFits
<1>1. QInv => UserlistFits
  BY DEF QInv
<1> QED BY <1>1, SpecQInv, PTL

(* A file message is only ever queued to the client of the user it names.  *)
THEOREM FilesReachTheirUser == Spec => []NoMisdelivery
<1>1. QInv => NoMisdelivery
  BY DEF QInv
<1> QED BY <1>1, SpecQInv, PTL

(* Once a client has read what is queued to it, it believes exactly those  *)
(* users online that have a session: lists and notices, in the order       *)
(* parse_login and close_conn queue them, neither miss nor invent a user.  *)
THEOREM PresenceIsTold == Spec => []PresenceTold
<1>1. QInv => PresenceTold
  BY DEF QInv
<1> QED BY <1>1, SpecQInv, PTL

(* parse_textmsg: from its login on a client is sent every text it is to   *)
(* read, once, in the order of the table, and no other.                    *)
THEOREM TextsAreDelivered == Spec => []TextsDue
<1>1. QInv => TextsDue
  BY DEF QInv
<1> QED BY <1>1, SpecQInv, PTL
=============================================================================
