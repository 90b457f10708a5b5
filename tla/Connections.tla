---------------------------- MODULE Connections ----------------------------
(***************************************************************************)
(* The session and routing core of the chat server,                        *)
(* src/server/Connections.cpp, over the database of Database.tla.          *)
(*                                                                         *)
(* The server is one thread: TCPServer::loop() calls recv_msg, send_msg    *)
(* and close_conn one at a time, so each handler is one action.  What      *)
(* interleaves is the clients: their requests, their disconnections and    *)
(* the moments at which their sockets take more output.                    *)
(*                                                                         *)
(* A frame is received or sent by one action here; FrameReader and         *)
(* FrameWriter split it into the partial reads and writes.                 *)
(*                                                                         *)
(* Messages keep the header's type and sub_type as numbers.  The payload   *)
(* keeps what routing and the clients depend on: uids and, for a text, the *)
(* rid of the row it was saved as.                                         *)
(*                                                                         *)
(* Some operators are preceded by a variant of theirs (PushUnset before    *)
(* Push): what a slip in that place of the code would make of it.  No      *)
(* behaviour uses a variant; each shows that a property depends on the     *)
(* place, see the table in the README.                                     *)
(*                                                                         *)
(* The Makefile does not define NDEBUG: a failed assert, like an exception *)
(* nobody catches, ends the daemon (Abort).  The tables survive it.        *)
(***************************************************************************)
EXTENDS Database

CONSTANTS
    Fd,          \* descriptors the kernel hands out for client sockets
    Ops,         \* the kinds of request the clients make
    DbFaults,    \* TRUE: any query may fail
    Crashes,     \* TRUE: the daemon may be killed between two handlers
    RecordCnt,   \* column rcnt: how many rows a history answer holds
    MaxQue,      \* bound: no request while a queue holds this many messages
    MaxRecords,  \* bound on the rows of record
    MaxFiles     \* bound on the tid and the file sizes of filetrans

ASSUME ConnectionsAssumption ==
    /\ None \notin Fd
    /\ DbFaults \in BOOLEAN /\ Crashes \in BOOLEAN
    /\ RecordCnt \in Nat /\ MaxQue \in Nat /\ MaxRecords \in Nat /\ MaxFiles \in Nat

VARIABLES
    daemon,     \* "up", or why the process ended
    out,        \* send_que of every connection and the set _wfds
    uid_to_fd,  \* _uid_to_fd, None where the map has no key
    fd_to_uid,  \* _fd_to_uid, likewise
    login, record, filetrans,   \* the tables
    phase,      \* how far the client at the other end of a socket has come
    owner,      \* whom that client logged in as
    view,       \* the users it was last told are online
    mark        \* the rid of the last text it was sent since it logged in

memory == <<out, uid_to_fd, fd_to_uid>>
tables == <<login, record, filetrans>>
client == <<phase, owner, view, mark>>
vars   == <<daemon, memory, tables, client>>

(* phase[f] = "closed" iff f is not in _client_fds.  A client logs in once *)
(* per connection (TcpClient::login), and asks for anything else only      *)
(* after a reply that lets it in.                                          *)
Phases == {"closed", "fresh", "asking", "in"}

Sites == {"other_fd", "login_twice", "push_online", "userlist", "logged_in",
          "transfile", "close_conn", "send_que", "killed"}

-----------------------------------------------------------------------------
(* Messages.                                                               *)
Plain(type, sub)     == [type |-> type, sub |-> sub]
Shutdown             == Plain(\hA0, 0)
Unknown(request)     == Plain(request + \h80, \hFF)
(* Presence: the uids written into the payload, and how many uids the      *)
(* payload was sized for.                                                  *)
Presence(online, uids, slots) ==
    [type |-> \hA1, sub |-> IF online THEN 0 ELSE 1, uids |-> uids, slots |-> slots]
Name(uid)            == [type |-> \h91, sub |-> 0, uid |-> uid]
History(rids)        == [type |-> \h92, sub |-> 0, rids |-> rids]
Text(sub, src, rid)  == [type |-> \hA3, sub |-> sub, src |-> src, rid |-> rid]
(* A file message keeps what the client sent but the type: dst comes first.*)
File(type, sub, src, dst) == [type |-> type, sub |-> sub, src |-> src, dst |-> dst]

Bytes == 0..255

Message ==
    [type : Bytes \ {\hA1, \hA3}, sub : Bytes]
    \cup [type : {\hA1}, sub : {0, 1}, uids : SUBSET Users, slots : Nat]
    \cup [type : {\h91}, sub : {0}, uid : Users]
    \cup [type : {\h92}, sub : {0}, rids : SUBSET Nat]
    \cup [type : {\hA3}, sub : {0, 1}, src : Users, rid : Nat]
    \cup [type : {\hA7, \hA8, \hA9, \hAA}, sub : 0..2, src : Users, dst : Users]

(* send_header() answers false once it has written the header of such a    *)
(* message, and the connection is closed.                                  *)
TerminalButShutdown(m) == m.sub = \hFF \/ (m.type = \h90 /\ m.sub >= \h10)
Terminal(m) ==
    \/ m.type = \hA0
    \/ m.sub = \hFF
    \/ m.type = \h90 /\ m.sub >= \h10

-----------------------------------------------------------------------------
(* The pushes.  Each appends to a queue and sets the descriptor in _wfds.  *)
PushUnset(o, fds, m) ==
    [o EXCEPT !.que = [f \in Fd |-> IF f \in fds THEN Append(@[f], m) ELSE @[f]]]
Push(o, fds, m) ==
    [que  |-> [f \in Fd |-> IF f \in fds THEN Append(o.que[f], m) ELSE o.que[f]],
     wfds |-> o.wfds \cup fds]

LoggedIn(f2u) == {f \in Fd : f2u[f] # None}
Online(u2f)   == {u \in Users : u2f[u] # None}

PushOnlineAlways(o, f2u, uid, online) ==
    Push(o, LoggedIn(f2u), Presence(TRUE, {uid}, 1))
PushOnline(o, f2u, uid, online) ==
    Push(o, LoggedIn(f2u), Presence(online, {uid}, 1))

(* The payloads are sized from the maps, then filled from the table: no    *)
(* two counts need agree.                                                  *)
Userlist(o, fd, listed, online) ==
    LET on  == Presence(TRUE, listed \cap online, Cardinality(online) - 1)
        off == Presence(FALSE, listed \ online, Cardinality(Users) - Cardinality(online))
    IN  Push(Push(o, {fd}, on), {fd}, off)

PushUserlistTooSoon(o, u2f, fd, my_uid) ==
    Userlist(o, fd, Users \ {my_uid}, Online(u2f) \ {my_uid})
PushUserlistWithSelf(o, u2f, fd, my_uid) == Userlist(o, fd, Users, Online(u2f))
PushUserlist(o, u2f, fd, my_uid) == Userlist(o, fd, Users \ {my_uid}, Online(u2f))

PushTextmsgToAuthor(o, f2u, u2f, src_uid, dst_uid, rid) ==
    Push(o, IF dst_uid = ALL THEN LoggedIn(f2u) ELSE {u2f[dst_uid]},
         Text(IF dst_uid = ALL THEN 1 ELSE 0, src_uid, rid))
PushTextmsg(o, f2u, u2f, src_uid, dst_uid, rid) ==
    IF dst_uid = ALL
    THEN Push(o, {f \in LoggedIn(f2u) : f2u[f] # src_uid}, Text(1, src_uid, rid))
    ELSE Push(o, {u2f[dst_uid]}, Text(0, src_uid, rid))

PushTransfileBack(o, u2f, type, sub, src_uid, dst_uid) ==
    Push(o, {u2f[src_uid]}, File(type, sub, src_uid, dst_uid))
PushTransfile(o, u2f, type, sub, src_uid, dst_uid) ==
    Push(o, {u2f[dst_uid]}, File(type, sub, src_uid, dst_uid))

-----------------------------------------------------------------------------
Nobody == [f \in Fd |-> None]
Empty  == [que |-> [f \in Fd |-> << >>], wfds |-> {}]

Init ==
    /\ daemon = "up"
    /\ out = Empty
    /\ uid_to_fd = [u \in Users |-> None]
    /\ fd_to_uid = Nobody
    /\ login \in [Users -> LoginRow]
    /\ record = << >>
    /\ filetrans = {}
    /\ phase = [f \in Fd |-> "closed"]
    /\ owner = Nobody
    /\ view = [f \in Fd |-> {}]
    /\ mark = [f \in Fd |-> 0]

(* The process ends: its memory is gone and the kernel closes its sockets. *)
Abort(site) ==
    /\ daemon' = site
    /\ out' = Empty
    /\ uid_to_fd' = [u \in Users |-> None]
    /\ fd_to_uid' = Nobody
    /\ phase' = [f \in Fd |-> "closed"]
    /\ owner' = Nobody
    /\ view' = [f \in Fd |-> {}]
    /\ mark' = [f \in Fd |-> 0]

(* Nothing in the repository restarts the daemon: an operator does.        *)
Restart ==
    /\ daemon # "up"
    /\ daemon' = "up"
    /\ UNCHANGED <<memory, tables, client>>

Kill ==
    /\ Crashes /\ daemon = "up"
    /\ Abort("killed")
    /\ UNCHANGED tables

(* What a query may return: 0, or -1 as well when queries fail.            *)
QueryOk == IF DbFaults THEN BOOLEAN ELSE {TRUE}

(* The daemon reads a whole frame of kind op from f.  The bound MaxQue     *)
(* keeps the queues finite: clients make no request while one is long.     *)
Request(op, f) ==
    /\ daemon = "up" /\ op \in Ops
    /\ phase[f] = "in"
    /\ \A g \in Fd : Len(out.que[g]) < MaxQue

(* assert(_uid_to_fd.at(_fd_to_uid.at(fd)) == fd), first thing in every    *)
(* handler that needs to know who is asking.  at() throws when a key is    *)
(* missing.                                                                *)
LoggedInAs(f, u) == fd_to_uid[f] = u /\ uid_to_fd[u] = f

NotLoggedIn(f) ==
    /\ \A u \in Users : ~LoggedInAs(f, u)
    /\ Abort("logged_in")

Respond(f, m) == out' = Push(out, {f}, m)

-----------------------------------------------------------------------------
(* The kernel accepts a connection (TCPServer::accept_sock) and gives it   *)
(* some free descriptor.  Connections keeps a Conn for every descriptor    *)
(* and is not told.                                                        *)
Accept(f) ==
    /\ daemon = "up"
    /\ phase[f] = "closed"
    /\ \A g \in Fd : Len(out.que[g]) < MaxQue
    /\ phase' = [phase EXCEPT ![f] = "fresh"]
    /\ UNCHANGED <<daemon, memory, tables, owner, view, mark>>

-----------------------------------------------------------------------------
(* parse_login.  The login request of the client on f, which names the     *)
(* user u, or nobody, with password p.                                     *)
LoginRequest(f) ==
    /\ daemon = "up"
    /\ phase[f] = "fresh"
    /\ \A g \in Fd : Len(out.que[g]) < MaxQue

LoginFault(f) ==
    /\ LoginRequest(f) /\ DbFaults
    /\ Respond(f, Unknown(\h10))
    /\ phase' = [phase EXCEPT ![f] = "asking"]
    /\ UNCHANGED <<daemon, uid_to_fd, fd_to_uid, tables, owner, view, mark>>

LoginRefused(f) ==
    /\ LoginRequest(f)
    /\ \/ Strangers # {}
       \/ \E u \in Users, p \in Pwd : ~LoginCheck(login, u, p)
    /\ Respond(f, Plain(\h90, \hF0))
    /\ phase' = [phase EXCEPT ![f] = "asking"]
    /\ UNCHANGED <<daemon, uid_to_fd, fd_to_uid, tables, owner, view, mark>>

(* Another session of u ends here, unless u has yet to change the initial  *)
(* password: that case is tested first and its branch does not look.       *)
Kicked(u) == IF login[u].first \/ uid_to_fd[u] = None THEN {} ELSE {uid_to_fd[u]}

LoginReply(u) ==
    Plain(\h90, IF login[u].first THEN 1 ELSE IF Kicked(u) # {} THEN 2 ELSE 0)

(* _fd_to_uid once the other session's entries are erased.                 *)
Remaining(u) == [g \in Fd |-> IF g \in Kicked(u) THEN None ELSE fd_to_uid[g]]

LoginFails(f, u, site) ==
    \/ /\ site = "other_fd"
       /\ \E g \in Kicked(u) : fd_to_uid[g] # u
    \/ /\ site = "login_twice"
       /\ Remaining(u)[f] # None
    \/ /\ site = "push_online"
       /\ \E g \in Fd : Remaining(u)[g] = u

LoginAborts(f) ==
    /\ LoginRequest(f)
    /\ \E u \in Users, p \in Pwd :
          /\ LoginCheck(login, u, p)
          /\ \/ \E site \in Sites : LoginFails(f, u, site) /\ Abort(site)
             \* get_all_uid leaves its list empty, its result is not looked
             \* at, and the payload is resized to a negative length
             \/ /\ DbFaults
                /\ \A site \in Sites : ~LoginFails(f, u, site)
                /\ Abort("userlist")
    /\ UNCHANGED tables

(* The messages a login that succeeds queues, in the order of the calls.   *)
LoginOutListFirst(f, u, u2f) ==
    LET kicking == Push(out, Kicked(u), Shutdown)
        listed  == PushUserlist(kicking, u2f, f, u)
        replied == Push(listed, {f}, LoginReply(u))
    IN  PushOnline(replied, Remaining(u), u, TRUE)
LoginOutStaleMap(f, u, u2f) ==
    LET kicking == Push(out, Kicked(u), Shutdown)
        replied == Push(kicking, {f}, LoginReply(u))
        told    == PushOnline(replied, fd_to_uid, u, TRUE)
    IN  PushUserlist(told, u2f, f, u)
LoginOutUntold(f, u, u2f) ==
    LET replied == Push(out, {f}, LoginReply(u))
        told    == PushOnline(replied, Remaining(u), u, TRUE)
    IN  PushUserlist(told, u2f, f, u)
LoginOut(f, u, u2f) ==
    LET kicking == Push(out, Kicked(u), Shutdown)
        replied == Push(kicking, {f}, LoginReply(u))
        told    == PushOnline(replied, Remaining(u), u, TRUE)
    IN  PushUserlist(told, u2f, f, u)

LoginAccepted(f, u) ==
    /\ LoginRequest(f)
    /\ \E p \in Pwd : LoginCheck(login, u, p)
    /\ \A site \in Sites : ~LoginFails(f, u, site)
    /\ uid_to_fd' = [uid_to_fd EXCEPT ![u] = f]
    /\ fd_to_uid' = [Remaining(u) EXCEPT ![f] = u]
    /\ out' = LoginOut(f, u, uid_to_fd')
    /\ phase' = [phase EXCEPT ![f] = "asking"]
    /\ owner' = [owner EXCEPT ![f] = u]
    /\ mark' = [mark EXCEPT ![f] = Len(record)]
    /\ UNCHANGED <<daemon, tables, view>>

-----------------------------------------------------------------------------
(* The other requests.                                                     *)

(* parse_username: the one handler that does not ask who is asking.        *)
ParseUsername(f, uid) ==
    /\ Request("username", f)
    /\ \E ok \in QueryOk :
          Respond(f, IF ~ok THEN Unknown(\h11)
                     ELSE IF CheckUid(uid) THEN Name(uid) ELSE Plain(\h91, \hF0))
    /\ UNCHANGED <<daemon, uid_to_fd, fd_to_uid, tables, client>>

(* parse_chatrecord: the caller's history with uid, a user or the group.   *)
ChatrecordAnswer(f, my_uid, uid) ==
    \E ok \in QueryOk, cnt \in {RecordCnt} \cup IF DbFaults THEN {-1} ELSE {} :
        Respond(f, IF ~ok THEN Unknown(\h12)
                   ELSE IF uid = ALL \/ CheckUid(uid)
                        THEN History(SerhMessage(record, my_uid, uid, cnt))
                        ELSE Plain(\h92, \hF0))

ParseChatrecord(f, uid) ==
    /\ Request("chatrecord", f)
    /\ \/ NotLoggedIn(f)
       \/ /\ \E my_uid \in Users :
                LoggedInAs(f, my_uid) /\ ChatrecordAnswer(f, my_uid, uid)
          /\ UNCHANGED <<daemon, uid_to_fd, fd_to_uid, client>>
    /\ UNCHANGED tables

(* parse_textmsg: saved first, even for a uid nobody has, then answered,   *)
(* then forwarded to whoever of its readers is online.                     *)
TextReply(exist, online) ==
    Plain(\h93, IF ~exist THEN \hF0 ELSE IF ~online THEN \hF1 ELSE 0)

SaveAndForward(f, my_uid, dst_uid) ==
    LET exist  == dst_uid = ALL \/ CheckUid(dst_uid)
        online == dst_uid = ALL \/ dst_uid \in Online(uid_to_fd)
        replied == Push(out, {f}, TextReply(exist, online))
    IN  /\ record' = SaveMessage(record, my_uid, dst_uid)
        /\ out' = IF online
                  THEN PushTextmsg(replied, fd_to_uid, uid_to_fd,
                                   my_uid, dst_uid, Len(record'))
                  ELSE replied

ParseTextmsg(f, dst_uid) ==
    /\ Request("textmsg", f)
    /\ Len(record) < MaxRecords
    /\ \/ NotLoggedIn(f) /\ UNCHANGED tables
       \/ /\ \E my_uid \in Users :
                /\ LoggedInAs(f, my_uid)
                /\ \/ SaveAndForward(f, my_uid, dst_uid)
                   \/ DbFaults /\ Respond(f, Unknown(\h13)) /\ UNCHANGED record
          /\ UNCHANGED <<daemon, uid_to_fd, fd_to_uid, login, filetrans, client>>

(* parse_change_pwd.                                                       *)
ParseChangePwd(f, old, new) ==
    /\ Request("change_pwd", f)
    /\ \/ NotLoggedIn(f) /\ UNCHANGED tables
       \/ /\ \E my_uid \in Users, ok \in QueryOk :
                /\ LoggedInAs(f, my_uid)
                /\ \E legal \in UpdateLegal(login, my_uid, old, DbFaults) :
                     LET succeed == legal /\ new # old /\ ok
                     IN  /\ login' = IF succeed THEN SetPasswd(login, my_uid, new)
                                                ELSE login
                         /\ Respond(f, Plain(\h95, IF succeed THEN 0 ELSE \hF0))
          /\ UNCHANGED <<daemon, uid_to_fd, fd_to_uid, record, filetrans, client>>

-----------------------------------------------------------------------------
(* The file requests.  Each names a user; updated[u] is what its query     *)
(* makes of filetrans when u asks.  The query's result is not looked at,   *)
(* and a user who is not online fails an assert, after the update.         *)
Transfile(op, f, type, sub, dst_uid, updated) ==
    /\ Request(op, f)
    /\ \/ NotLoggedIn(f) /\ UNCHANGED tables
       \/ /\ \E my_uid \in Users, ok \in QueryOk :
                /\ LoggedInAs(f, my_uid)
                /\ filetrans' = IF ok THEN updated[my_uid] ELSE filetrans
                /\ \/ /\ dst_uid \in Online(uid_to_fd)
                      /\ out' = PushTransfile(out, uid_to_fd, type, sub, my_uid, dst_uid)
                      /\ UNCHANGED <<daemon, uid_to_fd, fd_to_uid, client>>
                   \/ /\ dst_uid \notin Online(uid_to_fd)
                      /\ Abort("transfile")
          /\ UNCHANGED <<login, record>>

ParseTransfileAskRc(f, dst_uid, tid, siz) ==
    /\ \A row \in filetrans : row.tid < tid
    /\ LET updated == [u \in Users |-> InsertFileRecord(filetrans, tid, u, dst_uid, siz)]
       IN  Transfile("ask", f, \hA7, 0, dst_uid, updated)

ParseTransfileRepSc(f, dst_uid, permit) ==
    LET updated == [u \in Users |->
                      IF permit THEN PermitFileRecord(filetrans, dst_uid, u)
                                ELSE DeleteFileRecord(filetrans, dst_uid, u)]
    IN  Transfile("rep", f, \hA8, IF permit THEN 1 ELSE 2, dst_uid, updated)

ParseTransfileData(f, dst_uid) ==
    LET updated == [u \in Users |-> filetrans]
    IN  Transfile("data", f, \hA9, 0, dst_uid, updated)

(* The acknowledgement is handed to push_transfile_data, not to            *)
(* push_transfile_ack: it leaves as another part of the file.              *)
ParseTransfileAck(f, dst_uid, siz) ==
    LET updated == [u \in Users |-> UpdateFileRecord(filetrans, dst_uid, u, siz)]
    IN  Transfile("ack", f, \hA9, 0, dst_uid, updated)

-----------------------------------------------------------------------------
(* parse_unknown: a frame whose type, sub_type or length no handler takes. *)
(* Of the client's frames these are a login whose name and password do not *)
(* fill their fields and a text of more bytes than parse() lets through.   *)
ParseUnknown(f, type) ==
    /\ \/ Request("unknown", f) /\ type = \h13 /\ UNCHANGED phase
       \/ /\ LoginRequest(f) /\ "unknown" \in Ops /\ type = \h10
          /\ phase' = [phase EXCEPT ![f] = "asking"]
    /\ Respond(f, Unknown(type))
    /\ UNCHANGED <<daemon, uid_to_fd, fd_to_uid, tables, owner, view, mark>>

-----------------------------------------------------------------------------
(* TCPServer::close_sock and close_conn.                                   *)
DropUncleared(o, f) == [o EXCEPT !.wfds = @ \ {f}]
Drop(o, f) == [que |-> [o.que EXCEPT ![f] = << >>], wfds |-> o.wfds \ {f}]

Unmapped(f) == [fd_to_uid EXCEPT ![f] = None]

UnmappedUidForgotten(f) == uid_to_fd
UnmappedUid(f) == [u \in Users |-> IF u = fd_to_uid[f] THEN None ELSE uid_to_fd[u]]

CloseConnFails(f, site) ==
    /\ fd_to_uid[f] # None
    /\ \/ site = "close_conn" /\ uid_to_fd[fd_to_uid[f]] # f
       \/ site = "push_online" /\ \E g \in Fd : Unmapped(f)[g] = fd_to_uid[f]

CloseConn(f) ==
    \/ \E site \in Sites : CloseConnFails(f, site) /\ Abort(site)
    \/ /\ \A site \in Sites : ~CloseConnFails(f, site)
       /\ fd_to_uid' = Unmapped(f)
       /\ uid_to_fd' = UnmappedUid(f)
       /\ out' = Drop(IF fd_to_uid[f] = None THEN out
                      ELSE PushOnline(out, Unmapped(f), fd_to_uid[f], FALSE), f)
       /\ phase' = [phase EXCEPT ![f] = "closed"]
       /\ owner' = [owner EXCEPT ![f] = None]
       /\ view' = [view EXCEPT ![f] = {}]
       /\ mark' = [mark EXCEPT ![f] = 0]
       /\ UNCHANGED daemon

(* The connection is lost, or closed by the client: a read or a write      *)
(* fails, whatever was still in the queue.                                 *)
LoseConn(f) ==
    /\ daemon = "up" /\ phase[f] # "closed"
    /\ CloseConn(f)
    /\ UNCHANGED tables

(* send_msg: the socket takes the message at the front of the queue.       *)
PoppedUncleared(o, f) == [o EXCEPT !.que[f] = Tail(@)]
Popped(o, f) ==
    LET rest == Tail(o.que[f])
    IN  [que  |-> [o.que EXCEPT ![f] = rest],
         wfds |-> IF rest = << >> THEN o.wfds \ {f} ELSE o.wfds]

(* What the client makes of a message: see TcpClient::parseHeader.         *)
ViewAfter(seen, m) ==
    IF m.type # \hA1 THEN seen
    ELSE IF m.sub = 0 THEN seen \cup m.uids ELSE seen \ m.uids

Delivered(f, m) ==
    /\ phase' = [phase EXCEPT ![f] = IF m.type = \h90 THEN "in" ELSE @]
    /\ view' = [view EXCEPT ![f] = ViewAfter(@, m)]
    /\ mark' = [mark EXCEPT ![f] = IF m.type = \hA3 THEN m.rid ELSE @]
    /\ UNCHANGED owner

SendMsg(f) ==
    /\ daemon = "up"
    /\ f \in out.wfds
    /\ \/ out.que[f] = << >> /\ Abort("send_que")
       \/ /\ out.que[f] # << >>
          /\ Terminal(Head(out.que[f]))
          /\ CloseConn(f)
       \/ /\ out.que[f] # << >>
          /\ ~Terminal(Head(out.que[f]))
          /\ out' = Popped(out, f)
          /\ Delivered(f, Head(out.que[f]))
          /\ UNCHANGED <<daemon, uid_to_fd, fd_to_uid>>
    /\ UNCHANGED tables

-----------------------------------------------------------------------------
(* A client picks the other end from its contacts: the group and all users *)
(* but its own.                                                            *)
Requests(f) ==
    \/ \E uid \in Users \cup Strangers : ParseUsername(f, uid)
    \/ \E uid \in Uids \ {owner[f]} : ParseChatrecord(f, uid)
    \/ \E uid \in Uids \ {owner[f]} : ParseTextmsg(f, uid)
    \/ \E old, new \in Pwd : ParseChangePwd(f, old, new)
    \/ \E uid \in Users \ {owner[f]}, tid, siz \in 1..MaxFiles :
            ParseTransfileAskRc(f, uid, tid, siz)
    \/ \E uid \in Users \ {owner[f]}, permit \in BOOLEAN :
            ParseTransfileRepSc(f, uid, permit)
    \/ \E uid \in Users \ {owner[f]} : ParseTransfileData(f, uid)
    \/ \E uid \in Users \ {owner[f]}, siz \in 0..MaxFiles : ParseTransfileAck(f, uid, siz)
    \/ \E type \in {\h10, \h13} : ParseUnknown(f, type)

Next ==
    \/ \E f \in Fd :
          \/ Accept(f)
          \/ LoginFault(f) \/ LoginRefused(f) \/ LoginAborts(f)
          \/ \E u \in Users : LoginAccepted(f, u)
          \/ Requests(f)
          \/ SendMsg(f)
          \/ LoseConn(f)
    \/ Kill
    \/ Restart

Spec == Init /\ [][Next]_vars

(* The loop serves every socket that is ready in each pass, and a client   *)
(* goes on reading (readyRead is connected for the socket's lifetime): a   *)
(* queue that is not empty drains.  Nothing is assumed of what clients     *)
(* ask, of connections, or of the operator.                                *)
FairSpec == Spec /\ \A f \in Fd : WF_vars(SendMsg(f))

-----------------------------------------------------------------------------
(* Properties.                                                             *)

(* Every variable holds values of its type; a message of an unlisted shape *)
(* is never queued.                                                        *)
TypeOK ==
    /\ daemon \in {"up"} \cup Sites
    /\ out \in [que : [Fd -> Seq(Message)], wfds : SUBSET Fd]
    /\ uid_to_fd \in [Users -> Fd \cup {None}]
    /\ fd_to_uid \in [Fd -> Users \cup {None}]
    /\ login \in [Users -> LoginRow]
    /\ record \in Seq(RecordRow)
    /\ filetrans \in SUBSET FiletransRow
    /\ phase \in [Fd -> Phases]
    /\ owner \in [Fd -> Users \cup {None}]
    /\ view \in [Fd -> SUBSET Users]
    /\ mark \in [Fd -> Nat]

(* _uid_to_fd and _fd_to_uid are inverse to each other between any two     *)
(* handlers, through takeovers and closings: what every assert on them and *)
(* every push by uid rests on.                                             *)
SessionsInverse ==
    \A u \in Users, f \in Fd : uid_to_fd[u] = f <=> fd_to_uid[f] = u

(* A descriptor is in _wfds exactly while its queue holds a message: in it *)
(* with an empty queue, send_msg's assert fails; out of it with a message, *)
(* nothing ever sends that message.                                        *)
WritableIffQueued ==
    \A f \in Fd : f \in out.wfds <=> out.que[f] # << >>

(* The kernel gives a closed descriptor to the next client at once: that   *)
(* client must find no queue and no session of its predecessor.            *)
ClosedIsClean ==
    \A f \in Fd : phase[f] = "closed" =>
        /\ out.que[f] = << >> /\ f \notin out.wfds
        /\ fd_to_uid[f] = None /\ owner[f] = None

(* The asserts no sequence of client requests can fail, in parse_login,    *)
(* close_conn, push_online (when a user logs out) and send_msg.            *)
InternalAsserts ==
    daemon \notin {"other_fd", "login_twice", "close_conn", "send_que"}

(* A session belongs to an open connection whose client logged in as its   *)
(* user: fd_to_uid is never a leftover of the descriptor's former client.  *)
SessionIsOwned ==
    \A f \in Fd : fd_to_uid[f] # None =>
        owner[f] = fd_to_uid[f] /\ phase[f] \in {"asking", "in"}

(* The inductive invariant of the proofs: every handler keeps all of the   *)
(* above together, and none of them alone.                                 *)
IInv ==
    /\ TypeOK
    /\ SessionsInverse
    /\ WritableIffQueued
    /\ ClosedIsClean
    /\ SessionIsOwned
    /\ InternalAsserts

(* The reply to a login is the first thing a client hears, and it hears it *)
(* once: TcpClient takes its own uid from it and needs it to read the rest.*)
LoginReplyFirst ==
    \A f \in Fd : \A i \in 1..Len(out.que[f]) :
        /\ phase[f] = "asking" /\ i = 1 => out.que[f][i].type = \h90
        /\ out.que[f][i].type = \h90 /\ out.que[f][i].sub # \hFF
              => i = 1 /\ phase[f] = "asking"

(* Once a connection was told its session is over (0xA0), no presence, no  *)
(* text and no file of the session's user is queued to it any more.        *)
NothingAfterShutdown ==
    \A f \in Fd : \A i, j \in 1..Len(out.que[f]) :
        i < j /\ out.que[f][i].type = \hA0 =>
            fd_to_uid[f] = None /\ out.que[f][j].type < \hA0

(* What a logged-in client will believe of the others once it has read     *)
(* everything queued to it is who is online now: neither the list sent at  *)
(* login nor the notices sent since, in whatever order they were queued,   *)
(* misses a login, a logout or a takeover.  Of each user it believes what  *)
(* the last message about that user says, and what it has seen if none is. *)
Mentions(m, u) == m.type = \hA1 /\ u \in m.uids

Believed(seen, que) ==
    {u \in Users :
       \/ u \in seen /\ \A i \in 1..Len(que) : ~Mentions(que[i], u)
       \/ \E i \in 1..Len(que) :
             /\ Mentions(que[i], u) /\ que[i].sub = 0
             /\ \A j \in (i + 1)..Len(que) : ~Mentions(que[j], u)}

PresenceTold ==
    \A f \in LoggedIn(fd_to_uid) :
        Believed(view[f], out.que[f]) = Online(uid_to_fd) \ {fd_to_uid[f]}

(* push_userlist writes as many uids as it made room for.                  *)
UserlistFits ==
    \A f \in Fd : \A i \in 1..Len(out.que[f]) :
        LET m == out.que[f][i]
        IN  m.type = \hA1 => Cardinality(m.uids) = m.slots

(* The texts on their way to a logged-in client are exactly the saved ones *)
(* it is meant to read, from its login on, each once and in the order they *)
(* were saved: a history answer and the forwards agree on what was said.   *)
ReadBy(row, u) == row.recvid = u \/ (row.recvid = ALL /\ row.sendid # u)

Due(rec, from, u) == {rid \in (from + 1)..Len(rec) : ReadBy(rec[rid], u)}

Texts(que) == {i \in 1..Len(que) : que[i].type = \hA3}

TextsDue ==
    \A f \in LoggedIn(fd_to_uid) :
        LET que == out.que[f]
        IN  /\ {que[i].rid : i \in Texts(que)} = Due(record, mark[f], owner[f])
            /\ \A i, j \in Texts(que) : i < j => que[i].rid < que[j].rid

(* Whatever the count, 0, more than there are rows and the -1 of a failed  *)
(* query included, the loop of serh_message answers the latest rows of the *)
(* conversation, oldest first.                                             *)
AnswersTheLatest ==
    \A myid \in Users, srid \in Uids, count \in -1..(Len(record) + 1) :
        LET rids == SerhLoop(record, myid, srid, count)
        IN  /\ {rids[i] : i \in DOMAIN rids} = SerhMessage(record, myid, srid, count)
            /\ \A i, j \in DOMAIN rids : i < j => rids[i] < rids[j]

(* A file message reaches the user its payload names, however often that   *)
(* user's session moves while others send: the client asserts it.          *)
NoMisdelivery ==
    \A f \in Fd : \A i \in 1..Len(out.que[f]) :
        out.que[f][i].type \in \hA7..\hAA => out.que[f][i].dst = owner[f]

(* What the proofs need to know of one connection's queue besides: nothing *)
(* waits before the reply to the login does, a session's queue holds no    *)
(* 0xA0, a client has seen nobody before it is let in, and the last text   *)
(* it was sent is one that was saved.                                      *)
QueueOrdered(que, ph, session) ==
    /\ ph = "fresh" => que = << >>
    /\ ph = "asking" => que # << >> /\ que[1].type = \h90
    /\ \A i \in 1..Len(que) : que[i].type = \h90 => i = 1 /\ ph = "asking"
    /\ session # None => \A i \in 1..Len(que) : que[i].type # \hA0
    /\ \A i, j \in 1..Len(que) : i < j /\ que[i].type = \hA0 => que[j].type < \hA0

QueuesOrdered ==
    \A f \in Fd : QueueOrdered(out.que[f], phase[f], fd_to_uid[f])

UnseenAtFirst == \A f \in Fd : phase[f] \in {"closed", "fresh"} => view[f] = {}

MarksSaved == \A f \in LoggedIn(fd_to_uid) : mark[f] <= Len(record)

QInv ==
    /\ QueuesOrdered
    /\ UserlistFits /\ NoMisdelivery
    /\ UnseenAtFirst /\ PresenceTold
    /\ MarksSaved /\ TextsDue

(* When a session moves to another connection, the one that loses it is    *)
(* told so in the same step, and keeps none of its entries.                *)
TakeoverShutsDown ==
    [][\A u \in Users, f \in Fd :
         uid_to_fd[u] = f /\ uid_to_fd'[u] \notin {f, None} =>
            /\ fd_to_uid'[f] = None
            /\ out'.que[f][Len(out'.que[f])] = Shutdown]_vars

(* A password changes only by a request of the user's own session that is  *)
(* granted, and a request that quotes a wrong old password changes no row. *)
PasswordNeedsOld ==
    [][/\ \A u \in Users : login'[u] # login[u] =>
            \E f \in Fd, old, new \in Pwd :
               /\ LoggedInAs(f, u)
               /\ ParseChangePwd(f, old, new)
               /\ out'.que[f][Len(out'.que[f])] = Plain(\h95, 0)
       /\ \A f \in Fd, u \in Users, old, new \in Pwd :
            /\ LoggedInAs(f, u) /\ old # login[u].password
            /\ ParseChangePwd(f, old, new)
            => login' = login]_vars

(* A file transfer stops pending only by its receiver's answer: nobody     *)
(* else's permits or drops it.                                             *)
FileConsent ==
    [][\A row \in filetrans : row.statue = 0 /\ row \notin filetrans' =>
         \E f \in Fd, permit \in BOOLEAN :
            /\ LoggedInAs(f, row.recvid)
            /\ ParseTransfileRepSc(f, row.sendid, permit)]_vars

(* A permitted transfer stays in the table, permitted, between the same    *)
(* two users: a later refusal does not take it back.                       *)
PermittedKept ==
    [][\A row \in filetrans : row.statue = 1 =>
         \E kept \in filetrans' : [kept EXCEPT !.succsiz = 0] = [row EXCEPT !.succsiz = 0]]_vars

(* What the sockets, queues and tables do implements Sessions.             *)
Abstract == INSTANCE Sessions WITH session <- uid_to_fd
SessionsSpec == Abstract!Spec

(* A connection told that its session is over is closed in the end, even   *)
(* when its client goes on asking.                                         *)
ShutdownCloses ==
    \A f \in Fd :
        (\E i \in 1..Len(out.que[f]) : out.que[f][i].type = \hA0)
            ~> phase[f] = "closed"

(* Every login is answered, or its connection ends.                        *)
LoginAnswered == \A f \in Fd : phase[f] = "asking" ~> phase[f] # "asking"

-----------------------------------------------------------------------------
(* What the repository says of itself and the code does not keep.          *)

(* The asserts of the handlers hold whatever clients ask:                  *)
(*   Connections.cpp:605, assert(p.second != uid): when a login is         *)
(*     announced its user has no other session;                            *)
(*   Connections.cpp:435 and its like: whoever sends a text, asks for a    *)
(*     history, changes a password or moves a file is logged in;           *)
(*   Connections.cpp:731 and its like: the user a file message names is    *)
(*     online.                                                             *)
RequestAsserts == daemon \notin {"push_online", "logged_in", "transfile"}
=============================================================================
