------------------------------- MODULE Client -------------------------------
(***************************************************************************)
(* One client, src/chat_client/TcpClient.cpp with its two models           *)
(* (ContactsModel.cpp, RecordModel.cpp) and the pages that write to it,    *)
(* composed with the server of Connections: the client of the user Me is   *)
(* this one, all other connections are the free clients of Connections.    *)
(*                                                                         *)
(* The client is one event loop.  It writes a request at once; tc.up holds *)
(* what the server has not read yet.  The server's queue holds all that is *)
(* under way to the client, so that SendMsg and the slot that parses the   *)
(* frame (receiveHeader) are one action.                                   *)
(*                                                                         *)
(* UpdateContactKept, CleanUpKeepsQueue, FetchUserStateNamesOnly,          *)
(* FetchUserStateRefreshes and ParseGetChatHistoryOfToUid are variants of  *)
(* the operator after them, as a slip in that place would make it.         *)
(*                                                                         *)
(* A name stands for the uid it belongs to; None is the empty QString.     *)
(* The text of a row is the rid it was saved as, 0 for a row that          *)
(* sendMessage adds itself.                                                *)
(***************************************************************************)
EXTENDS Connections, SequencesExt

CONSTANT Me     \* the user of the client

ASSUME MeAssumption == Me \in Users

(* What map_contacts holds of a contact.                                   *)
Entry == [is_offline : BOOLEAN, name : Users \cup {None}]

ASSUME EntryAssumption == None \notin Entry

VARIABLES
    sock,   \* the descriptor the server knows m_socket by, None if unconnected
    tc,     \* the TcpClient: its queue of uids, its maps and models, and up
    page,   \* the page on top of the stack, as far as requests depend on it
    uid     \* the contact chosen on the main page (ContactPage's uid)

ui      == <<page, uid>>
process == <<sock, tc, ui>>

Conversations == Users \cup {ALL}

(* up holds the frames written to the socket and not yet read at the other *)
(* end, map_contacts None where the map has no key, records the rows of    *)
(* each conversation, the latest first.                                    *)
NewClient ==
    [m_queue_uid  |-> << >>,
     m_to_uid     |-> ALL,
     map_contacts |-> [u \in Users |-> None],
     contacts     |-> << >>,
     records      |-> [c \in Conversations |-> << >>],
     up           |-> << >>]

-----------------------------------------------------------------------------
(* ContactsModel.                                                          *)
InsertContact(rows, id, is_offline, name) ==
    Append(rows, [uid |-> id, is_offline |-> is_offline, name |-> name])

(* The contact's first row, if there is one, is erased and comes back:     *)
(* below the group's when the contact comes online, at the end when it     *)
(* leaves.                                                                 *)
UpdateContactKept(rows, id, is_offline, name) ==
    IF \A i \in DOMAIN rows : rows[i].uid # id THEN rows
    ELSE InsertContact(rows, id, is_offline, name)
UpdateContact(rows, id, is_offline, name) ==
    LET found  == {i \in DOMAIN rows : rows[i].uid = id}
        it     == CHOOSE i \in found : \A j \in found : i <= j
        others == RemoveAt(rows, it)
        row    == [uid |-> id, is_offline |-> is_offline, name |-> name]
    IN  IF found = {} THEN rows
        ELSE IF is_offline THEN Append(others, row)
        ELSE InsertAt(others, 2, row)

(* RecordModel::addRecord.                                                 *)
AddRecord(c, id, row) == [c EXCEPT !.records[id] = <<row>> \o @]
Row(sentByMe, name, txt) == [sentByMe |-> sentByMe, name |-> name, txt |-> txt]

-----------------------------------------------------------------------------
(* The requests.  getUserName and getChatHistory make the uid they ask for *)
(* the one that messages are written to.                                   *)
SendFrame(c, frame) == [c EXCEPT !.up = Append(@, frame)]

Ask(c, op, id) ==
    SendFrame([c EXCEPT !.m_queue_uid = Append(@, id), !.m_to_uid = id],
              [op |-> op, uid |-> id])

GetUserName(c, id)    == Ask(c, "username", id)
GetChatHistory(c, id) == Ask(c, "chatrecord", id)

(* The clean-up of connect2Host.  Neither m_to_uid nor the file that may   *)
(* be open is part of it.                                                  *)
CleanUpKeepsQueue(c) ==
    [c EXCEPT !.records = NewClient.records, !.map_contacts = NewClient.map_contacts,
              !.contacts = InsertContact(<< >>, ALL, FALSE, ALL)]
CleanUp(c) ==
    [NewClient EXCEPT !.m_to_uid = c.m_to_uid,
                      !.contacts = InsertContact(@, ALL, FALSE, ALL)]

-----------------------------------------------------------------------------
(* The answers and notices (parseHeader).                                  *)

(* map_contacts[id]: QMap's operator[] enters a contact that is missing.   *)
Entered(c, id) ==
    IF c.map_contacts[id] # None THEN c
    ELSE [c EXCEPT !.map_contacts[id] = [is_offline |-> FALSE, name |-> None]]

(* fetchUserStates, for one uid of the payload.  A contact that is in the  *)
(* map but not listed yet keeps the state it was first told with.          *)
FetchUserStateNamesOnly(c, is_offline, id) ==
    IF c.map_contacts[id] # None
    THEN [c EXCEPT !.contacts =
            UpdateContact(@, id, is_offline, c.map_contacts[id].name)]
    ELSE GetUserName([Entered(c, id) EXCEPT !.map_contacts[id].is_offline = is_offline], id)
FetchUserStateRefreshes(c, is_offline, id) ==
    IF c.map_contacts[id] # None
    THEN GetChatHistory([c EXCEPT !.contacts =
            UpdateContact(@, id, is_offline, c.map_contacts[id].name)], id)
    ELSE GetChatHistory(GetUserName(
            [Entered(c, id) EXCEPT !.map_contacts[id].is_offline = is_offline], id), id)
FetchUserState(c, is_offline, id) ==
    IF c.map_contacts[id] # None
    THEN [c EXCEPT !.contacts =
            UpdateContact(@, id, is_offline, c.map_contacts[id].name)]
    ELSE LET entered == [Entered(c, id) EXCEPT !.map_contacts[id].is_offline = is_offline]
         IN  GetChatHistory(GetUserName(entered, id), id)

(* The payload lists the uids in the order of the server's map or table.   *)
Orders(uids) ==
    {order \in [1..Cardinality(uids) -> uids] : {order[i] : i \in DOMAIN order} = uids}

ParseUserListState(c, is_offline, order) ==
    LET after[i \in 0..Len(order)] ==
            IF i = 0 THEN c ELSE FetchUserState(after[i - 1], is_offline, order[i])
    IN  after[Len(order)]

ParseGetUserName(c, m) ==
    LET id      == Head(c.m_queue_uid)
        entered == [Entered(c, id) EXCEPT !.m_queue_uid = Tail(@),
                                          !.map_contacts[id].name = m.uid]
    IN  [entered EXCEPT !.contacts =
            InsertContact(@, id, entered.map_contacts[id].is_offline, m.uid)]

(* fetchUserChatHistory: one text of the payload, by src, saved as rid.    *)
FetchRow(c, id, src, rid) ==
    IF src = Me THEN AddRecord(c, id, Row(TRUE, Me, rid))
    ELSE LET entered == Entered(c, src)
         IN  AddRecord(entered, id, Row(FALSE, entered.map_contacts[src].name, rid))

(* The history is that of the user who was asked for first and is still    *)
(* unanswered, not of m_to_uid.                                            *)
ParseGetChatHistoryOfToUid(c, m) ==
    LET after[rid \in 0..Len(record)] ==
            IF rid = 0 THEN [c EXCEPT !.m_queue_uid = Tail(@)]
            ELSE IF rid \in m.rids
            THEN FetchRow(after[rid - 1], c.m_to_uid, record[rid].sendid, rid)
            ELSE after[rid - 1]
    IN  after[Len(record)]
ParseGetChatHistory(c, m) ==
    LET id == Head(c.m_queue_uid)
        after[rid \in 0..Len(record)] ==
            IF rid = 0 THEN [c EXCEPT !.m_queue_uid = Tail(@)]
            ELSE IF rid \in m.rids
            THEN FetchRow(after[rid - 1], id, record[rid].sendid, rid)
            ELSE after[rid - 1]
    IN  after[Len(record)]

FetchRecvMessageHistory(c, m, group) ==
    LET entered == Entered(c, m.src)
    IN  AddRecord(entered, IF group THEN ALL ELSE m.src,
                  Row(FALSE, entered.map_contacts[m.src].name, m.rid))

ParseReceiveMessageInfos(c, m) == FetchRecvMessageHistory(c, m, m.sub = 1)

(* What m makes of the client c.  An answer 0x93 changes nothing: nobody   *)
(* listens to userOffline.                                                 *)
Parsed(c, m) ==
    IF m.type = \hA1
    THEN {ParseUserListState(c, m.sub = 1, order) : order \in Orders(m.uids)}
    ELSE {CASE m.type = \h90 -> GetChatHistory(c, ALL)
            [] m.type = \h91 -> ParseGetUserName(c, m)
            [] m.type = \h92 -> ParseGetChatHistory(c, m)
            [] m.type = \hA3 -> ParseReceiveMessageInfos(c, m)
            [] OTHER -> c}

(* An answer other than the ones above closes the connection.              *)
Refused(m) == m.type \in {\h91, \h92} /\ m.sub # 0

PageAfter(m) ==
    CASE m.type = \h90 -> IF m.sub = 1 THEN "password" ELSE "main"
      [] m.type = \h95 /\ m.sub = 0 -> "main"
      [] OTHER -> page

-----------------------------------------------------------------------------
ClientInit ==
    /\ Init
    /\ sock = None
    /\ tc = NewClient
    /\ page = "busy"
    /\ uid = None

(* closeConnection and onDisconnected: what was written is lost, the page  *)
(* goes.  The rows stay until the next connect2Host.                       *)
Disconnected ==
    /\ sock' = None
    /\ tc' = [tc EXCEPT !.up = << >>]
    /\ page' = "busy"
    /\ uid' = None

(* The server closed the connection of this client in the step, or not.    *)
Dropped == sock # None /\ phase'[sock] = "closed"

(* connect2Host, accepted by the server as f; the login page.              *)
Connect2Host(f) ==
    /\ sock = None
    /\ Accept(f)
    /\ sock' = f
    /\ tc' = CleanUp(tc)
    /\ UNCHANGED ui

(* The user logs in.  The login is the only frame under way: the pages let *)
(* nothing else be sent before its answer.                                 *)
Login ==
    /\ sock # None
    /\ LoginFault(sock) \/ LoginRefused(sock) \/ LoginAborts(sock) \/ LoginAccepted(sock, Me)
    /\ IF Dropped THEN Disconnected ELSE UNCHANGED process

(* The server reads the oldest frame and handles it.                       *)
Handle(frame) ==
    \/ frame.op = "username"   /\ ParseUsername(sock, frame.uid)
    \/ frame.op = "chatrecord" /\ ParseChatrecord(sock, frame.uid)
    \/ frame.op = "textmsg"    /\ ParseTextmsg(sock, frame.uid)
    \/ frame.op = "change_pwd" /\ ParseChangePwd(sock, frame.old, frame.new)

RequestHandled ==
    /\ sock # None /\ tc.up # << >>
    /\ Handle(Head(tc.up))
    /\ IF Dropped THEN Disconnected
       ELSE tc' = [tc EXCEPT !.up = Tail(@)] /\ UNCHANGED <<sock, ui>>

(* receiveHeader.                                                          *)
Receive ==
    /\ sock # None
    /\ SendMsg(sock)
    /\ \/ Dropped /\ Disconnected
       \/ ~Dropped /\ Refused(Head(out.que[sock])) /\ Disconnected
       \/ /\ ~Dropped /\ ~Refused(Head(out.que[sock]))
          /\ tc' \in Parsed(tc, Head(out.que[sock]))
          /\ page' = PageAfter(Head(out.que[sock]))
          /\ UNCHANGED <<sock, uid>>

(* setUid: the user picks a contact from the list.                         *)
SetUid(id) ==
    /\ page = "main" /\ uid # id
    /\ \E i \in DOMAIN tc.contacts : tc.contacts[i].uid = id
    /\ uid' = id
    /\ tc' = [tc EXCEPT !.m_to_uid = id]
    /\ UNCHANGED <<vars, sock, page>>

(* sendMessage: the text goes to m_to_uid, and its row is added at once.   *)
(* MaxRecords bounds the texts saved and under way.                        *)
TextFrame(c) == [op |-> "textmsg", uid |-> c.m_to_uid]

SendMessage ==
    /\ page = "main" /\ uid # None
    /\ Len(record) + Cardinality({i \in DOMAIN tc.up : tc.up[i].op = "textmsg"}) < MaxRecords
    /\ tc' = AddRecord(SendFrame(tc, TextFrame(tc)),
                       tc.m_to_uid, Row(TRUE, Me, 0))
    /\ UNCHANGED <<vars, sock, ui>>

(* changePassword: the busy indicator keeps the user from asking twice.    *)
PasswordFrame(old, new) == [op |-> "change_pwd", old |-> old, new |-> new]

ChangePassword(old, new) ==
    /\ page = "password"
    /\ \A i \in DOMAIN tc.up : tc.up[i].op # "change_pwd"
    /\ \A i \in DOMAIN out.que[sock] : out.que[sock][i].type # \h95
    /\ tc' = SendFrame(tc, PasswordFrame(old, new))
    /\ UNCHANGED <<vars, sock, ui>>

(* The connection is lost.                                                 *)
Lost == sock # None /\ LoseConn(sock) /\ Disconnected

(* A step of another client.  Of their requests only a text can be noticed *)
(* by this one.                                                            *)
Elsewhere(f) ==
    /\ f # sock
    /\ \/ Accept(f)
       \/ LoginFault(f) \/ LoginRefused(f) \/ LoginAborts(f)
       \/ \E u \in Users : LoginAccepted(f, u)
       \/ \E u \in Uids \ {owner[f]} : ParseTextmsg(f, u)
       \/ SendMsg(f)
       \/ LoseConn(f)
    /\ IF Dropped THEN Disconnected ELSE UNCHANGED process

Daemon ==
    /\ Kill \/ Restart
    /\ IF Dropped THEN Disconnected ELSE UNCHANGED process

ClientNext ==
    \/ \E f \in Fd : Connect2Host(f) \/ Elsewhere(f)
    \/ Login \/ RequestHandled \/ Receive \/ Lost \/ Daemon
    \/ \E id \in Conversations : SetUid(id)
    \/ SendMessage
    \/ \E old, new \in Pwd : ChangePassword(old, new)

ClientSpec == ClientInit /\ [][ClientNext]_<<vars, process>>

-----------------------------------------------------------------------------
(* Properties.                                                             *)

(* The places of the answers under way and of the requests not yet handled,*)
(* and the rank of a place among others.                                   *)
AnswersIn(que) == {i \in DOMAIN que : que[i].type \in {\h91, \h92}}
AsksIn(up)     == {i \in DOMAIN up : up[i].op \in {"username", "chatrecord"}}
Rank(S, i)     == Cardinality({j \in S : j <= i})

(* The answer at place i is about the uid that is taken from the queue for *)
(* it.                                                                     *)
IsAbout(que, m_queue_uid, rec, i) ==
    LET id == m_queue_uid[Rank(AnswersIn(que), i)]
    IN  IF que[i].type = \h91 THEN que[i].uid = id
        ELSE \A rid \in que[i].rids : Concerns(rec[rid], Me, id)

(* An answer carries no uid: it is matched to a request by the order of    *)
(* m_queue_uid alone.  Whatever is saved, forwarded, lost or reconnected   *)
(* in between, the queue holds the uids of the answers under way and then  *)
(* of the requests not handled yet: each answer is about the uid that is   *)
(* taken from the queue for it.                                            *)
AnswersMatch ==
    sock # None =>
        LET que     == out.que[sock]
            answers == AnswersIn(que)
            asks    == AsksIn(tc.up)
        IN  /\ Len(tc.m_queue_uid) = Cardinality(answers) + Cardinality(asks)
            /\ \A i \in answers : que[i].sub = 0 => IsAbout(que, tc.m_queue_uid, record, i)
            /\ \A i \in asks :
                 tc.up[i].uid = tc.m_queue_uid[Cardinality(answers) + Rank(asks, i)]

(* A text is shown in the conversation it belongs to, on the side of its   *)
(* author, under the author's name or (before that is known) none.         *)
FiledRight ==
    \A c \in Conversations : \A i \in DOMAIN tc.records[c] :
        LET row == tc.records[c][i]
        IN  row.txt # 0 =>
              /\ Concerns(record[row.txt], Me, c)
              /\ row.sentByMe <=> record[row.txt].sendid = Me
              /\ row.name \in {None, record[row.txt].sendid}

(* Nothing is under way in either direction.                               *)
Quiet ==
    /\ sock # None /\ page = "main"
    /\ out.que[sock] = << >> /\ tc.up = << >>

(* The conversation of a text, as Me sees it.                              *)
ConversationOf(row) ==
    IF row.recvid = ALL \/ row.sendid = Me THEN row.recvid ELSE row.sendid

(* Between the history a client asks for and the texts forwarded to it     *)
(* nothing falls through: once all is answered, every text of others to it *)
(* or the group is shown, also those saved while it logged in, lost its    *)
(* session or asked; and of its own texts as many as the table holds.      *)
(* (Histories hold all there is: RecordCnt >= MaxRecords.)                 *)
NothingMissed ==
    Quiet =>
        /\ \A rid \in DOMAIN record : ReadBy(record[rid], Me) =>
             \E i \in DOMAIN tc.records[ConversationOf(record[rid])] :
                 tc.records[ConversationOf(record[rid])][i].txt = rid
        /\ \A c \in Conversations :
             Cardinality({rid \in DOMAIN record :
                            record[rid].sendid = Me /\ record[rid].recvid = c})
               <= Cardinality({i \in DOMAIN tc.records[c] : tc.records[c][i].sentByMe})

(* The list of contacts: the group first, nobody twice however often his   *)
(* presence changes while his name is under way, nobody under another's    *)
(* name; and once all is answered everybody but the user itself.           *)
ContactsOnce ==
    LET rows == tc.contacts
    IN  /\ \A i, j \in DOMAIN rows : rows[i].uid = rows[j].uid => i = j
        /\ \A i \in DOMAIN rows :
             /\ rows[i].uid = ALL <=> i = 1
             /\ rows[i].name = rows[i].uid
        /\ Quiet => {rows[i].uid : i \in DOMAIN rows} = Conversations \ {Me}

(* TcpClient.h:131, m_to_uid is the other side's uid: what is written on a *)
(* contact's page goes to that contact, though every name and history      *)
(* asked for makes its uid the addressee.  All contacts are asked for      *)
(* before the first is listed, whatever presence is told in between.  Of   *)
(* the group's page, which is listed from the start, this is not true: a   *)
(* text written there while the lists come in goes to the last contact     *)
(* asked for.                                                              *)
PrivateStaysPrivate == page = "main" /\ uid \in Users => tc.m_to_uid = uid
=============================================================================
