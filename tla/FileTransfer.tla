---------------------------- MODULE FileTransfer ----------------------------
(***************************************************************************)
(* Files from end to end: TcpClient::sendFile, the server's forwarding of  *)
(* 0x17 and 0x19 as 0xA7 and 0xA9 (Connections), and the receiver's one    *)
(* m_file.  All files go to one user, whose session moves between Clients: *)
(* each is a program of that user's on a machine of its own.               *)
(*                                                                         *)
(* A part says neither which file it is of nor where it belongs: id and    *)
(* nth in a frame say so for the properties only.  Nobody waits for an     *)
(* answer to the offer, and none is ever composed.                         *)
(*                                                                         *)
(* Q_ASSERT does nothing in a release build: failed[c] holds the asserts   *)
(* that did not hold, and the client goes on.                              *)
(*                                                                         *)
(* OpenedCountKept and CompleteWhenEqual are variants of the operator      *)
(* after them, as a slip in that place of the code would make it.          *)
(***************************************************************************)
EXTENDS Naturals, Sequences

CONSTANTS
    Senders,    \* users who send files
    Clients,    \* the receiver's clients
    None,       \* no value
    PartMax,    \* FILEPART_MAX_SIZE
    Sizes,      \* the sizes of the files sent
    Width,      \* a quint32 is a number below this
    MaxFiles    \* bound on the files sent

ASSUME FileTransferAssumption ==
    /\ None \notin Clients
    /\ PartMax \in Nat \ {0} /\ Width \in Nat \ {0} /\ MaxFiles \in Nat
    /\ Sizes \subseteq 0..(Width - 1)

VARIABLES
    sizes,      \* the sizes of the files sent so far; the index is the id
    up,         \* frames a sender wrote and the server has not read
    session,    \* the client that has the receiver's session, or None
    down,       \* send_que of the connection of each client
    file,       \* m_file, m_file_recv_cnt, m_file_size of each client
    disk,       \* what each client wrote under the name of each file
    failed,     \* the asserts that failed in each client
    log         \* the frames each client received

sent     == <<sizes, up>>
received == <<file, disk, failed, log>>
vars     == <<sent, session, down, received>>

Ids == 1..MaxFiles

-----------------------------------------------------------------------------
(* Frames.  The text is the one that names the file: the file dialog sends *)
(* it after the file.                                                      *)
Offer(id, siz)     == [type |-> \hA7, id |-> id, siz |-> siz]
Part(id, nth, siz) == [type |-> \hA9, id |-> id, nth |-> nth, siz |-> siz]
Text(id)           == [type |-> \hA3, id |-> id]
Shutdown           == [type |-> \hA0]

(* The parts sendFile's loop reads from a file of siz bytes.               *)
PartCount(siz) == (siz + PartMax - 1) \div PartMax
Parts(id, siz) ==
    [nth \in 1..PartCount(siz) |->
        Part(id, nth, IF nth * PartMax <= siz THEN PartMax ELSE siz % PartMax)]

-----------------------------------------------------------------------------
(* m_file.  Before the first offer its two counts hold whatever the memory *)
(* held: any number, of which the least and the greatest are enough.       *)
Untouched ==
    [open : {FALSE}, name : {None}, cnt : {0, Width - 1}, size : {0, Width - 1}]

Init ==
    /\ sizes = << >>
    /\ up = [s \in Senders |-> << >>]
    /\ session = None
    /\ down = [c \in Clients |-> << >>]
    /\ file \in [Clients -> Untouched]
    /\ disk = [c \in Clients |-> [id \in Ids |-> << >>]]
    /\ failed = [c \in Clients |-> {}]
    /\ log = [c \in Clients |-> << >>]

-----------------------------------------------------------------------------
(* The sender: one event handler writes the offer, all parts and the text. *)
SendFile(s, siz) ==
    LET id == Len(sizes) + 1
    IN  /\ id <= MaxFiles
        /\ sizes' = Append(sizes, siz)
        /\ up' = [up EXCEPT ![s] = @ \o <<Offer(id, siz)>> \o Parts(id, siz) \o <<Text(id)>>]
        /\ UNCHANGED <<session, down, received>>

(* A sender's connection is lost with what the server has not read of it.  *)
SenderLost(s) ==
    /\ up[s] # << >>
    /\ up' = [up EXCEPT ![s] = << >>]
    /\ UNCHANGED <<sizes, session, down, received>>

-----------------------------------------------------------------------------
(* The server reads one frame and forwards it to the receiver's session.   *)
Forward(s) ==
    /\ up[s] # << >> /\ session # None
    /\ up' = [up EXCEPT ![s] = Tail(@)]
    /\ down' = [down EXCEPT ![session] = Append(@, Head(up[s]))]
    /\ UNCHANGED <<sizes, session, received>>

(* To a receiver who is offline nothing is forwarded: a text is saved, a   *)
(* file message fails an assert (Connections, "transfile") and the daemon  *)
(* ends, all connections with it.                                          *)
ReceiverOffline(s) ==
    /\ up[s] # << >> /\ session = None
    /\ IF Head(up[s]).type = \hA3
       THEN /\ up' = [up EXCEPT ![s] = Tail(@)]
            /\ UNCHANGED down
       ELSE /\ up' = [t \in Senders |-> << >>]
            /\ down' = [c \in Clients |-> << >>]
    /\ UNCHANGED <<sizes, session, received>>

(* Client c logs in as the receiver; another session is told to end.       *)
TakeSession(c) ==
    /\ session # c /\ down[c] = << >>
    /\ session' = c
    /\ down' = [d \in Clients |->
                  IF d = session THEN Append(down[d], Shutdown) ELSE down[d]]
    /\ UNCHANGED <<sent, received>>

(* A connection of the receiver is lost, with its queue.                   *)
ReceiverLost(c) ==
    /\ session = c \/ down[c] # << >>
    /\ session' = IF session = c THEN None ELSE session
    /\ down' = [down EXCEPT ![c] = << >>]
    /\ UNCHANGED <<sent, received>>

-----------------------------------------------------------------------------
(* The receiver.                                                           *)

(* parseFileRequest: setFileName closes a file that is still open, open    *)
(* with WriteOnly empties the new one.                                     *)
OpenedCountKept(fl, m) ==
    [fl EXCEPT !.open = TRUE, !.name = m.id, !.size = m.siz]
Opened(fl, m) ==
    [open |-> TRUE, name |-> m.id, cnt |-> 0, size |-> m.siz]

ParseFileRequest(c, m) ==
    /\ file' = [file EXCEPT ![c] = Opened(@, m)]
    /\ disk' = [disk EXCEPT ![c][m.id] = << >>]
    /\ UNCHANGED failed

(* What write() answers: a file that is not open takes nothing and answers *)
(* -1, which is added to the count all the same.                           *)
Counted(fl, m) == (fl.cnt + (IF fl.open THEN m.siz ELSE Width - 1)) % Width

CompleteWhenEqual(fl, cnt) == cnt = fl.size
Complete(fl, cnt)          == cnt >= fl.size

(* The part is appended, whatever file is open.                            *)
ParseFilePartRequest(c, m) ==
    LET fl  == file[c]
        cnt == Counted(fl, m)
    IN  /\ file' = [file EXCEPT ![c].cnt = cnt, ![c].open = @ /\ ~Complete(fl, cnt)]
        /\ disk' = IF fl.open THEN [disk EXCEPT ![c][fl.name] = Append(@, m)] ELSE disk
        /\ failed' = [failed EXCEPT ![c] =
              @ \cup (IF fl.open THEN {} ELSE {"written"})
                \cup (IF Complete(fl, cnt) /\ cnt # fl.size THEN {"counted"} ELSE {})]

(* The notice that the session is over closes the connection and leaves    *)
(* m_file as it is, open or not: so does connect2Host.                     *)
Receive(c) ==
    /\ down[c] # << >>
    /\ down' = [down EXCEPT ![c] = Tail(@)]
    /\ LET m == Head(down[c])
       IN  \/ m.type = \hA0 /\ UNCHANGED received
           \/ /\ m.type # \hA0
              /\ log' = [log EXCEPT ![c] = Append(@, m)]
              /\ \/ m.type = \hA7 /\ ParseFileRequest(c, m)
                 \/ m.type = \hA9 /\ ParseFilePartRequest(c, m)
                 \/ m.type = \hA3 /\ UNCHANGED <<file, disk, failed>>
    /\ UNCHANGED <<sent, session>>

Next ==
    \/ \E s \in Senders :
          \/ \E siz \in Sizes : SendFile(s, siz)
          \/ SenderLost(s) \/ Forward(s) \/ ReceiverOffline(s)
    \/ \E c \in Clients : TakeSession(c) \/ ReceiverLost(c) \/ Receive(c)

Spec == Init /\ [][Next]_vars

-----------------------------------------------------------------------------
(* Properties.                                                             *)

(* The frames of a file that is sent, but for the text.                    *)
FramesOf(id) == <<Offer(id, sizes[id])>> \o Parts(id, sizes[id])

(* When the text that names a file is shown and the file's frames came to  *)
(* this client in one piece, the file is on its disk whole and closed.  It *)
(* then stays so, whatever else comes: interrupted files of before, which  *)
(* were left open, and later ones make no difference.  (An empty file is   *)
(* not closed before the next offer.)                                      *)
InOnePiece(c, n) ==
    LET frames == FramesOf(log[c][n].id)
    IN  /\ n > Len(frames)
        /\ SubSeq(log[c], n - Len(frames), n - 1) = frames

WholeWhenNamed ==
    \A c \in Clients : \A n \in DOMAIN log[c] :
        LET id == log[c][n].id
        IN  log[c][n].type = \hA3 /\ InOnePiece(c, n) /\ sizes[id] > 0 =>
              /\ disk[c][id] = Parts(id, sizes[id])
              /\ file[c].name = id => ~file[c].open

(* TcpClient.cpp:756 and 760 fail only in a client to which a part came    *)
(* that did not directly follow the offer or the part before it: another   *)
(* sender's frame was between them, or they went to another session.       *)
Follows(c, n) ==
    /\ n > 1
    /\ log[c][n - 1].id = log[c][n].id
    /\ IF log[c][n].nth = 1 THEN log[c][n - 1].type = \hA7
       ELSE log[c][n - 1].type = \hA9 /\ log[c][n - 1].nth = log[c][n].nth - 1

AssertsNeedMixing ==
    \A c \in Clients : failed[c] # {} =>
        \E n \in DOMAIN log[c] : log[c][n].type = \hA9 /\ ~Follows(c, n)

(* However the transfers of several senders and sessions are mixed, what   *)
(* is written under a name exceeds the size that was offered by less than  *)
(* one part (an empty file may get one): a sender that another one's offer *)
(* cuts off does not write without end.                                    *)
WritesBounded ==
    \A c \in Clients : \A id \in DOMAIN sizes :
        LET before[n \in 0..Len(disk[c][id])] ==
                IF n = 0 THEN 0 ELSE before[n - 1] + disk[c][id][n].siz
        IN  \A n \in DOMAIN disk[c][id] : n = 1 \/ before[n - 1] < sizes[id]

-----------------------------------------------------------------------------
(* What the repository says of itself and the code does not keep.          *)

(* TcpClient.cpp:756 and 760: a part is written, to an open file, and the  *)
(* parts never add up to more than the size that was offered.              *)
ReceiverAsserts == \A c \in Clients : failed[c] = {}
=============================================================================
