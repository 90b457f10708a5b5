---------------------------- MODULE FrameWriter ----------------------------
(***************************************************************************)
(* How Connections.cpp writes one client's queue: send_header and          *)
(* send_data over write_to_fd of common.cpp, as select() reports room in   *)
(* the socket buffer.  Connections.tla takes a message off the queue in    *)
(* one step; this is that step.                                            *)
(*                                                                         *)
(* A byte is its message's number and its place in it.  The client reads   *)
(* at its own pace, and may read while a handler writes.                   *)
(*                                                                         *)
(* OffsetFromHeader and PoppedEarly are variants of the operator after     *)
(* them, as a slip in that place of the code would make it. No behaviour   *)
(* uses a variant; the README says which property depends on the place.    *)
(***************************************************************************)
EXTENDS Naturals, Sequences, SequencesExt

CONSTANTS
    Payloads,     \* the payload lengths of the messages queued
    Room,         \* bytes the socket buffers hold
    MaxMessages   \* bound on the messages queued

H == 4      \* sizeof(Header)

ASSUME RoomAssumption ==
    Payloads \subseteq Nat /\ Room \in Nat \ {0} /\ MaxMessages \in Nat

VARIABLES
    queued,     \* all messages pushed so far: payload length, and whether
                \* the header ends the connection
    send_que,   \* their numbers, those not popped
    in_wfds,    \* whether the descriptor is in _wfds
    sending_header, send_len,   \* of struct Conn
    falls,      \* send_header is about to call send_data
    buffered,   \* bytes written that the client has not read
    received,   \* bytes the client read
    conn        \* "open", or what ended the connection

queue  == <<queued, send_que, in_wfds>>
writer == <<sending_header, send_len>>
vars   == <<queue, writer, falls, buffered, received, conn>>

-----------------------------------------------------------------------------
Smaller(a, b) == IF a < b THEN a ELSE b

(* A message whose header ends the connection has no payload.              *)
Message == [payload : Payloads, terminal : {FALSE}]
           \cup [payload : {0}, terminal : {TRUE}]

Bytes(k, first, count) == [i \in 1..count |-> <<k, first + i>>]

Init ==
    /\ queued = << >> /\ send_que = << >> /\ in_wfds = FALSE
    /\ sending_header = TRUE /\ send_len = 0
    /\ falls = FALSE
    /\ buffered = << >> /\ received = << >>
    /\ conn = "open"

(* A handler pushes a message.  Handlers run between two calls of send_msg.*)
PushMessage(m) ==
    /\ conn = "open" /\ ~falls
    /\ Len(queued) < MaxMessages
    /\ queued' = Append(queued, m)
    /\ send_que' = Append(send_que, Len(queued'))
    /\ in_wfds' = TRUE
    /\ UNCHANGED <<writer, falls, buffered, received, conn>>

(* The client reads; what was written before a close still reaches it.     *)
ClientReads(n) ==
    /\ n \in 1..Len(buffered)
    /\ received' = received \o SubSeq(buffered, 1, n)
    /\ buffered' = SubSeq(buffered, n + 1, Len(buffered))
    /\ UNCHANGED <<queue, writer, falls, conn>>

-----------------------------------------------------------------------------
(* select() reports a socket of _wfds that takes a byte.  How many it takes*)
(* beyond that first one POSIX leaves open.                                *)
Writable == conn = "open" /\ ~falls /\ in_wfds /\ Len(buffered) < Room

(* write_to_fd: as many of `wanted` bytes as there is room for.            *)
Put(wanted) == Smaller(wanted, Room - Len(buffered))

Current == Head(send_que)
Payload == queued[Current].payload

Write(first, n) == buffered' = buffered \o Bytes(Current, first, n)

Closes(reason) ==
    /\ conn' = reason
    /\ falls' = FALSE
    /\ UNCHANGED <<queue, writer>>

WriteFails ==
    /\ Writable
    /\ Closes("error")
    /\ UNCHANGED <<buffered, received>>

SendHeader ==
    /\ Writable /\ sending_header
    /\ LET n == Put(H - send_len)
           complete == send_len + n = H
       IN  \/ n = 0 /\ Closes("full") /\ UNCHANGED buffered
           \/ /\ n > 0
              /\ Write(send_len, n)
              /\ \/ complete /\ queued[Current].terminal /\ Closes("terminal")
                 \/ /\ ~(complete /\ queued[Current].terminal)
                    /\ sending_header' = ~complete
                    /\ send_len' = IF complete THEN 0 ELSE send_len + n
                    /\ falls' = complete
                    /\ UNCHANGED <<queue, conn>>
    /\ UNCHANGED received

(* Where the payload goes on.                                              *)
OffsetFromHeader == send_len
Offset == H + send_len

PoppedEarly(complete, n) == n > 0
Pops(complete, n) == complete

SendData ==
    /\ conn = "open" /\ (falls \/ Writable)
    /\ ~sending_header
    /\ LET n == Put(Payload - send_len)
           complete == send_len + n = Payload
           rest == Tail(send_que)
       IN  \/ n = 0 /\ Payload > 0 /\ Closes("full") /\ UNCHANGED buffered
           \/ /\ n > 0 \/ Payload = 0
              /\ Write(Offset, n)
              /\ IF Pops(complete, n)
                 THEN /\ sending_header' = TRUE /\ send_len' = 0
                      /\ send_que' = rest
                      /\ in_wfds' = (rest # << >>)
                 ELSE /\ send_len' = send_len + n
                      /\ UNCHANGED <<sending_header, send_que, in_wfds>>
              /\ falls' = FALSE
              /\ UNCHANGED <<queued, conn>>
    /\ UNCHANGED received

Reads == \E n \in 1..Len(buffered) : ClientReads(n)

Next ==
    \/ \E m \in Message : PushMessage(m)
    \/ Reads
    \/ WriteFails
    \/ SendHeader
    \/ SendData

Spec == Init /\ [][Next]_vars

(* The loop serves every socket select reports; the client goes on reading.*)
FairSpec == Spec /\ WF_vars(Reads) /\ WF_vars(SendHeader \/ SendData)

-----------------------------------------------------------------------------
(* Properties.                                                             *)

(* The queue holds the messages not popped, and the descriptor is in _wfds *)
(* while there are any; a header or payload is never written past its end. *)
TypeOK ==
    /\ queued \in Seq(Message)
    /\ send_que \in Seq(1..MaxMessages)
    /\ in_wfds = (send_que # << >>)
    /\ sending_header \in BOOLEAN /\ falls \in BOOLEAN
    /\ send_len \in Nat
    /\ send_len # 0 => send_len < IF sending_header THEN H ELSE Payload
    /\ Len(buffered) <= Room
    /\ conn \in {"open", "error", "full", "terminal"}

(* The bytes written, those first that the client has read.                *)
wire == received \o buffered

(* The bytes of a message, and the byte that follows one on the wire: the  *)
(* first of the next message behind the last of a message.                 *)
Size(msgs, k)  == H + msgs[k].payload
After(msgs, b) == IF b[2] < Size(msgs, b[1]) THEN <<b[1], b[2] + 1>> ELSE <<b[1] + 1, 1>>

(* The bytes written, those the client read first, are the queued messages *)
(* one after the other, each whole before the next begins, cut off at most *)
(* at the end.                                                             *)
StreamIsQueue ==
    /\ wire # << >> => wire[1] = <<1, 1>>
    /\ \A j \in DOMAIN wire :
         /\ wire[j][1] \in DOMAIN queued
         /\ j > 1 => wire[j] = After(queued, wire[j - 1])

(* A message is popped once all its bytes were written, and not before:    *)
(* the last byte written is the one that send_que and send_len tell.       *)
popped   == Len(queued) - Len(send_que)
partial  == IF sending_header THEN send_len ELSE H + send_len
LastByte ==
    IF partial > 0 THEN <<popped + 1, partial>>
    ELSE IF popped > 0 THEN <<popped, Size(queued, popped)>>
    ELSE <<0, 0>>

PoppedWhenWritten ==
    conn = "open" => LastByte = IF wire = << >> THEN <<0, 0>> ELSE Last(wire)

(* A client that is merely slow is cut off in one place only: a header was *)
(* written to its end and no byte of the payload after it.                 *)
CutOffAfterHeader == conn = "full" => ~sending_header /\ send_len = 0

(* Every message queued is read by the client, or its connection ends.     *)
Whole(k) == k \in DOMAIN queued /\ \E i \in DOMAIN received : received[i] = <<k, H + queued[k].payload>>
QueueDrains ==
    \A k \in 1..MaxMessages : Len(queued) >= k ~> Whole(k) \/ conn # "open"
=============================================================================
