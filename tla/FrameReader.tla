---------------------------- MODULE FrameReader ----------------------------
(***************************************************************************)
(* How Connections.cpp puts one client's frames together again:            *)
(* recv_header and recv_data over read_from_fd of common.cpp.              *)
(*                                                                         *)
(* A byte is its frame's number and its place in the frame.  The client    *)
(* writes whole frames, the network delivers their bytes in order and in   *)
(* pieces of any size.  recv_data runs either from the select loop or      *)
(* right after recv_header, in the same call (`falls` is TRUE in between): *)
(* bytes may still arrive between the two reads.                           *)
(*                                                                         *)
(* ExpectedWithHeader, ReadableUnasked and PayloadRestarted are variants   *)
(* of the operator after them, as a slip in that place of the code would   *)
(* make it. No behaviour uses a variant; the README says which property    *)
(* depends on the place.                                                   *)
(***************************************************************************)
EXTENDS Naturals, Sequences, SequencesExt

CONSTANTS
    Lengths,    \* the length fields of the frames a client sends
    MaxFrames   \* bound on the frames it sends

(* sizeof(Header).                                                         *)
H == 4

ASSUME LengthsAssumption == Lengths \subseteq Nat /\ MaxFrames \in Nat

VARIABLES
    sent,       \* the length fields of the frames written so far
    flight,     \* bytes written that have not arrived
    arrived,    \* bytes in the server's socket buffer
    client,     \* "open", or "closed" once the client closed its socket
    recving_header, recv_len, header, data,     \* of struct Conn
    falls,      \* recv_header is about to call recv_data
    parsed,     \* the messages parse() was called with
    conn        \* "open", or what ended the connection

stream == <<sent, flight, client>>
reader == <<recving_header, recv_len, header, data>>
vars   == <<stream, arrived, reader, falls, parsed, conn>>

-----------------------------------------------------------------------------
Smaller(a, b) == IF a < b THEN a ELSE b
Larger(a, b)  == IF a < b THEN b ELSE a

(* A frame's bytes: a length field below sizeof(Header) comes with nothing *)
(* but the header.                                                         *)
FrameBytes(k, length) == [i \in 1..Larger(length, H) |-> <<k, i>>]

(* header.length, once ntohs turned it around: bytes 3 and 4 spell it.     *)
Length == sent[header[3][1]]

(* expect_len, unless it is below zero.                                    *)
ExpectedWithHeader == Length
Expected == Length - H

Empty == <<0, 0>>           \* a byte of a buffer nothing was read into

Init ==
    /\ sent = << >> /\ flight = << >> /\ client = "open"
    /\ arrived = << >>
    /\ recving_header = TRUE /\ recv_len = 0
    /\ header = [i \in 1..H |-> Empty] /\ data = << >>
    /\ falls = FALSE
    /\ parsed = << >>
    /\ conn = "open"

-----------------------------------------------------------------------------
(* The client and the network.                                             *)
ClientWrites(length) ==
    /\ client = "open" /\ Len(sent) < MaxFrames
    /\ sent' = Append(sent, length)
    /\ flight' = flight \o FrameBytes(Len(sent'), length)
    /\ UNCHANGED <<arrived, client, reader, falls, parsed, conn>>

ClientCloses ==
    /\ client = "open"
    /\ client' = "closed"
    /\ UNCHANGED <<sent, flight, arrived, reader, falls, parsed, conn>>

Arrive(n) ==
    /\ conn = "open"
    /\ n \in 1..Len(flight)
    /\ arrived' = arrived \o SubSeq(flight, 1, n)
    /\ flight' = SubSeq(flight, n + 1, Len(flight))
    /\ UNCHANGED <<sent, client, reader, falls, parsed, conn>>

Eof == client = "closed" /\ flight = << >>

-----------------------------------------------------------------------------
(* select() reports a socket with bytes to read or at its end.             *)
ReadableUnasked == conn = "open" /\ ~falls
Readable == conn = "open" /\ ~falls /\ (arrived # << >> \/ Eof)

(* read_from_fd: as many of `wanted` bytes as there are; 0 at the end of   *)
(* the stream, and 0 as well when nothing has arrived yet.                 *)
Got(wanted) == Smaller(wanted, Len(arrived))

(* The bytes read go to the buffer from offset recv_len on.                *)
Filled(buffer, n) ==
    [i \in DOMAIN buffer |->
        IF i \in (recv_len + 1)..(recv_len + n) THEN arrived[i - recv_len] ELSE buffer[i]]

Take(n) == arrived' = SubSeq(arrived, n + 1, Len(arrived))

(* recv_msg answers false and TCPServer closes the socket.                 *)
Closes(reason) ==
    /\ conn' = reason
    /\ falls' = FALSE
    /\ UNCHANGED <<stream, arrived, reader, parsed>>

Nothing == IF Eof THEN "eof" ELSE "empty"

(* read() fails, as it does when the connection is reset.                  *)
ReadFails == Readable /\ Closes("error")

RecvHeader ==
    /\ Readable /\ recving_header
    /\ LET n == Got(H - recv_len)
           complete == recv_len + n = H
       IN  \/ n = 0 /\ Closes(Nothing)
           \/ /\ n > 0
              /\ Take(n)
              /\ header' = Filled(header, n)
              /\ recving_header' = ~complete
              /\ recv_len' = IF complete THEN 0 ELSE recv_len + n
              /\ falls' = complete
              /\ UNCHANGED <<stream, data, parsed, conn>>

(* A length field below sizeof(Header): parse_unknown queues the reply     *)
(* after which send_msg closes the connection.  recving_header stays false,*)
(* so until then no call reads anything any more.                          *)
RecvNegative ==
    /\ falls \/ Readable
    /\ ~recving_header /\ Length < H
    /\ Closes("refused")

(* data.resize(expect_len) keeps the bytes that fit.                       *)
Resized == [i \in 1..Expected |-> IF i \in DOMAIN data THEN data[i] ELSE Empty]

PayloadRestarted(n) ==
    [i \in 1..Expected |-> IF i <= n THEN arrived[i] ELSE Resized[i]]
Payload(n) == Filled(Resized, n)

(* A frame without a payload leaves data as the frame before it did.       *)
RecvData ==
    /\ falls \/ Readable
    /\ ~recving_header /\ Length >= H
    /\ LET n == Got(Expected - recv_len)
           complete == recv_len + n = Expected
       IN  \/ n = 0 /\ Expected > 0 /\ Closes(Nothing)
           \/ /\ n > 0 \/ Expected = 0
              /\ Take(n)
              /\ data' = IF Expected > 0 THEN Payload(n) ELSE data
              /\ recving_header' = complete
              /\ recv_len' = IF complete THEN 0 ELSE recv_len + n
              /\ falls' = FALSE
              /\ parsed' = IF complete
                           THEN Append(parsed, [header |-> header, data |-> data'])
                           ELSE parsed
              /\ UNCHANGED <<stream, header, conn>>

Arrives == \E n \in 1..Len(flight) : Arrive(n)

Next ==
    \/ \E length \in Lengths : ClientWrites(length)
    \/ ClientCloses
    \/ Arrives
    \/ ReadFails
    \/ RecvHeader
    \/ RecvNegative
    \/ RecvData

Spec == Init /\ [][Next]_vars

(* The network delivers what was written, and the loop serves every socket *)
(* select reports in each pass.                                            *)
FairSpec ==
    /\ Spec
    /\ WF_vars(Arrives)
    /\ WF_vars(RecvHeader \/ RecvNegative \/ RecvData)

-----------------------------------------------------------------------------
(* Properties.                                                             *)
Byte == (0..MaxFrames) \X Nat

(* Buffers hold bytes; an index into them never leaves them.               *)
TypeOK ==
    /\ sent \in Seq(Lengths) /\ flight \in Seq(Byte) /\ arrived \in Seq(Byte)
    /\ client \in {"open", "closed"}
    /\ recving_header \in BOOLEAN /\ falls \in BOOLEAN
    /\ recv_len \in Nat /\ (recving_header => recv_len < H)
    /\ header \in [1..H -> Byte] /\ data \in Seq(Byte)
    /\ parsed \in Seq([header : [1..H -> Byte], data : Seq(Byte)])
    /\ conn \in {"open", "eof", "error", "refused", "empty"}

(* parse() sees the frames the client wrote, each whole and once, in order,*)
(* wherever the network cut them: no byte of one is taken for another's.   *)
WholeFrames ==
    \A k \in DOMAIN parsed :
        /\ parsed[k].header = [i \in 1..H |-> <<k, i>>]
        /\ sent[k] >= H
        /\ sent[k] > H => parsed[k].data = [i \in 1..(sent[k] - H) |-> <<k, H + i>>]

(* A client that neither closed nor failed is cut off for want of bytes in *)
(* one place only: its header was read and no byte of the payload.         *)
CutOffAfterHeader == conn = "empty" => ~recving_header /\ recv_len = 0

(* Every frame a client writes is parsed, or its connection is closed.     *)
FramesHandled ==
    \A k \in 1..MaxFrames : Len(sent) >= k ~> Len(parsed) >= k \/ conn # "open"

(* common.h:5: read_from_fd answers how many bytes it read, or -1 when it  *)
(* fails.  It answers 0 when nothing has arrived yet, which is no failure: *)
(* the client is not cut off.                                              *)
LateIsNoError == conn # "empty"
=============================================================================
