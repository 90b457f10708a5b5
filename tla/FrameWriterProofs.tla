------------------------- MODULE FrameWriterProofs -------------------------
(***************************************************************************)
(* send_header and send_data write the queue of a client as one stream of  *)
(* whole messages, for payloads of any length, socket buffers of any size  *)
(* and however the client reads.                                           *)
(***************************************************************************)
EXTENDS FrameWriter, SequenceTheorems, TLAPS

USE RoomAssumption DEF H

-----------------------------------------------------------------------------
(* The inductive invariant.                                                *)
Byte == Nat \X Nat

(* What the queue holds are the messages behind those popped.              *)
Numbered ==
    /\ Len(queued) <= MaxMessages /\ popped \in Nat
    /\ \A i \in DOMAIN send_que : send_que[i] = popped + i

(* A message begun is still in the queue.                                  *)
Begun ==
    /\ ~sending_header \/ send_len > 0 => send_que # << >>
    /\ falls => conn = "open" /\ ~sending_header /\ send_len = 0

(* The bytes of a message are numbered from 1 to its size.                 *)
WithinMessages ==
    /\ received \in Seq(Byte) /\ buffered \in Seq(Byte)
    /\ \A j \in DOMAIN wire : wire[j][2] \in 1..Size(queued, wire[j][1])

WInv ==
    /\ TypeOK /\ Numbered /\ Begun /\ WithinMessages
    /\ StreamIsQueue /\ PoppedWhenWritten /\ CutOffAfterHeader

-----------------------------------------------------------------------------
(* What the invariant says of the state.                                   *)

(* The text of TypeOK without an equality of truth values.                 *)
LEMMA Types ==
    TypeOK <=>
        /\ queued \in Seq(Message)
        /\ send_que \in Seq(1..MaxMessages)
        /\ in_wfds \in BOOLEAN /\ (in_wfds <=> send_que # << >>)
        /\ sending_header \in BOOLEAN /\ falls \in BOOLEAN
        /\ send_len \in Nat
        /\ send_len # 0 => send_len < IF sending_header THEN H ELSE Payload
        /\ Len(buffered) <= Room
        /\ conn \in {"open", "error", "full", "terminal"}
<1>1. in_wfds = (send_que # << >>) <=>
          in_wfds \in BOOLEAN /\ (in_wfds <=> send_que # << >>)
  BY Zenon
<1> QED BY <1>1, Zenon DEF TypeOK

LEMMA PayloadNat == \A m \in Message : m.payload \in Nat
<1>1. \A m \in [payload : Payloads, terminal : {FALSE}] : m.payload \in Nat
  OBVIOUS
<1>2. \A m \in [payload : {0}, terminal : {TRUE}] : m.payload \in Nat
  OBVIOUS
<1> QED BY <1>1, <1>2, Zenon DEF Message

LEMMA FunctionIsSeq ==
    ASSUME NEW S, NEW n \in Nat, NEW s \in [1..n -> S]
    PROVE  s \in Seq(S) /\ Len(s) = n
<1>1. s \in Seq(S)
  BY SeqDef
<1>2. Len(s) \in Nat /\ DOMAIN s = 1..Len(s) /\ DOMAIN s = 1..n
  BY <1>1, LenProperties
<1> QED BY <1>1, <1>2

LEMMA Facts ==
    ASSUME WInv
    PROVE  /\ Len(queued) \in Nat /\ Len(send_que) \in Nat /\ popped \in Nat
           /\ DOMAIN queued = 1..Len(queued) /\ DOMAIN send_que = 1..Len(send_que)
           /\ Len(received) \in Nat /\ Len(buffered) \in Nat /\ Len(buffered) <= Room
           /\ send_len \in Nat /\ partial \in Nat
           /\ \A k \in 1..Len(queued) : Size(queued, k) \in Nat /\ Size(queued, k) >= H
           /\ wire \in Seq(Byte) /\ Len(wire) \in Nat /\ DOMAIN wire = 1..Len(wire)
           /\ Len(wire) = Len(received) + Len(buffered)
<1>1. /\ queued \in Seq(Message) /\ send_que \in Seq(1..MaxMessages) /\ send_len \in Nat
      /\ received \in Seq(Byte) /\ buffered \in Seq(Byte) /\ popped \in Nat
      /\ Len(buffered) <= Room
  BY Types DEF WInv, WithinMessages, Numbered
<1>2. /\ Len(queued) \in Nat /\ Len(send_que) \in Nat
      /\ DOMAIN queued = 1..Len(queued) /\ DOMAIN send_que = 1..Len(send_que)
      /\ Len(received) \in Nat /\ Len(buffered) \in Nat
  BY <1>1, LenProperties
<1>3. ASSUME NEW k \in 1..Len(queued)
      PROVE  Size(queued, k) \in Nat /\ Size(queued, k) >= H
  <2>1. queued[k] \in Message
    BY <1>1, <1>3, ElementOfSeq
  <2>2. queued[k].payload \in Nat
    BY <2>1, PayloadNat
  <2> QED BY <2>2 DEF Size
<1>4. wire \in Seq(Byte) /\ Len(wire) = Len(received) + Len(buffered)
  BY <1>1, ConcatProperties DEF wire
<1>5. DOMAIN wire = 1..Len(wire) /\ Len(wire) \in Nat
  BY <1>4, LenProperties
<1>6. partial \in Nat
  BY <1>1 DEF partial
<1> QED BY <1>1, <1>2, <1>3, <1>4, <1>5, <1>6

(* The message being written.                                              *)
LEMMA CurrentIs ==
    ASSUME WInv, send_que # << >>
    PROVE  /\ Current = popped + 1 /\ Current \in 1..Len(queued)
           /\ Size(queued, Current) \in Nat /\ Size(queued, Current) >= H
           /\ Payload \in Nat /\ Size(queued, Current) = H + Payload
           /\ Len(send_que) \in Nat \ {0}
<1>1. send_que \in Seq(1..MaxMessages)
  BY Types DEF WInv
<1>2. Len(send_que) \in Nat \ {0} /\ send_que[1] = Head(send_que)
  BY <1>1, EmptySeq
<1>3. send_que[1] = popped + 1
  BY <1>2, Facts DEF WInv, Numbered
<1>4. Current = popped + 1 /\ Current \in 1..Len(queued)
  BY <1>2, <1>3, Facts DEF Current, popped
<1>5. queued[Current].payload \in Nat
  <2>1. queued[Current] \in Message
    BY <1>4, ElementOfSeq, Types DEF WInv
  <2> QED BY <2>1, PayloadNat
<1> QED BY <1>2, <1>4, <1>5 DEF Size, Payload

LEMMA AfterAt ==
    ASSUME NEW msgs, NEW k, NEW q
    PROVE  After(msgs, <<k, q>>) = IF q < Size(msgs, k) THEN <<k, q + 1>> ELSE <<k + 1, 1>>
<1>1. <<k, q>>[1] = k /\ <<k, q>>[2] = q
  OBVIOUS
<1> QED BY <1>1, Zenon DEF After

(* Write: the bytes stand behind those written before.                     *)
LEMMA WriteAt ==
    ASSUME WInv, send_que # << >>, NEW n \in Nat, NEW p \in Nat, Write(p, n),
           UNCHANGED received
    PROVE  /\ buffered' \in Seq(Byte) /\ Len(buffered') = Len(buffered) + n
           /\ wire' \in Seq(Byte) /\ Len(wire') = Len(wire) + n
           /\ \A j \in 1..Len(wire) : wire'[j] = wire[j]
           /\ \A i \in 1..n : wire'[Len(wire) + i] = <<popped + 1, p + i>>
<1> DEFINE new == Bytes(Current, p, n)
           r   == Len(received)
           b   == Len(buffered)
<1>1. /\ r \in Nat /\ b \in Nat /\ Len(wire) = r + b /\ Current = popped + 1 /\ Current \in Nat
      /\ received \in Seq(Byte) /\ buffered \in Seq(Byte)
  BY Facts, CurrentIs DEF WInv, WithinMessages
<1>2. new = [i \in 1..n |-> <<Current, p + i>>] /\ buffered' = buffered \o new
  BY DEF Bytes, Write
<1> HIDE DEF new, r, b
<1>3. new \in Seq(Byte) /\ Len(new) = n
  <2>1. new \in [1..n -> Byte]
    BY <1>1, <1>2 DEF Byte
  <2> QED BY <2>1, FunctionIsSeq
<1>4. /\ buffered' \in Seq(Byte) /\ Len(buffered') = b + n
      /\ \A j \in 1..(b + n) : buffered'[j] = IF j <= b THEN buffered[j] ELSE new[j - b]
  <2> DEFINE both == buffered \o new
  <2>1. /\ both \in Seq(Byte) /\ Len(both) = Len(buffered) + Len(new)
        /\ \A j \in 1..(Len(buffered) + Len(new)) :
              both[j] = IF j <= Len(buffered) THEN buffered[j] ELSE new[j - Len(buffered)]
    BY <1>1, <1>3, ConcatProperties
  <2> HIDE DEF both
  <2>2. buffered' = both
    BY <1>2 DEF both
  <2> QED BY <1>3, <2>1, <2>2 DEF b
<1>5. /\ wire \in Seq(Byte) /\ Len(wire) = r + b
      /\ \A j \in 1..(r + b) : wire[j] = IF j <= r THEN received[j] ELSE buffered[j - r]
  BY <1>1, ConcatProperties DEF wire, r, b
<1>6. /\ wire' \in Seq(Byte) /\ Len(wire') = r + (b + n)
      /\ \A j \in 1..(r + (b + n)) :
            wire'[j] = IF j <= r THEN received[j] ELSE buffered'[j - r]
  <2> DEFINE both == received \o buffered'
  <2>1. /\ both \in Seq(Byte) /\ Len(both) = Len(received) + Len(buffered')
        /\ \A j \in 1..(Len(received) + Len(buffered')) :
              both[j] = IF j <= Len(received) THEN received[j] ELSE buffered'[j - Len(received)]
    BY <1>1, <1>4, ConcatProperties
  <2>2. wire' = both
    BY DEF wire
  <2> HIDE DEF both
  <2> QED BY <1>4, <2>1, <2>2 DEF r
<1>7. ASSUME NEW j \in 1..(r + b) PROVE wire'[j] = wire[j]
  <2>1. j \in 1..(r + (b + n)) /\ (j > r => j - r \in 1..(b + n) /\ j - r <= b)
    BY <1>1
  <2>2. CASE j <= r
    BY <1>1, <1>5, <1>6, <2>1, <2>2
  <2>3. CASE j > r
    <3>1. wire[j] = buffered[j - r] /\ wire'[j] = buffered'[j - r]
      BY <1>1, <1>5, <1>6, <2>1, <2>3
    <3>2. buffered'[j - r] = buffered[j - r]
      BY <1>4, <2>1, <2>3
    <3> QED BY <3>1, <3>2
  <2> QED BY <1>1, <2>2, <2>3
<1>8. ASSUME NEW i \in 1..n PROVE wire'[(r + b) + i] = <<Current, p + i>>
  <2>1. /\ (r + b) + i \in 1..(r + (b + n)) /\ ~((r + b) + i <= r)
        /\ ((r + b) + i) - r = b + i /\ b + i \in 1..(b + n) /\ ~(b + i <= b) /\ (b + i) - b = i
    BY <1>1
  <2> QED BY <1>2, <1>4, <1>6, <2>1
<1>9. r + (b + n) = (r + b) + n
  BY <1>1
<1> QED BY <1>1, <1>4, <1>5, <1>6, <1>7, <1>8, <1>9 DEF b

(* The bytes of the message being written go on where they stopped: the    *)
(* stream stays in order, and its last byte is known.                      *)
LEMMA WriteInOrder ==
    ASSUME WInv, send_que # << >>, conn = "open", NEW n \in Nat, Write(partial, n),
           partial + n <= Size(queued, Current), n > 0 \/ partial > 0,
           UNCHANGED <<received, queued>>
    PROVE  /\ buffered' \in Seq(Byte) /\ Len(buffered') = Len(buffered) + n
           /\ StreamIsQueue' /\ WithinMessages'
           /\ wire' # << >> /\ Last(wire') = <<popped + 1, partial + n>>
<1> DEFINE l == Len(wire)
           c == popped + 1
           p == partial
           size == Size(queued, c)
<1>1. /\ l \in Nat /\ wire \in Seq(Byte) /\ p \in Nat /\ popped \in Nat
      /\ DOMAIN wire = 1..l /\ DOMAIN queued = 1..Len(queued) /\ Len(queued) \in Nat
      /\ c \in DOMAIN queued /\ size \in Nat /\ p + n <= size /\ size >= H
      /\ c \in Nat /\ received' \in Seq(Byte)
  BY Facts, CurrentIs DEF WInv, WithinMessages
<1>2. /\ buffered' \in Seq(Byte) /\ Len(buffered') = Len(buffered) + n
      /\ wire' \in Seq(Byte) /\ Len(wire') = l + n
      /\ \A j \in 1..l : wire'[j] = wire[j]
      /\ \A i \in 1..n : wire'[l + i] = <<c, p + i>>
  BY <1>1, WriteAt
<1>3. /\ \A j \in 1..l : /\ wire[j][1] \in DOMAIN queued
                         /\ j > 1 => wire[j] = After(queued, wire[j - 1])
                         /\ wire[j][2] \in 1..Size(queued, wire[j][1])
      /\ wire # << >> => wire[1] = <<1, 1>>
  BY <1>1 DEF WInv, StreamIsQueue, WithinMessages
<1>4. l = 0 => p = 0 /\ popped = 0
  <2>1. l = 0 => LastByte = <<0, 0>>
    BY <1>1, EmptySeq DEF WInv, PoppedWhenWritten
  <2> QED BY <1>1, <2>1 DEF LastByte
<1>5. l > 0 => wire[l] = LastByte /\ wire # << >>
  BY <1>1, EmptySeq DEF WInv, PoppedWhenWritten, Last
<1>6. p < size /\ l > 0 => After(queued, wire[l]) = <<c, p + 1>>
  <2> SUFFICES ASSUME p < size, l > 0 PROVE After(queued, wire[l]) = <<c, p + 1>>
    OBVIOUS
  <2>1. CASE p > 0
    <3>1. wire[l] = <<c, p>>
      BY <1>5, <2>1 DEF LastByte
    <3> QED BY <3>1, AfterAt
  <2>2. CASE p = 0
    <3>1. wire[l][2] >= 1
      <4>1. l \in 1..l
        BY <1>1
      <4> QED BY <1>3, <4>1
    <3>2. popped > 0
      BY <1>1, <1>5, <2>2, <3>1 DEF LastByte
    <3>3. wire[l] = <<popped, Size(queued, popped)>> /\ ~(Size(queued, popped) < Size(queued, popped))
      <4>1. wire[l] = <<popped, Size(queued, popped)>>
        BY <1>1, <1>5, <2>2, <3>2 DEF LastByte
      <4>2. popped \in 1..Len(queued)
        BY <1>1, <3>2
      <4> QED BY <4>1, <4>2, Facts
    <3>4. After(queued, wire[l]) = <<popped + 1, 1>>
      BY <3>3, AfterAt
    <3> QED BY <2>2, <3>4
  <2>3. p > 0 \/ p = 0
    BY <1>1
  <2> QED BY <2>1, <2>2, <2>3, Zenon
<1> HIDE DEF l, c, p, size
<1>7. ASSUME NEW i \in 1..n
      PROVE  /\ wire'[l + i][1] \in DOMAIN queued
             /\ l + i > 1 => wire'[l + i] = After(queued, wire'[(l + i) - 1])
             /\ wire'[l + i][2] \in 1..size /\ wire'[l + i][1] = c
  <2>0. p + i \in 1..size
    BY <1>1
  <2>1. wire'[l + i] = <<c, p + i>> /\ p + i \in 1..size
    BY <1>2, <2>0
  <2>2. CASE i > 1
    <3>1. i - 1 \in 1..n /\ (l + i) - 1 = l + (i - 1) /\ p + (i - 1) < size
          /\ (p + (i - 1)) + 1 = p + i
      BY <1>1, <2>2
    <3>2. wire'[(l + i) - 1] = <<c, p + (i - 1)>>
      BY <1>2, <3>1
    <3>3. After(queued, <<c, p + (i - 1)>>) = <<c, p + i>>
      BY <3>1, AfterAt DEF size
    <3> QED BY <1>1, <2>1, <3>2, <3>3
  <2>3. CASE i = 1
    <3>1. (l + i) - 1 = l /\ p < size /\ (l + i > 1 => l > 0 /\ l \in 1..l)
      BY <1>1, <2>3
    <3>2. l + i > 1 => wire'[(l + i) - 1] = wire[l]
      BY <1>2, <3>1
    <3>3. l + i > 1 => After(queued, wire[l]) = <<c, p + 1>>
      BY <1>6, <3>1
    <3> QED BY <1>1, <2>1, <2>3, <3>2, <3>3
  <2>4. i > 1 \/ i = 1
    BY <1>1
  <2> QED BY <2>2, <2>3, <2>4
<1>8. ASSUME NEW j \in 1..(l + n)
      PROVE  /\ wire'[j][1] \in DOMAIN queued
             /\ j > 1 => wire'[j] = After(queued, wire'[j - 1])
             /\ wire'[j][2] \in 1..Size(queued, wire'[j][1])
  <2>1. CASE j <= l
    <3>1. j \in 1..l /\ (j > 1 => j - 1 \in 1..l)
      BY <1>1, <2>1
    <3>2. wire'[j] = wire[j] /\ (j > 1 => wire'[j - 1] = wire[j - 1])
      BY <1>2, <3>1
    <3> QED BY <1>3, <3>1, <3>2
  <2>2. CASE j > l
    <3>1. j - l \in 1..n /\ l + (j - l) = j
      BY <1>1, <2>2
    <3>2. /\ wire'[l + (j - l)][1] \in DOMAIN queued
          /\ l + (j - l) > 1 => wire'[l + (j - l)] = After(queued, wire'[(l + (j - l)) - 1])
          /\ wire'[l + (j - l)][2] \in 1..size /\ wire'[l + (j - l)][1] = c
      BY <1>7, <3>1
    <3> QED BY <3>1, <3>2 DEF size
  <2> QED BY <1>1, <2>1, <2>2
<1>9. DOMAIN wire' = 1..(l + n)
  BY <1>2, LenProperties
<1>10. wire' # << >> => wire'[1] = <<1, 1>>
  <2>1. CASE l > 0
    <3>1. wire # << >> /\ 1 \in 1..l
      BY <1>1, <1>5, <2>1 DEF l
    <3> QED BY <1>2, <1>3, <3>1
  <2>2. CASE l = 0
    <3>1. n > 0 /\ 1 \in 1..n /\ l + 1 = 1 /\ p + 1 = 1 /\ c = 1
      BY <1>1, <1>4, <2>2 DEF p, c
    <3> QED BY <1>2, <3>1
  <2> QED BY <1>1, <2>1, <2>2
<1>11. StreamIsQueue'
  BY <1>8, <1>9, <1>10 DEF StreamIsQueue
<1>12. WithinMessages'
  BY <1>1, <1>2, <1>8, <1>9 DEF WithinMessages
<1>13. l + n > 0 /\ wire' # << >> /\ Last(wire') = wire'[l + n]
  <2>1. p > 0 => l > 0
    BY <1>1, <1>4
  <2>2. l + n > 0
    BY <1>1, <2>1 DEF p
  <2> QED BY <1>2, <2>2, EmptySeq DEF Last
<1>14. wire'[l + n] = <<c, p + n>>
  <2>1. CASE n > 0
    BY <1>2, <2>1
  <2>2. CASE n = 0
    <3>1. p > 0 /\ l + n = l /\ l \in 1..l /\ l > 0 /\ p + n = p
      BY <1>1, <1>4, <2>2 DEF p
    <3>2. wire'[l] = wire[l] /\ wire[l] = LastByte
      BY <1>2, <1>5, <3>1
    <3>3. LastByte = <<c, p>>
      BY <3>1 DEF LastByte, c, p
    <3> QED BY <3>1, <3>2, <3>3
  <2> QED BY <2>1, <2>2
<1> QED BY <1>2, <1>11, <1>12, <1>13, <1>14 DEF c, p

-----------------------------------------------------------------------------
(* The steps.                                                              *)

LEMMA TypesNext ==
    TypeOK' <=>
        /\ queued' \in Seq(Message)
        /\ send_que' \in Seq(1..MaxMessages)
        /\ in_wfds' \in BOOLEAN /\ (in_wfds' <=> send_que' # << >>)
        /\ sending_header' \in BOOLEAN /\ falls' \in BOOLEAN
        /\ send_len' \in Nat
        /\ send_len' # 0 => send_len' < IF sending_header' THEN H ELSE Payload'
        /\ Len(buffered') <= Room
        /\ conn' \in {"open", "error", "full", "terminal"}
<1>1. in_wfds' = (send_que' # << >>) <=>
          in_wfds' \in BOOLEAN /\ (in_wfds' <=> send_que' # << >>)
  BY Zenon
<1> QED BY <1>1, Zenon DEF TypeOK

LEMMA InitWInv == Init => WInv
<1> SUFFICES ASSUME Init PROVE WInv
  OBVIOUS
<1>1. /\ queued = << >> /\ send_que = << >> /\ buffered = << >> /\ received = << >>
      /\ sending_header = TRUE /\ send_len = 0 /\ conn = "open" /\ falls = FALSE
      /\ in_wfds = FALSE
  BY DEF Init
<1>2. Len(queued) = 0 /\ Len(send_que) = 0 /\ Len(buffered) = 0
  BY <1>1
<1>3. TypeOK
  <2>1. queued \in Seq(Message) /\ send_que \in Seq(1..MaxMessages)
    BY <1>1, EmptySeq
  <2>2. /\ in_wfds \in BOOLEAN /\ (in_wfds <=> send_que # << >>)
        /\ sending_header \in BOOLEAN /\ falls \in BOOLEAN
    BY <1>1, Zenon
  <2>3. send_len \in Nat /\ Len(buffered) <= Room /\ ~(send_len # 0)
    BY <1>1, <1>2
  <2>4. conn \in {"open", "error", "full", "terminal"}
    BY <1>1
  <2> QED BY <2>1, <2>2, <2>3, <2>4, Types, Zenon
<1>4. popped = 0 /\ partial = 0
  BY <1>1, <1>2 DEF popped, partial
<1>5. Numbered /\ Begun
  BY <1>1, <1>2, <1>4 DEF Numbered, Begun
<1>6. wire = << >> /\ DOMAIN wire = {} /\ received \in Seq(Byte) /\ buffered \in Seq(Byte)
  <2>1. received \in Seq(Byte) /\ buffered \in Seq(Byte) /\ << >> \in Seq(Byte)
    BY <1>1, EmptySeq
  <2>2. wire = << >>
    BY <1>1, <2>1, ConcatEmptySeq DEF wire
  <2> QED BY <2>1, <2>2
<1>7. StreamIsQueue /\ WithinMessages
  BY <1>6 DEF StreamIsQueue, WithinMessages
<1>8. PoppedWhenWritten /\ CutOffAfterHeader
  BY <1>1, <1>4, <1>6 DEF PoppedWhenWritten, LastByte, CutOffAfterHeader
<1> QED BY <1>3, <1>5, <1>7, <1>8 DEF WInv

LEMMA PushWInv ==
    ASSUME WInv, NEW m \in Message, PushMessage(m)
    PROVE  WInv'
<1> DEFINE l == Len(queued)
           n == Len(send_que)
<1>1. /\ UNCHANGED <<sending_header, send_len, falls, buffered, received, conn>>
      /\ conn = "open" /\ ~falls /\ l < MaxMessages /\ in_wfds' = TRUE
      /\ queued' = Append(queued, m) /\ send_que' = Append(send_que, Len(queued'))
  BY DEF PushMessage, writer
<1>2. /\ l \in Nat /\ n \in Nat /\ popped \in Nat /\ popped = l - n /\ MaxMessages \in Nat
      /\ DOMAIN queued = 1..l /\ DOMAIN send_que = 1..n
      /\ queued \in Seq(Message) /\ send_que \in Seq(1..MaxMessages)
  BY Facts, Types DEF WInv, popped
<1>3. /\ queued' \in Seq(Message) /\ Len(queued') = l + 1
      /\ \A k \in 1..l : queued'[k] = queued[k]
      /\ DOMAIN queued' = 1..(l + 1)
  BY <1>1, <1>2, AppendProperties, LenProperties
<1>4. /\ send_que' \in Seq(1..MaxMessages) /\ send_que' # << >> /\ Len(send_que') = n + 1
      /\ \A i \in 1..n : send_que'[i] = send_que[i]
      /\ send_que'[n + 1] = l + 1
      /\ DOMAIN send_que' = 1..(n + 1)
  <2>1. l + 1 \in 1..MaxMessages
    BY <1>1, <1>2
  <2>2. send_que' = Append(send_que, l + 1)
    BY <1>1, <1>3
  <2> QED BY <1>2, <2>1, <2>2, AppendProperties, LenProperties
<1> HIDE DEF l, n
<1>5. popped' = popped
  <2>1. popped' = Len(queued') - Len(send_que')
    BY DEF popped
  <2>2. popped' = (l + 1) - (n + 1)
    BY <1>3, <1>4, <2>1
  <2> QED BY <1>2, <2>2
<1>6. Numbered'
  <2>1. ASSUME NEW i \in 1..(n + 1) PROVE send_que'[i] = popped + i
    <3>1. CASE i \in 1..n
      BY <1>2, <1>4, <3>1 DEF WInv, Numbered
    <3>2. CASE i = n + 1
      <4>1. popped + i = l + 1
        BY <1>2, <3>2
      <4> QED BY <1>4, <3>2, <4>1
    <3> QED BY <1>2, <3>1, <3>2
  <2>2. Len(queued') <= MaxMessages /\ popped' \in Nat
    BY <1>1, <1>2, <1>3, <1>5 DEF l
  <2> QED BY <1>4, <1>5, <2>1, <2>2 DEF Numbered
<1>7. Begun'
  BY <1>1, <1>4 DEF WInv, Begun
<1>8. wire' = wire /\ partial' = partial
  BY <1>1 DEF wire, partial
<1>9. \A k \in 1..l : Size(queued', k) = Size(queued, k)
  BY <1>3 DEF Size
<1>10. ASSUME NEW j \in DOMAIN wire
       PROVE  /\ wire[j][1] \in DOMAIN queued'
              /\ j > 1 => wire[j] = After(queued', wire[j - 1])
              /\ wire[j][2] \in 1..Size(queued', wire[j][1])
  <2>1. /\ wire[j][1] \in 1..l
        /\ j > 1 => wire[j] = After(queued, wire[j - 1])
        /\ wire[j][2] \in 1..Size(queued, wire[j][1])
    BY <1>2 DEF WInv, StreamIsQueue, WithinMessages
  <2>2. j > 1 => j - 1 \in DOMAIN wire
    BY Facts
  <2>3. j > 1 => wire[j - 1][1] \in 1..l
    BY <1>2, <2>2 DEF WInv, StreamIsQueue
  <2>4. j > 1 => After(queued', wire[j - 1]) = After(queued, wire[j - 1])
    BY <1>9, <2>3 DEF After
  <2>5. 1..l \subseteq DOMAIN queued'
    BY <1>2, <1>3
  <2> QED BY <1>9, <2>1, <2>4, <2>5
<1>11. StreamIsQueue' /\ WithinMessages'
  BY <1>1, <1>8, <1>10 DEF WInv, StreamIsQueue, WithinMessages
<1>12. PoppedWhenWritten'
  <2>1. popped > 0 => popped \in 1..l
    BY <1>2
  <2>2. popped > 0 => Size(queued', popped) = Size(queued, popped)
    BY <1>9, <2>1
  <2>3. LastByte' = LastByte
    BY <1>5, <1>8, <2>2 DEF LastByte
  <2> QED BY <1>1, <1>8, <2>3 DEF WInv, PoppedWhenWritten
<1>13. CutOffAfterHeader'
  BY <1>1 DEF CutOffAfterHeader
<1>14. TypeOK'
  <2>1. send_len' # 0 => send_len' < IF sending_header' THEN H ELSE Payload'
    <3> SUFFICES ASSUME send_len # 0
                 PROVE  send_len < IF sending_header THEN H ELSE Payload'
      BY <1>1
    <3>1. send_len < IF sending_header THEN H ELSE Payload
      BY Types DEF WInv
    <3>2. send_que # << >>
      BY Facts DEF WInv, Begun
    <3>3. Current' = Current
      <4>1. n \in Nat \ {0} /\ Head(send_que) = send_que[1] /\ Head(send_que') = send_que'[1]
        BY <1>2, <1>4, <3>2, EmptySeq DEF n
      <4> QED BY <1>4, <4>1 DEF Current
    <3>4. Current \in 1..l
      BY <3>2, CurrentIs DEF l
    <3>5. Payload' = Payload
      BY <1>3, <3>3, <3>4 DEF Payload
    <3> QED BY <3>1, <3>5
  <2>2. /\ sending_header' \in BOOLEAN /\ falls' \in BOOLEAN /\ send_len' \in Nat
        /\ Len(buffered') <= Room /\ conn' \in {"open", "error", "full", "terminal"}
    BY <1>1, Types DEF WInv
  <2>3. in_wfds' \in BOOLEAN /\ (in_wfds' <=> send_que' # << >>)
    BY <1>1, <1>4, Zenon
  <2> QED BY <1>3, <1>4, <2>1, <2>2, <2>3, TypesNext, Zenon
<1> QED BY <1>6, <1>7, <1>11, <1>12, <1>13, <1>14 DEF WInv

LEMMA Rest ==
    ASSUME NEW S, NEW s \in Seq(S), NEW n \in 0..Len(s)
    PROVE  /\ SubSeq(s, n + 1, Len(s)) \in Seq(S)
           /\ Len(SubSeq(s, n + 1, Len(s))) = Len(s) - n
           /\ \A j \in 1..(Len(s) - n) : SubSeq(s, n + 1, Len(s))[j] = s[j + n]
<1>1. Len(s) \in Nat /\ n + 1 \in Int /\ \A j \in (n + 1)..Len(s) : s[j] \in S
  BY ElementOfSeq
<1>2. /\ SubSeq(s, n + 1, Len(s)) \in Seq(S)
      /\ Len(SubSeq(s, n + 1, Len(s))) = IF n + 1 <= Len(s) THEN Len(s) - (n + 1) + 1 ELSE 0
      /\ \A j \in 1..(Len(s) - (n + 1) + 1) : SubSeq(s, n + 1, Len(s))[j] = s[(n + 1) + j - 1]
  BY <1>1, SubSeqProperties
<1> DEFINE t == SubSeq(s, n + 1, Len(s))
           l == Len(s)
<1>3. /\ l \in Nat /\ t \in Seq(S) /\ Len(t) = IF n + 1 <= l THEN l - (n + 1) + 1 ELSE 0
      /\ \A j \in 1..(l - (n + 1) + 1) : t[j] = s[(n + 1) + j - 1]
  BY <1>1, <1>2
<1> HIDE DEF t, l
<1>4. Len(t) = l - n
  BY <1>3 DEF l
<1>5. ASSUME NEW j \in 1..(l - n) PROVE t[j] = s[j + n]
  <2>1. j \in 1..(l - (n + 1) + 1) /\ (n + 1) + j - 1 = j + n
    BY <1>3
  <2> QED BY <1>3, <2>1
<1> QED BY <1>3, <1>4, <1>5 DEF t, l

LEMMA Beginnings ==
    ASSUME NEW S, NEW s \in Seq(S), NEW n \in 0..Len(s)
    PROVE  /\ SubSeq(s, 1, n) \in Seq(S)
           /\ Len(SubSeq(s, 1, n)) = n
           /\ \A j \in 1..n : SubSeq(s, 1, n)[j] = s[j]
<1>1. Len(s) \in Nat /\ \A j \in 1..n : s[j] \in S
  BY ElementOfSeq
<1>2. /\ SubSeq(s, 1, n) \in Seq(S)
      /\ Len(SubSeq(s, 1, n)) = IF 1 <= n THEN n - 1 + 1 ELSE 0
      /\ \A j \in 1..(n - 1 + 1) : SubSeq(s, 1, n)[j] = s[1 + j - 1]
  BY <1>1, SubSeqProperties
<1>3. n - 1 + 1 = n /\ \A j \in Nat : 1 + j - 1 = j
  BY <1>1
<1> QED BY <1>2, <1>3

(* The client reads: the bytes stay the same.                              *)
LEMMA ReadsWInv ==
    ASSUME WInv, NEW n \in 1..Len(buffered), ClientReads(n)
    PROVE  WInv'
<1> DEFINE r    == Len(received)
           b    == Len(buffered)
           head == SubSeq(buffered, 1, n)
           rest == SubSeq(buffered, n + 1, b)
<1>1. /\ received \in Seq(Byte) /\ buffered \in Seq(Byte) /\ r \in Nat /\ b \in Nat /\ b <= Room
      /\ n \in 0..b /\ Room \in Nat
  BY Facts DEF WInv, WithinMessages
<1>2. /\ UNCHANGED <<queued, send_que, in_wfds, sending_header, send_len, falls, conn>>
      /\ received' = received \o head /\ buffered' = rest
  BY DEF ClientReads, queue, writer
<1>3. head \in Seq(Byte) /\ Len(head) = n /\ \A j \in 1..n : head[j] = buffered[j]
  BY <1>1, Beginnings
<1>4. rest \in Seq(Byte) /\ Len(rest) = b - n /\ \A j \in 1..(b - n) : rest[j] = buffered[j + n]
  BY <1>1, Rest
<1>5. /\ wire \in Seq(Byte) /\ Len(wire) = r + b
      /\ \A j \in 1..(r + b) : wire[j] = IF j <= r THEN received[j] ELSE buffered[j - r]
  BY <1>1, ConcatProperties DEF wire
<1> HIDE DEF r, b, head, rest
<1>6. /\ received' \in Seq(Byte) /\ Len(received') = r + n
      /\ \A j \in 1..(r + n) : received'[j] = IF j <= r THEN received[j] ELSE head[j - r]
  <2> DEFINE both == received \o head
  <2>1. /\ both \in Seq(Byte) /\ Len(both) = r + Len(head)
        /\ \A j \in 1..(r + Len(head)) : both[j] = IF j <= r THEN received[j] ELSE head[j - r]
    BY <1>1, <1>3, ConcatProperties DEF r
  <2> HIDE DEF both
  <2>2. received' = both
    BY <1>2 DEF both
  <2> QED BY <1>3, <2>1, <2>2
<1>7. /\ wire' \in Seq(Byte) /\ Len(wire') = (r + n) + (b - n)
      /\ \A j \in 1..((r + n) + (b - n)) :
            wire'[j] = IF j <= r + n THEN received'[j] ELSE rest[j - (r + n)]
  <2> DEFINE both == received' \o rest
  <2>1. /\ both \in Seq(Byte) /\ Len(both) = Len(received') + Len(rest)
        /\ \A j \in 1..(Len(received') + Len(rest)) :
              both[j] = IF j <= Len(received') THEN received'[j] ELSE rest[j - Len(received')]
    BY <1>4, <1>6, ConcatProperties
  <2>2. wire' = both
    BY <1>2 DEF wire
  <2> HIDE DEF both
  <2> QED BY <1>4, <1>6, <2>1, <2>2
<1>8. (r + n) + (b - n) = r + b
  BY <1>1
<1>9. ASSUME NEW j \in 1..(r + b) PROVE wire'[j] = wire[j]
  <2>1. CASE j <= r
    <3>1. j <= r + n /\ j \in 1..(r + n)
      BY <1>1, <2>1
    <3> QED BY <1>5, <1>6, <1>7, <1>8, <2>1, <3>1
  <2>2. CASE j > r /\ j <= r + n
    <3>1. j \in 1..(r + n) /\ j - r \in 1..n /\ ~(j <= r)
      BY <1>1, <2>2
    <3>2. wire'[j] = head[j - r] /\ wire[j] = buffered[j - r]
      BY <1>5, <1>6, <1>7, <1>8, <2>2, <3>1
    <3> QED BY <1>3, <3>1, <3>2
  <2>3. CASE j > r + n
    <3>1. j - (r + n) \in 1..(b - n) /\ (j - (r + n)) + n = j - r /\ ~(j <= r) /\ ~(j <= r + n)
      BY <1>1, <2>3
    <3>2. wire'[j] = rest[j - (r + n)] /\ wire[j] = buffered[j - r]
      BY <1>5, <1>7, <1>8, <3>1
    <3> QED BY <1>4, <3>1, <3>2
  <2> QED BY <1>1, <2>1, <2>2, <2>3
<1>10. wire' = wire
  BY <1>5, <1>7, <1>8, <1>9, SeqEqual
<1>11. popped' = popped /\ partial' = partial /\ Payload' = Payload
  BY <1>2 DEF popped, partial, Payload, Current
<1>12. TypeOK'
  <2>1. Len(buffered') <= Room
    BY <1>1, <1>2, <1>4
  <2> QED BY <1>2, <1>11, <2>1, Types, TypesNext DEF WInv
<1>13. Numbered' /\ Begun'
  BY <1>2, <1>11 DEF WInv, Numbered, Begun
<1>14. StreamIsQueue' /\ WithinMessages'
  BY <1>2, <1>4, <1>6, <1>10 DEF WInv, StreamIsQueue, WithinMessages
<1>15. PoppedWhenWritten' /\ CutOffAfterHeader'
  <2>1. LastByte' = LastByte
    BY <1>2, <1>11 DEF LastByte
  <2> QED BY <1>2, <1>10, <2>1 DEF WInv, PoppedWhenWritten, CutOffAfterHeader
<1> QED BY <1>12, <1>13, <1>14, <1>15 DEF WInv

(* The connection ends: what the properties say of the writer is about     *)
(* open connections, but for the place where it may be "full".             *)
LEMMA ClosesWInv ==
    ASSUME WInv, NEW reason \in {"error", "full", "terminal"}, Closes(reason),
           reason = "full" => ~sending_header /\ send_len = 0,
           StreamIsQueue', WithinMessages', Len(buffered') <= Room
    PROVE  WInv'
<1>1. /\ UNCHANGED <<queued, send_que, in_wfds, sending_header, send_len>>
      /\ falls' = FALSE /\ conn' = reason
  BY DEF Closes, queue, writer
<1>2. popped' = popped /\ Payload' = Payload
  BY <1>1 DEF popped, Payload, Current
<1>3. TypeOK'
  <2>1. falls' \in BOOLEAN /\ conn' \in {"open", "error", "full", "terminal"}
    BY <1>1
  <2> QED BY <1>1, <1>2, <2>1, Types, TypesNext DEF WInv
<1>4. Numbered' /\ Begun'
  BY <1>1, <1>2 DEF WInv, Numbered, Begun
<1>5. PoppedWhenWritten' /\ CutOffAfterHeader'
  BY <1>1 DEF PoppedWhenWritten, CutOffAfterHeader
<1> QED BY <1>3, <1>4, <1>5 DEF WInv

LEMMA FailsWInv ==
    ASSUME WInv, WriteFails
    PROVE  WInv'
<1>1. Closes("error") /\ buffered' = buffered /\ received' = received /\ queued' = queued
  BY DEF WriteFails, Closes, queue
<1>2. wire' = wire /\ Len(buffered') <= Room
  BY <1>1, Facts DEF wire
<1>3. StreamIsQueue' /\ WithinMessages'
  BY <1>1, <1>2 DEF WInv, StreamIsQueue, WithinMessages
<1> QED BY <1>1, <1>2, <1>3, ClosesWInv

LEMMA HeaderWInv ==
    ASSUME WInv, SendHeader
    PROVE  WInv'
<1> DEFINE n == Put(H - send_len)
           c == send_len
<1>1. /\ Writable /\ sending_header /\ conn = "open" /\ send_que # << >>
      /\ c \in Nat /\ c < H /\ partial = c /\ Len(buffered) \in Nat /\ Len(buffered) < Room
      /\ received' = received /\ Room \in Nat /\ ~falls
  BY Types, Facts DEF SendHeader, Writable, WInv, partial
<1>2. n \in Nat /\ n > 0 /\ c + n <= H /\ Len(buffered) + n <= Room
  BY <1>1 DEF Put, Smaller
<1>3. /\ Size(queued, Current) \in Nat /\ Size(queued, Current) >= H
      /\ c + n <= Size(queued, Current)
  BY <1>1, <1>2, CurrentIs
<1>4. ASSUME Write(c, n), queued' = queued
      PROVE  /\ StreamIsQueue' /\ WithinMessages' /\ Len(buffered') <= Room
             /\ wire' # << >> /\ Last(wire') = <<popped + 1, c + n>>
  <2> HIDE DEF n
  <2>1. /\ Write(partial, n) /\ partial + n <= Size(queued, Current)
        /\ n > 0 \/ partial > 0
    BY <1>1, <1>2, <1>3, <1>4
  <2>2. /\ Len(buffered') = Len(buffered) + n
        /\ StreamIsQueue' /\ WithinMessages'
        /\ wire' # << >> /\ Last(wire') = <<popped + 1, partial + n>>
    BY <1>1, <1>2, <1>4, <2>1, WriteInOrder
  <2> QED BY <1>1, <1>2, <2>2
<1>5. CASE Write(c, n) /\ Closes("terminal")
  <2>1. queued' = queued
    BY <1>5 DEF Closes, queue
  <2> QED BY <1>4, <1>5, <2>1, ClosesWInv
<1>6. CASE /\ Write(c, n)
           /\ sending_header' = ~(c + n = H)
           /\ send_len' = IF c + n = H THEN 0 ELSE c + n
           /\ falls' = (c + n = H)
           /\ UNCHANGED <<queue, conn>>
  <2> HIDE DEF n
  <2>1. /\ UNCHANGED <<queued, send_que, in_wfds, conn>>
        /\ sending_header' \in BOOLEAN /\ falls' \in BOOLEAN
        /\ sending_header' <=> c + n # H
        /\ falls' <=> c + n = H
    BY <1>6, Zenon DEF queue
  <2>2. /\ StreamIsQueue' /\ WithinMessages' /\ Len(buffered') <= Room
        /\ wire' # << >> /\ Last(wire') = <<popped + 1, c + n>>
    BY <1>4, <1>6, <2>1
  <2>3. popped' = popped /\ partial' = c + n /\ c + n > 0 /\ Payload' = Payload
    BY <1>1, <1>2, <1>6, <2>1 DEF popped, partial, Payload, Current
  <2>4. TypeOK'
    <3>1. send_len' \in Nat /\ (send_len' # 0 => sending_header' /\ send_len' < H)
      BY <1>1, <1>2, <1>6, <2>1
    <3>2. send_len' # 0 => send_len' < IF sending_header' THEN H ELSE Payload'
      BY <3>1
    <3> QED BY <2>1, <2>2, <3>1, <3>2, Types, TypesNext DEF WInv
  <2>5. Numbered'
    BY <2>1, <2>3 DEF WInv, Numbered
  <2>6. Begun'
    BY <1>1, <1>6, <2>1 DEF Begun
  <2>7. PoppedWhenWritten'
    <3>1. LastByte' = <<popped + 1, c + n>>
      BY <2>3 DEF LastByte
    <3> QED BY <2>2, <3>1 DEF PoppedWhenWritten
  <2>8. CutOffAfterHeader'
    BY <1>1, <2>1 DEF CutOffAfterHeader
  <2> QED BY <2>2, <2>4, <2>5, <2>6, <2>7, <2>8 DEF WInv
<1>7. n # 0
  BY <1>2
<1> QED BY <1>5, <1>6, <1>7 DEF SendHeader

LEMMA DataWInv ==
    ASSUME WInv, SendData
    PROVE  WInv'
<1> DEFINE n == Put(Payload - send_len)
           c == send_len
           e == Payload
<1>1. /\ conn = "open" /\ ~sending_header /\ send_que # << >>
      /\ falls \/ Writable
      /\ c \in Nat /\ partial = H + c /\ Len(buffered) \in Nat /\ Len(buffered) <= Room
      /\ Room \in Nat
      /\ received' = received
  BY Facts DEF SendData, WInv, Begun, partial
<1>2. /\ Current = popped + 1 /\ Current \in 1..Len(queued)
      /\ e \in Nat /\ Size(queued, Current) = H + e
      /\ send_que \in Seq(1..MaxMessages) /\ Len(send_que) \in Nat \ {0}
      /\ popped \in Nat /\ Len(queued) \in Nat
  BY <1>1, CurrentIs, Facts, Types DEF WInv
<1>3. c < e \/ (c = 0 /\ e = 0)
  <2>1. c # 0 => c < e
    BY <1>1, Types DEF WInv
  <2> QED BY <1>1, <1>2, <2>1
<1>4. /\ n \in Nat /\ c + n <= e /\ Len(buffered) + n <= Room
      /\ Len(buffered) < Room /\ e > 0 => n > 0
  BY <1>1, <1>2, <1>3 DEF Put, Smaller
<1>5. CASE n = 0 /\ e > 0 /\ Closes("full") /\ buffered' = buffered
  <2>1. ~Writable
    BY <1>4, <1>5 DEF Writable
  <2>2. send_len = 0
    BY <1>1, <2>1 DEF WInv, Begun
  <2>3. queued' = queued /\ wire' = wire
    BY <1>1, <1>5 DEF Closes, queue, wire
  <2>4. StreamIsQueue' /\ WithinMessages' /\ Len(buffered') <= Room
    BY <1>1, <1>5, <2>3 DEF WInv, StreamIsQueue, WithinMessages
  <2> QED BY <1>1, <1>5, <2>2, <2>4, ClosesWInv
<1>6. CASE /\ n > 0 \/ e = 0
           /\ Write(Offset, n)
           /\ IF Pops(c + n = e, n)
              THEN /\ sending_header' = TRUE /\ send_len' = 0
                   /\ send_que' = Tail(send_que)
                   /\ in_wfds' = (Tail(send_que) # << >>)
              ELSE /\ send_len' = c + n
                   /\ UNCHANGED <<sending_header, send_que, in_wfds>>
           /\ falls' = FALSE
           /\ UNCHANGED <<queued, conn>>
  <2> HIDE DEF n, e
  <2>1. /\ buffered' \in Seq(Byte) /\ Len(buffered') = Len(buffered) + n
        /\ StreamIsQueue' /\ WithinMessages'
        /\ wire' # << >> /\ Last(wire') = <<popped + 1, H + (c + n)>>
    <3>1. /\ Write(partial, n) /\ partial + n <= Size(queued, Current)
          /\ n > 0 \/ partial > 0
          /\ partial + n = H + (c + n)
      BY <1>1, <1>2, <1>4, <1>6 DEF Offset
    <3> QED BY <1>1, <1>4, <1>6, <3>1, WriteInOrder
  <2>2. /\ Len(buffered') <= Room /\ queued' = queued /\ conn' = "open"
        /\ falls' = FALSE
    BY <1>1, <1>4, <1>6, <2>1
  <2>3. CASE c + n = e
    <3>1. /\ sending_header' = TRUE /\ send_len' = 0 /\ send_que' = Tail(send_que)
          /\ in_wfds' \in BOOLEAN /\ (in_wfds' <=> send_que' # << >>)
      BY <1>6, <2>3, Zenon DEF Pops
    <3>2. /\ send_que' \in Seq(1..MaxMessages) /\ Len(send_que') = Len(send_que) - 1
          /\ \A i \in 1..Len(send_que') : send_que'[i] = send_que[i + 1]
      BY <1>1, <1>2, <3>1, HeadTailProperties
    <3>3. popped' = popped + 1 /\ partial' = 0
      BY <1>2, <2>2, <3>1, <3>2 DEF popped, partial
    <3>4. TypeOK'
      <4>1. /\ send_len' \in Nat /\ ~(send_len' # 0)
            /\ sending_header' \in BOOLEAN /\ falls' \in BOOLEAN
            /\ conn' \in {"open", "error", "full", "terminal"}
        BY <2>2, <3>1
      <4>2. queued' \in Seq(Message)
        BY <2>2, Types DEF WInv
      <4> QED BY <2>2, <3>1, <3>2, <4>1, <4>2, TypesNext
    <3>5. Numbered'
      <4>1. DOMAIN send_que' = 1..Len(send_que') /\ DOMAIN send_que = 1..Len(send_que)
        BY <1>2, <3>2, LenProperties
      <4>2. ASSUME NEW i \in 1..Len(send_que')
            PROVE  send_que'[i] = (popped + 1) + i
        <5>1. i + 1 \in DOMAIN send_que
          BY <1>2, <3>2, <4>1
        <5>2. send_que[i + 1] = popped + (i + 1)
          BY <5>1 DEF WInv, Numbered
        <5>3. popped + (i + 1) = (popped + 1) + i
          BY <1>2
        <5> QED BY <3>2, <5>2, <5>3
      <4> QED BY <1>2, <2>2, <3>3, <4>1, <4>2 DEF WInv, Numbered
    <3>6. Begun'
      BY <2>2, <3>1 DEF Begun
    <3>7. PoppedWhenWritten'
      <4>1. LastByte' = <<popped + 1, Size(queued, popped + 1)>>
        BY <1>2, <2>2, <3>3 DEF LastByte
      <4>2. Size(queued, popped + 1) = H + (c + n)
        BY <1>2, <2>3
      <4> QED BY <2>1, <4>1, <4>2 DEF PoppedWhenWritten
    <3>8. CutOffAfterHeader'
      BY <2>2 DEF CutOffAfterHeader
    <3> QED BY <2>1, <3>4, <3>5, <3>6, <3>7, <3>8 DEF WInv
  <2>4. CASE c + n # e
    <3>1. /\ send_len' = c + n
          /\ UNCHANGED <<sending_header, send_que, in_wfds>>
      BY <1>6, <2>4, Zenon DEF Pops
    <3>2. popped' = popped /\ partial' = H + (c + n) /\ Payload' = Payload
      BY <1>1, <2>2, <3>1 DEF popped, partial, Payload, Current
    <3>3. TypeOK'
      <4>1. send_len' \in Nat /\ send_len' < e
        BY <1>1, <1>2, <1>4, <2>4, <3>1
      <4>2. falls' \in BOOLEAN /\ conn' \in {"open", "error", "full", "terminal"}
        BY <2>2
      <4>3. send_len' < Payload' /\ ~sending_header'
        BY <1>1, <3>1, <3>2, <4>1 DEF e
      <4> QED BY <2>2, <3>1, <4>1, <4>2, <4>3, Types, TypesNext DEF WInv
    <3>4. Numbered'
      BY <2>2, <3>1, <3>2 DEF WInv, Numbered
    <3>5. Begun'
      BY <1>1, <2>2, <3>1 DEF Begun
    <3>6. PoppedWhenWritten'
      <4>1. LastByte' = <<popped + 1, H + (c + n)>>
        BY <1>1, <1>4, <3>2 DEF LastByte
      <4> QED BY <2>1, <4>1 DEF PoppedWhenWritten
    <3>7. CutOffAfterHeader'
      BY <2>2 DEF CutOffAfterHeader
    <3> QED BY <2>1, <3>3, <3>4, <3>5, <3>6, <3>7 DEF WInv
  <2> QED BY <2>3, <2>4
<1> QED BY <1>5, <1>6 DEF SendData

-----------------------------------------------------------------------------
LEMMA NextWInv == WInv /\ [Next]_vars => WInv'
<1> SUFFICES ASSUME WInv, [Next]_vars PROVE WInv'
  OBVIOUS
<1>1. ASSUME NEW m \in Message, PushMessage(m) PROVE WInv'
  BY <1>1, PushWInv
<1>2. CASE Reads
  BY <1>2, ReadsWInv DEF Reads
<1>3. CASE WriteFails
  BY <1>3, FailsWInv
<1>4. CASE SendHeader
  BY <1>4, HeaderWInv
<1>5. CASE SendData
  BY <1>5, DataWInv
<1>6. CASE UNCHANGED vars
  <2>1. UNCHANGED <<queued, send_que, in_wfds, sending_header, send_len, falls,
                    buffered, received, conn>>
    BY <1>6 DEF vars, queue, writer
  <2>2. /\ popped' = popped /\ partial' = partial /\ Payload' = Payload
        /\ wire' = wire /\ LastByte' = LastByte
    BY <2>1 DEF popped, partial, Payload, Current, wire, LastByte
  <2>3. TypeOK'
    BY <2>1, <2>2, Types, TypesNext DEF WInv
  <2>4. Numbered' /\ Begun' /\ WithinMessages' /\ StreamIsQueue'
    BY <2>1, <2>2 DEF WInv, Numbered, Begun, WithinMessages, StreamIsQueue
  <2>5. PoppedWhenWritten' /\ CutOffAfterHeader'
    BY <2>1, <2>2 DEF WInv, PoppedWhenWritten, CutOffAfterHeader
  <2> QED BY <2>3, <2>4, <2>5 DEF WInv
<1> QED BY <1>1, <1>2, <1>3, <1>4, <1>5, <1>6 DEF Next

LEMMA SpecWInv == Spec => []WInv
BY InitWInv, NextWInv, PTL DEF Spec

(* The descriptor is in _wfds exactly while send_que holds messages, and   *)
(* send_header and send_data write no header and no payload past its end.  *)
THEOREM TypeCorrect == Spec => []TypeOK
<1>1. WInv => TypeOK
  BY DEF WInv
<1> QED BY <1>1, SpecWInv, PTL

(* What send_header and send_data write are the messages pushed, in their  *)
(* order, each to its end before the next one begins.                      *)
THEOREM StreamIsTheQueue == Spec => []StreamIsQueue
<1>1. WInv => StreamIsQueue
  BY DEF WInv
<1> QED BY <1>1, SpecWInv, PTL

(* send_data pops a message with its last byte, never before and never     *)
(* twice.                                                                  *)
THEOREM PopsWhatWasWritten == Spec => []PoppedWhenWritten
<1>1. WInv => PoppedWhenWritten
  BY DEF WInv
<1> QED BY <1>1, SpecWInv, PTL

(* send_msg gives a client up for want of room only between a header and   *)
(* the first byte of its payload.                                          *)
THEOREM GivenUpAfterHeader == Spec => []CutOffAfterHeader
<1>1. WInv => CutOffAfterHeader
  BY DEF WInv
<1> QED BY <1>1, SpecWInv, PTL
=============================================================================
