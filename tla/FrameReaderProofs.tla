------------------------- MODULE FrameReaderProofs -------------------------
(***************************************************************************)
(* recv_header and recv_data put the frames of a client together again,    *)
(* for frames of any length, any number of them, and however the network   *)
(* cuts the stream.                                                        *)
(***************************************************************************)
EXTENDS FrameReader, SequenceTheorems, WellFoundedInduction, TLAPS

USE LengthsAssumption DEF H

-----------------------------------------------------------------------------
(* The stream.                                                             *)

(* A frame's bytes on the wire, and the byte that follows one on it.       *)
Size(lens, k) == Larger(lens[k], H)
After(lens, b) == IF b[2] < Size(lens, b[1]) THEN <<b[1], b[2] + 1>> ELSE <<b[1] + 1, 1>>

(* The bytes recv_header and recv_data have still to take, those that have *)
(* arrived first, and behind them the first byte of a frame to be written. *)
Pending == Len(arrived) + Len(flight)

ahead == [j \in 1..(Pending + 1) |->
            IF j <= Len(arrived) THEN arrived[j]
            ELSE IF j <= Pending THEN flight[j - Len(arrived)]
            ELSE <<Len(sent) + 1, 1>>]

InOrder ==
    \A j \in 1..Pending :
        /\ ahead[j][1] \in 1..Len(sent) /\ ahead[j][2] \in 1..Size(sent, ahead[j][1])
        /\ ahead[j + 1] = After(sent, ahead[j])

(* The frame being read, and how many of its bytes were.                   *)
Current == Len(parsed) + 1
Consumed == IF recving_header THEN recv_len ELSE H + recv_len

Beginning == IF Consumed = 0 THEN <<Current, 1>> ELSE After(sent, <<Current, Consumed>>)

-----------------------------------------------------------------------------
(* The inductive invariant: what was read of the current frame is in its   *)
(* place, and what comes next on the stream is what is missing of it.      *)
HeaderRead ==
    /\ recving_header => recv_len < H
    /\ \A i \in 1..H : i <= Consumed => header[i] = <<Current, i>>
    /\ Consumed > 0 => Current <= Len(sent)

DataRead ==
    ~recving_header /\ recv_len > 0 =>
        /\ H + recv_len < sent[Current] /\ Len(data) = sent[Current] - H
        /\ \A i \in 1..recv_len : data[i] = <<Current, H + i>>

RInv ==
    /\ TypeOK /\ Len(sent) <= MaxFrames /\ Len(parsed) <= Len(sent)
    /\ InOrder /\ ahead[1] = Beginning
    /\ HeaderRead /\ DataRead
    /\ falls => conn = "open" /\ ~recving_header /\ recv_len = 0
    /\ WholeFrames /\ CutOffAfterHeader

-----------------------------------------------------------------------------
(* Sequences.                                                              *)

(* A set of naturals that is not empty has a least element.                *)
LEMMA LeastExists ==
    ASSUME NEW T \in SUBSET Nat, T # {}
    PROVE  \E x \in T : \A y \in T : x <= y
<1> DEFINE R == {ss \in Nat \X Nat : ss[1] < ss[2]}
<1>1. IsWellFoundedOn(R, Nat)
  BY NatLessThanWellFounded DEF OpToRel
<1>2. PICK x \in T : \A y \in T : <<y, x>> \notin R
  <2> HIDE DEF R
  <2> QED BY <1>1, WFMin
<1>3. ASSUME NEW y \in T PROVE x <= y
  <2>1. <<y, x>> \in Nat \X Nat
    BY <1>2
  <2>2. ~(y < x)
    BY <1>2, <2>1, Zenon
  <2> QED BY <2>1, <2>2
<1> QED BY <1>3

LEMMA FunctionIsSeq ==
    ASSUME NEW S, NEW n \in Nat, NEW s \in [1..n -> S]
    PROVE  s \in Seq(S) /\ Len(s) = n /\ DOMAIN s = 1..n
<1>1. s \in Seq(S)
  BY SeqDef
<1>2. Len(s) \in Nat /\ DOMAIN s = 1..Len(s) /\ DOMAIN s = 1..n
  BY <1>1, LenProperties
<1> QED BY <1>1, <1>2

LEMMA Rest ==
    ASSUME NEW S, NEW s \in Seq(S), NEW n \in 0..Len(s)
    PROVE  /\ SubSeq(s, n + 1, Len(s)) \in Seq(S)
           /\ Len(SubSeq(s, n + 1, Len(s))) = Len(s) - n
           /\ \A j \in 1..(Len(s) - n) : SubSeq(s, n + 1, Len(s))[j] = s[j + n]
<1>1. Len(s) \in Nat /\ n + 1 \in Int /\ \A j \in (n + 1)..Len(s) : s[j] \in S
  BY ElementOfSeq
<1>2. /\ SubSeq(s, n + 1, Len(s)) \in Seq(S)
      /\ Len(SubSeq(s, n + 1, Len(s))) = IF n + 1 <= Len(s) THEN Len(s) - (n + 1) + 1 ELSE 0
      /\ \A j \in 1..(Len(s) - (n + 1) + 1) : SubSeq(s, n + 1, Len(s))[j] = s[(n + 1) + j - 1]
  BY <1>1, SubSeqProperties
<1> DEFINE t == SubSeq(s, n + 1, Len(s))
           l == Len(s)
<1>3. /\ l \in Nat /\ t \in Seq(S) /\ Len(t) = IF n + 1 <= l THEN l - (n + 1) + 1 ELSE 0
      /\ \A j \in 1..(l - (n + 1) + 1) : t[j] = s[(n + 1) + j - 1]
  BY <1>1, <1>2
<1> HIDE DEF t, l
<1>4. Len(t) = l - n
  BY <1>3 DEF l
<1>5. ASSUME NEW j \in 1..(l - n) PROVE t[j] = s[j + n]
  <2>1. j \in 1..(l - (n + 1) + 1) /\ (n + 1) + j - 1 = j + n
    BY <1>3
  <2> QED BY <1>3, <2>1
<1> QED BY <1>3, <1>4, <1>5 DEF t, l

LEMMA Beginnings ==
    ASSUME NEW S, NEW s \in Seq(S), NEW n \in 0..Len(s)
    PROVE  /\ SubSeq(s, 1, n) \in Seq(S)
           /\ Len(SubSeq(s, 1, n)) = n
           /\ \A j \in 1..n : SubSeq(s, 1, n)[j] = s[j]
<1>1. Len(s) \in Nat /\ \A j \in 1..n : s[j] \in S
  BY ElementOfSeq
<1>2. /\ SubSeq(s, 1, n) \in Seq(S)
      /\ Len(SubSeq(s, 1, n)) = IF 1 <= n THEN n - 1 + 1 ELSE 0
      /\ \A j \in 1..(n - 1 + 1) : SubSeq(s, 1, n)[j] = s[1 + j - 1]
  BY <1>1, SubSeqProperties
<1>3. n - 1 + 1 = n /\ \A j \in Nat : 1 + j - 1 = j
  BY <1>1
<1> QED BY <1>2, <1>3

-----------------------------------------------------------------------------
(* The stream moves on.                                                    *)

LEMMA AfterAt ==
    ASSUME NEW lens, NEW k, NEW q
    PROVE  After(lens, <<k, q>>) = IF q < Size(lens, k) THEN <<k, q + 1>> ELSE <<k + 1, 1>>
<1>1. <<k, q>>[1] = k /\ <<k, q>>[2] = q
  OBVIOUS
<1> QED BY <1>1, Zenon DEF After

LEMMA PendingType ==
    ASSUME TypeOK
    PROVE  /\ Len(arrived) \in Nat /\ Len(flight) \in Nat /\ Pending \in Nat
           /\ Len(sent) \in Nat /\ Len(parsed) \in Nat
           /\ \A k \in 1..Len(sent) : sent[k] \in Nat /\ Size(sent, k) \in Nat /\ Size(sent, k) >= H
<1>1. sent \in Seq(Lengths) /\ arrived \in Seq(Byte) /\ flight \in Seq(Byte)
  BY DEF TypeOK
<1>2. Len(sent) \in Nat /\ Len(arrived) \in Nat /\ Len(flight) \in Nat
  BY <1>1, LenProperties
<1>3. Len(parsed) \in Nat
  BY LenProperties DEF TypeOK
<1>4. ASSUME NEW k \in 1..Len(sent) PROVE sent[k] \in Nat
  BY <1>1, ElementOfSeq
<1> QED BY <1>2, <1>3, <1>4 DEF Pending, Size, Larger

LEMMA AheadAt ==
    ASSUME TypeOK
    PROVE  /\ \A j \in 1..Len(arrived) : ahead[j] = arrived[j]
           /\ \A j \in 1..Len(flight) : ahead[Len(arrived) + j] = flight[j]
           /\ ahead[Pending + 1] = <<Len(sent) + 1, 1>>
<1>1. Len(arrived) \in Nat /\ Len(flight) \in Nat
  BY PendingType
<1>2. ASSUME NEW j \in 1..Len(flight)
      PROVE  ahead[Len(arrived) + j] = flight[j]
  <2>1. /\ Len(arrived) + j \in 1..(Pending + 1) /\ ~(Len(arrived) + j <= Len(arrived))
        /\ Len(arrived) + j <= Pending /\ (Len(arrived) + j) - Len(arrived) = j
    BY <1>1 DEF Pending
  <2> QED BY <2>1 DEF ahead
<1> QED BY <1>1, <1>2 DEF ahead, Pending

(* Bytes arrive: the stream is the same.                                   *)
LEMMA ArriveAhead ==
    ASSUME TypeOK, NEW n \in 1..Len(flight), Arrive(n)
    PROVE  /\ arrived' \in Seq(Byte) /\ flight' \in Seq(Byte)
           /\ Pending' = Pending
           /\ \A j \in 1..(Pending + 1) : ahead'[j] = ahead[j]
<1> DEFINE head == SubSeq(flight, 1, n)
<1>1. head \in Seq(Byte) /\ Len(head) = n /\ \A j \in 1..n : head[j] = flight[j]
  BY Beginnings DEF TypeOK
<1>2. /\ flight' \in Seq(Byte) /\ Len(flight') = Len(flight) - n
      /\ \A j \in 1..(Len(flight) - n) : flight'[j] = flight[j + n]
  BY Rest DEF Arrive, TypeOK
<1>3. arrived' = arrived \o head /\ sent' = sent /\ arrived \in Seq(Byte)
  BY DEF Arrive, TypeOK
<1> HIDE DEF head
<1>4. /\ arrived' \in Seq(Byte) /\ Len(arrived') = Len(arrived) + n
      /\ \A j \in 1..(Len(arrived) + n) :
            arrived'[j] = IF j <= Len(arrived) THEN arrived[j] ELSE head[j - Len(arrived)]
  <2> DEFINE both == arrived \o head
  <2>1. /\ both \in Seq(Byte) /\ Len(both) = Len(arrived) + Len(head)
        /\ \A j \in 1..(Len(arrived) + Len(head)) :
              both[j] = IF j <= Len(arrived) THEN arrived[j] ELSE head[j - Len(arrived)]
    BY <1>1, <1>3, ConcatProperties
  <2> HIDE DEF both
  <2>2. arrived' = both /\ Len(head) = n
    BY <1>1, <1>3 DEF both
  <2> QED BY <2>1, <2>2
<1>5. Len(arrived) \in Nat /\ Len(flight) \in Nat /\ Pending \in Nat /\ Pending' = Pending
  BY <1>2, <1>4, PendingType DEF Pending
<1>6. ASSUME NEW j \in 1..(Pending + 1)
      PROVE  ahead'[j] = ahead[j]
  <2>1. ahead'[j] = IF j <= Len(arrived) + n THEN arrived'[j]
                    ELSE IF j <= Pending THEN flight'[j - (Len(arrived) + n)]
                    ELSE <<Len(sent) + 1, 1>>
    BY <1>3, <1>4, <1>5 DEF ahead
  <2>2. ahead[j] = IF j <= Len(arrived) THEN arrived[j]
                   ELSE IF j <= Pending THEN flight[j - Len(arrived)]
                   ELSE <<Len(sent) + 1, 1>>
    BY DEF ahead
  <2>3. CASE j <= Len(arrived)
    BY <1>4, <1>5, <2>1, <2>2, <2>3
  <2>4. CASE j > Len(arrived) /\ j <= Len(arrived) + n
    <3>1. j - Len(arrived) \in 1..n /\ j <= Pending
      BY <1>5, <2>4 DEF Pending
    <3> QED BY <1>1, <1>4, <1>5, <2>1, <2>2, <2>4, <3>1
  <2>5. CASE j > Len(arrived) + n /\ j <= Pending
    <3>1. /\ j - (Len(arrived) + n) \in 1..(Len(flight) - n)
          /\ (j - (Len(arrived) + n)) + n = j - Len(arrived)
      BY <1>5, <2>5 DEF Pending
    <3> QED BY <1>2, <1>5, <2>1, <2>2, <2>5, <3>1
  <2>6. CASE j > Pending
    BY <1>5, <2>1, <2>2, <2>6 DEF Pending
  <2> QED BY <1>5, <2>3, <2>4, <2>5, <2>6
<1> QED BY <1>2, <1>4, <1>5, <1>6

(* Bytes are taken: the stream is what comes behind them.                  *)
LEMMA TakeAhead ==
    ASSUME TypeOK, NEW n \in 0..Len(arrived), Take(n), UNCHANGED <<sent, flight>>
    PROVE  /\ arrived' \in Seq(Byte) /\ Pending' = Pending - n /\ Pending' \in Nat
           /\ \A j \in 1..(Pending' + 1) : ahead'[j] = ahead[j + n]
           /\ ahead'[1] = ahead[n + 1]
<1>1. /\ arrived' \in Seq(Byte) /\ Len(arrived') = Len(arrived) - n
      /\ \A j \in 1..(Len(arrived) - n) : arrived'[j] = arrived[j + n]
  BY Rest DEF Take, TypeOK
<1>2. /\ Len(arrived) \in Nat /\ Len(flight) \in Nat
      /\ Pending' = Pending - n /\ Pending' \in Nat /\ Pending \in Nat
  BY <1>1, PendingType DEF Pending
<1>3. ASSUME NEW j \in 1..(Pending' + 1)
      PROVE  ahead'[j] = ahead[j + n]
  <2>1. ahead'[j] = IF j <= Len(arrived) - n THEN arrived'[j]
                    ELSE IF j <= Pending' THEN flight[j - (Len(arrived) - n)]
                    ELSE <<Len(sent) + 1, 1>>
    BY <1>1, <1>2 DEF ahead
  <2>2. j + n \in 1..(Pending + 1)
    BY <1>2
  <2>3. ahead[j + n] = IF j + n <= Len(arrived) THEN arrived[j + n]
                       ELSE IF j + n <= Pending THEN flight[(j + n) - Len(arrived)]
                       ELSE <<Len(sent) + 1, 1>>
    BY <2>2 DEF ahead
  <2>4. (j + n) - Len(arrived) = j - (Len(arrived) - n)
    BY <1>2
  <2> QED BY <1>1, <1>2, <2>1, <2>3, <2>4
<1>4. ahead'[1] = ahead[n + 1]
  <2> DEFINE p == Pending'
  <2>1. p \in Nat /\ n \in Nat
    BY <1>2
  <2> HIDE DEF p
  <2>2. 1 \in 1..(p + 1) /\ 1 + n = n + 1
    BY <2>1
  <2> QED BY <1>3, <2>2 DEF p
<1> QED BY <1>1, <1>2, <1>3, <1>4

LEMMA TakeInOrder ==
    ASSUME TypeOK, InOrder, NEW n \in 0..Len(arrived), Take(n), UNCHANGED <<sent, flight>>
    PROVE  InOrder'
<1>1. /\ Pending' = Pending - n /\ Pending' \in Nat /\ Pending \in Nat
      /\ \A j \in 1..(Pending' + 1) : ahead'[j] = ahead[j + n]
  BY TakeAhead, PendingType
<1>2. ASSUME NEW j \in 1..Pending'
      PROVE  /\ ahead'[j][1] \in 1..Len(sent) /\ ahead'[j][2] \in 1..Size(sent, ahead'[j][1])
             /\ ahead'[j + 1] = After(sent, ahead'[j])
  <2>1. j + n \in 1..Pending /\ j + 1 \in 1..(Pending' + 1) /\ (j + 1) + n = (j + n) + 1
    BY <1>1
  <2>2. ahead'[j] = ahead[j + n] /\ ahead'[j + 1] = ahead[(j + n) + 1]
    BY <1>1, <2>1
  <2> QED BY <2>1, <2>2 DEF InOrder
<1> QED BY <1>2 DEF InOrder

-----------------------------------------------------------------------------
(* The steps.                                                              *)
LEMMA EmptyByte == Empty \in Byte /\ \A k \in 0..MaxFrames, i \in Nat : <<k, i>> \in Byte
BY DEF Empty, Byte

LEMMA InitRInv == Init => RInv
<1> SUFFICES ASSUME Init PROVE RInv
  OBVIOUS
<1>1. /\ sent = << >> /\ flight = << >> /\ arrived = << >> /\ parsed = << >>
      /\ recving_header = TRUE /\ recv_len = 0 /\ conn = "open" /\ ~falls
  BY DEF Init
<1>2. TypeOK
  <2>1. header \in [1..H -> Byte]
    BY EmptyByte DEF Init
  <2>2. /\ sent \in Seq(Lengths) /\ flight \in Seq(Byte) /\ arrived \in Seq(Byte) /\ data \in Seq(Byte)
        /\ parsed \in Seq([header : [1..H -> Byte], data : Seq(Byte)])
    BY EmptySeq DEF Init
  <2>3. recv_len \in Nat /\ recv_len < H
    BY <1>1
  <2>4. falls \in BOOLEAN /\ recving_header \in BOOLEAN
    BY DEF Init
  <2>5. client \in {"open", "closed"} /\ conn \in {"open", "eof", "error", "refused", "empty"}
    BY Zenon DEF Init
  <2> QED BY <2>1, <2>2, <2>3, <2>4, <2>5 DEF TypeOK
<1>3. Pending = 0 /\ Len(sent) = 0 /\ Len(parsed) = 0
  BY <1>1 DEF Pending
<1>4. ahead[1] = <<1, 1>>
  BY <1>2, <1>3, AheadAt
<1>5. Consumed = 0 /\ Beginning = <<1, 1>>
  BY <1>1, <1>3 DEF Consumed, Beginning, Current
<1>6. InOrder
  BY <1>3 DEF InOrder
<1>7. WholeFrames /\ CutOffAfterHeader
  BY <1>1 DEF WholeFrames, CutOffAfterHeader
<1>8. HeaderRead /\ DataRead
  BY <1>1, <1>5 DEF HeaderRead, DataRead
<1> QED BY <1>1, <1>2, <1>3, <1>4, <1>5, <1>6, <1>7, <1>8 DEF RInv

(* What a new frame changes: its bytes are behind all others.              *)
LEMMA WritesAhead ==
    ASSUME TypeOK, Len(sent) < MaxFrames, NEW length \in Lengths, ClientWrites(length)
    PROVE  /\ flight' \in Seq(Byte) /\ sent' \in Seq(Lengths)
           /\ Len(sent') = Len(sent) + 1 /\ \A k \in 1..Len(sent) : sent'[k] = sent[k]
           /\ sent'[Len(sent) + 1] = length
           /\ Pending' = Pending + Larger(length, H)
           /\ \A j \in 1..(Pending + 1) : ahead'[j] = ahead[j]
           /\ \A i \in 1..Larger(length, H) : ahead'[Pending + i] = <<Len(sent) + 1, i>>
           /\ ahead'[Pending' + 1] = <<Len(sent) + 2, 1>>
<1> DEFINE size  == Larger(length, H)
           frame == FrameBytes(Len(sent) + 1, length)
           l     == Len(sent)
<1>1. /\ l \in Nat /\ l < MaxFrames /\ size \in Nat /\ size >= 1 /\ MaxFrames \in Nat
      /\ Len(arrived) \in Nat /\ Len(flight) \in Nat /\ Pending \in Nat
      /\ Pending = Len(arrived) + Len(flight)
  BY PendingType DEF Larger, Pending
<1>2. /\ sent' \in Seq(Lengths) /\ Len(sent') = l + 1
      /\ \A k \in 1..l : sent'[k] = sent[k]
      /\ sent'[l + 1] = length
      /\ UNCHANGED arrived
  BY DEF ClientWrites, TypeOK
<1>3. frame = [i \in 1..size |-> <<l + 1, i>>] /\ flight' = flight \o frame
  BY <1>2 DEF ClientWrites, FrameBytes
<1> HIDE DEF size, l, frame
<1>4. frame \in [1..size -> Byte]
  BY <1>1, <1>3, EmptyByte
<1>5. frame \in Seq(Byte) /\ Len(frame) = size
  BY <1>1, <1>4, FunctionIsSeq
<1>6. /\ flight' \in Seq(Byte) /\ Len(flight') = Len(flight) + size
      /\ \A j \in 1..(Len(flight) + size) :
            flight'[j] = IF j <= Len(flight) THEN flight[j] ELSE frame[j - Len(flight)]
  <2> DEFINE both == flight \o frame
  <2>1. /\ both \in Seq(Byte) /\ Len(both) = Len(flight) + Len(frame)
        /\ \A j \in 1..(Len(flight) + Len(frame)) :
              both[j] = IF j <= Len(flight) THEN flight[j] ELSE frame[j - Len(flight)]
    BY <1>5, ConcatProperties DEF TypeOK
  <2> HIDE DEF both
  <2>2. flight' = both
    BY <1>3 DEF both
  <2> QED BY <1>5, <2>1, <2>2
<1>7. Pending' = Pending + size /\ Len(arrived') = Len(arrived)
  BY <1>1, <1>2, <1>6 DEF Pending
<1>8. ASSUME NEW j \in 1..(Pending' + 1)
      PROVE  ahead'[j] = IF j <= Len(arrived) THEN arrived[j]
                         ELSE IF j <= Pending' THEN flight'[j - Len(arrived)]
                         ELSE <<l + 1 + 1, 1>>
  BY <1>2, <1>7 DEF ahead
<1>9. ASSUME NEW i \in 1..size
      PROVE  ahead'[Pending + i] = <<l + 1, i>>
  <2>1. /\ Pending + i \in 1..(Pending' + 1) /\ ~(Pending + i <= Len(arrived))
        /\ Pending + i <= Pending'
        /\ (Pending + i) - Len(arrived) = Len(flight) + i
    BY <1>1, <1>7
  <2>2. ahead'[Pending + i] = flight'[Len(flight) + i]
    BY <1>8, <2>1
  <2>3. flight'[Len(flight) + i] = frame[i]
    <3>1. Len(flight) + i \in 1..(Len(flight) + size) /\ ~(Len(flight) + i <= Len(flight))
          /\ (Len(flight) + i) - Len(flight) = i
      BY <1>1
    <3> QED BY <1>6, <3>1
  <2> QED BY <1>3, <2>2, <2>3
<1>10. ahead'[Pending' + 1] = <<l + 2, 1>>
  <2>1. Pending' \in Nat /\ Pending' >= Len(arrived) /\ l + 1 + 1 = l + 2
    BY <1>1, <1>7
  <2>2. /\ Pending' + 1 \in 1..(Pending' + 1) /\ ~(Pending' + 1 <= Pending')
        /\ ~(Pending' + 1 <= Len(arrived))
    <3>1. \A p, a \in Nat : p >= a =>
             p + 1 \in 1..(p + 1) /\ ~(p + 1 <= p) /\ ~(p + 1 <= a)
      OBVIOUS
    <3>2. Len(arrived) \in Nat
      BY <1>1
    <3> QED BY <2>1, <3>1, <3>2
  <2>3. ahead'[Pending' + 1] = <<l + 1 + 1, 1>>
    BY <1>8, <2>2
  <2> QED BY <2>1, <2>3
<1>11. ASSUME NEW j \in 1..(Pending + 1)
       PROVE  ahead'[j] = ahead[j]
  <2>1. CASE j = Pending + 1
    <3>1. ahead'[Pending + 1] = <<l + 1, 1>>
      <4>1. 1 \in 1..size
        BY <1>1
      <4> QED BY <1>9, <4>1
    <3> QED BY <2>1, <3>1, AheadAt DEF l
  <2>2. CASE j <= Pending
    <3>1. ahead[j] = IF j <= Len(arrived) THEN arrived[j] ELSE flight[j - Len(arrived)]
      BY <2>2 DEF ahead
    <3>2. ahead'[j] = IF j <= Len(arrived) THEN arrived[j] ELSE flight'[j - Len(arrived)]
      BY <1>1, <1>7, <1>8, <2>2
    <3>3. ~(j <= Len(arrived)) =>
             j - Len(arrived) \in 1..Len(flight) /\ j - Len(arrived) <= Len(flight)
      BY <1>1, <2>2
    <3>4. ~(j <= Len(arrived)) => flight'[j - Len(arrived)] = flight[j - Len(arrived)]
      BY <1>1, <1>6, <3>3
    <3> QED BY <3>1, <3>2, <3>4
  <2> QED BY <1>1, <2>1, <2>2
<1> QED BY <1>2, <1>6, <1>7, <1>9, <1>10, <1>11 DEF size, l

LEMMA WritesInOrder ==
    ASSUME TypeOK, InOrder, Len(sent) < MaxFrames, NEW length \in Lengths, ClientWrites(length)
    PROVE  InOrder'
<1> DEFINE size == Larger(length, H)
           l    == Len(sent)
<1>1. /\ l \in Nat /\ size \in Nat /\ size >= 1 /\ Pending \in Nat
      /\ Len(sent') = l + 1 /\ \A k \in 1..l : sent'[k] = sent[k]
      /\ sent'[l + 1] = length
      /\ Pending' = Pending + size
      /\ \A j \in 1..(Pending + 1) : ahead'[j] = ahead[j]
      /\ \A i \in 1..size : ahead'[Pending + i] = <<l + 1, i>>
      /\ ahead'[Pending' + 1] = <<l + 2, 1>>
  <2>1. l \in Nat /\ Pending \in Nat
    BY PendingType
  <2>2. size \in Nat /\ size >= 1
    BY LengthsAssumption DEF Larger
  <2> QED BY <2>1, <2>2, WritesAhead
<1>2. Size(sent', l + 1) = size /\ \A k \in 1..l : Size(sent', k) = Size(sent, k)
  BY <1>1 DEF Size
<1> HIDE DEF size, l
<1>3. ASSUME NEW j \in 1..Pending
      PROVE  /\ ahead'[j][1] \in 1..Len(sent') /\ ahead'[j][2] \in 1..Size(sent', ahead'[j][1])
             /\ ahead'[j + 1] = After(sent', ahead'[j])
  <2> DEFINE b == ahead[j]
  <2>1. b[1] \in 1..l /\ b[2] \in 1..Size(sent, b[1]) /\ ahead[j + 1] = After(sent, b)
    BY DEF InOrder, l
  <2>2. ahead'[j] = b /\ ahead'[j + 1] = ahead[j + 1]
    BY <1>1
  <2> HIDE DEF b
  <2>3. Size(sent', b[1]) = Size(sent, b[1])
    BY <1>2, <2>1
  <2>4. After(sent', b) = After(sent, b)
    BY <2>3 DEF After
  <2> QED BY <1>1, <2>1, <2>2, <2>3, <2>4
<1>4. ASSUME NEW i \in 1..size
      PROVE  /\ ahead'[Pending + i][1] \in 1..Len(sent')
             /\ ahead'[Pending + i][2] \in 1..Size(sent', ahead'[Pending + i][1])
             /\ ahead'[(Pending + i) + 1] = After(sent', ahead'[Pending + i])
  <2>1. ahead'[Pending + i] = <<l + 1, i>>
    BY <1>1
  <2>2. After(sent', <<l + 1, i>>) = IF i < size THEN <<l + 1, i + 1>> ELSE <<(l + 1) + 1, 1>>
    BY <1>2, AfterAt
  <2>3. CASE i < size
    <3>1. i + 1 \in 1..size /\ (Pending + i) + 1 = Pending + (i + 1)
      BY <1>1, <2>3
    <3>2. ahead'[(Pending + i) + 1] = <<l + 1, i + 1>>
      BY <1>1, <3>1
    <3> QED BY <1>1, <1>2, <2>1, <2>2, <2>3, <3>2
  <2>4. CASE i = size
    <3>1. (Pending + i) + 1 = Pending' + 1 /\ (l + 1) + 1 = l + 2 /\ ~(i < size)
      BY <1>1, <2>4
    <3> QED BY <1>1, <1>2, <2>1, <2>2, <2>4, <3>1
  <2>5. i < size \/ i = size
    BY <1>1
  <2> QED BY <2>3, <2>4, <2>5, Zenon
<1>5. ASSUME NEW j \in 1..Pending'
      PROVE  j \in 1..Pending \/ (j - Pending \in 1..size /\ j = Pending + (j - Pending))
  BY <1>1
<1>6. ASSUME NEW j \in 1..Pending'
      PROVE  /\ ahead'[j][1] \in 1..Len(sent') /\ ahead'[j][2] \in 1..Size(sent', ahead'[j][1])
             /\ ahead'[j + 1] = After(sent', ahead'[j])
  <2>1. CASE j \in 1..Pending
    BY <1>3, <2>1
  <2>2. ASSUME NEW i \in 1..size, j = Pending + i
        PROVE  /\ ahead'[j][1] \in 1..Len(sent') /\ ahead'[j][2] \in 1..Size(sent', ahead'[j][1])
               /\ ahead'[j + 1] = After(sent', ahead'[j])
    BY <1>4, <2>2
  <2> QED BY <1>5, <2>1, <2>2
<1> QED BY <1>6 DEF InOrder

-----------------------------------------------------------------------------
(* The steps that read nothing.                                            *)

LEMMA WritesRInv ==
    ASSUME RInv, NEW length \in Lengths, ClientWrites(length)
    PROVE  RInv'
<1> DEFINE l == Len(sent)
<1>1. /\ UNCHANGED <<arrived, client, reader, falls, parsed, conn>>
      /\ l < MaxFrames
  BY DEF ClientWrites
<1>2. /\ TypeOK /\ Len(parsed) <= l /\ InOrder /\ ahead[1] = Beginning
      /\ HeaderRead /\ DataRead /\ WholeFrames /\ CutOffAfterHeader
  BY DEF RInv
<1>3. /\ flight' \in Seq(Byte) /\ sent' \in Seq(Lengths)
      /\ Len(sent') = l + 1 /\ \A k \in 1..l : sent'[k] = sent[k]
      /\ \A j \in 1..(Pending + 1) : ahead'[j] = ahead[j]
  BY <1>1, <1>2, WritesAhead
<1>4. InOrder'
  BY <1>1, <1>2, WritesInOrder
<1>5. l \in Nat /\ Len(parsed) \in Nat /\ Pending \in Nat /\ MaxFrames \in Nat
  BY <1>2, PendingType
<1>6. /\ Consumed' = Consumed /\ Current' = Current
      /\ header' = header /\ data' = data /\ parsed' = parsed /\ conn' = conn
      /\ recving_header' = recving_header /\ recv_len' = recv_len
  BY <1>1 DEF Consumed, Current, reader
<1> HIDE DEF l
<1>7. TypeOK'
  BY <1>1, <1>2, <1>3 DEF TypeOK, reader
<1>8. Consumed > 0 => Current \in 1..l /\ sent'[Current] = sent[Current]
  <2>1. Consumed > 0 => Current \in 1..l
    BY <1>2, <1>5 DEF HeaderRead, Current, l
  <2> QED BY <1>3, <2>1
<1>9. ahead'[1] = Beginning'
  <2>1. ahead'[1] = Beginning
    BY <1>2, <1>3, <1>5
  <2>2. Consumed = 0 \/ Consumed > 0
    BY <1>2 DEF Consumed, TypeOK
  <2>3. CASE Consumed = 0
    BY <1>6, <2>1, <2>3 DEF Beginning
  <2>4. CASE Consumed > 0
    <3>1. Size(sent', Current) = Size(sent, Current) /\ Consumed # 0
      BY <1>8, <2>4 DEF Size
    <3>2. After(sent', <<Current, Consumed>>) = After(sent, <<Current, Consumed>>)
      BY <3>1, AfterAt
    <3> QED BY <1>6, <2>1, <3>1, <3>2 DEF Beginning
  <2> QED BY <2>2, <2>3, <2>4
<1>10. HeaderRead'
  BY <1>2, <1>3, <1>5, <1>6, <1>8 DEF HeaderRead, l
<1>11. DataRead'
  <2>1. ~recving_header /\ recv_len > 0 => Consumed > 0
    BY <1>2 DEF Consumed, TypeOK
  <2> QED BY <1>2, <1>6, <1>8, <2>1 DEF DataRead
<1>12. WholeFrames'
  <2>1. \A k \in DOMAIN parsed : sent'[k] = sent[k]
    <3>1. DOMAIN parsed = 1..Len(parsed)
      BY <1>2, LenProperties DEF TypeOK
    <3> QED BY <1>2, <1>3, <1>5, <3>1
  <2> QED BY <1>2, <1>6, <2>1 DEF WholeFrames
<1>13. CutOffAfterHeader'
  BY <1>2, <1>6 DEF CutOffAfterHeader
<1>14. Len(sent') <= MaxFrames /\ Len(parsed') <= Len(sent')
  BY <1>1, <1>2, <1>3, <1>5, <1>6
<1>15. falls' => conn' = "open" /\ ~recving_header' /\ recv_len' = 0
  BY <1>1, <1>6 DEF RInv
<1> QED BY <1>4, <1>7, <1>9, <1>10, <1>11, <1>12, <1>13, <1>14, <1>15 DEF RInv

LEMMA ClosesSocketRInv ==
    ASSUME RInv, ClientCloses
    PROVE  RInv'
<1>1. /\ UNCHANGED <<sent, flight, arrived, recving_header, recv_len, header, data,
                     falls, parsed, conn>>
      /\ client' \in {"open", "closed"}
  BY DEF ClientCloses, reader
<1>2. TypeOK'
  BY <1>1 DEF RInv, TypeOK
<1>3. ahead' = ahead /\ Pending' = Pending /\ Beginning' = Beginning
      /\ Current' = Current /\ Consumed' = Consumed
  BY <1>1 DEF ahead, Pending, Beginning, Current, Consumed
<1>4. InOrder' /\ HeaderRead' /\ DataRead'
  BY <1>1, <1>3 DEF RInv, InOrder, HeaderRead, DataRead
<1>5. WholeFrames' /\ CutOffAfterHeader'
  BY <1>1 DEF RInv, WholeFrames, CutOffAfterHeader
<1> QED BY <1>1, <1>2, <1>3, <1>4, <1>5 DEF RInv

LEMMA ArriveRInv ==
    ASSUME RInv, NEW n \in 1..Len(flight), Arrive(n)
    PROVE  RInv'
<1>1. UNCHANGED <<sent, client, recving_header, recv_len, header, data, falls, parsed, conn>>
  BY DEF Arrive, reader
<1>2. TypeOK /\ InOrder
  BY DEF RInv
<1>3. /\ arrived' \in Seq(Byte) /\ flight' \in Seq(Byte)
      /\ Pending' = Pending /\ Pending \in Nat
      /\ \A j \in 1..(Pending + 1) : ahead'[j] = ahead[j]
  BY <1>2, ArriveAhead, PendingType
<1>4. TypeOK'
  BY <1>1, <1>2, <1>3 DEF TypeOK
<1>5. Beginning' = Beginning /\ Current' = Current /\ Consumed' = Consumed
  BY <1>1 DEF Beginning, Current, Consumed
<1>6. InOrder'
  <2>1. \A j \in 1..Pending : j \in 1..(Pending + 1) /\ j + 1 \in 1..(Pending + 1)
    BY <1>3
  <2>2. \A j \in 1..Pending : ahead'[j] = ahead[j] /\ ahead'[j + 1] = ahead[j + 1]
    BY <1>3, <2>1
  <2> QED BY <1>1, <1>2, <1>3, <2>2 DEF InOrder
<1>7. ahead'[1] = Beginning'
  BY <1>3, <1>5 DEF RInv
<1>8. HeaderRead' /\ DataRead'
  BY <1>1, <1>5 DEF RInv, HeaderRead, DataRead
<1>9. WholeFrames' /\ CutOffAfterHeader'
  BY <1>1 DEF RInv, WholeFrames, CutOffAfterHeader
<1> QED BY <1>1, <1>4, <1>6, <1>7, <1>8, <1>9 DEF RInv

(* The connection ends: the place where it may be "empty" is checked by    *)
(* each of the steps.                                                      *)
LEMMA ClosesRInv ==
    ASSUME RInv, NEW reason \in {"eof", "error", "refused", "empty"}, Closes(reason),
           reason = "empty" => ~recving_header /\ recv_len = 0
    PROVE  RInv'
<1>1. /\ UNCHANGED <<sent, flight, client, arrived, recving_header, recv_len, header, data, parsed>>
      /\ falls' = FALSE /\ conn' = reason
  BY DEF Closes, reader, stream
<1>2. TypeOK'
  BY <1>1 DEF RInv, TypeOK
<1>3. ahead' = ahead /\ Pending' = Pending /\ Beginning' = Beginning
      /\ Current' = Current /\ Consumed' = Consumed
  BY <1>1 DEF ahead, Pending, Beginning, Current, Consumed
<1>4. InOrder' /\ HeaderRead' /\ DataRead'
  BY <1>1, <1>3 DEF RInv, InOrder, HeaderRead, DataRead
<1>5. WholeFrames' /\ CutOffAfterHeader'
  BY <1>1 DEF RInv, WholeFrames, CutOffAfterHeader
<1> QED BY <1>1, <1>2, <1>3, <1>4, <1>5 DEF RInv

-----------------------------------------------------------------------------
(* The steps that read.                                                    *)

(* What a read takes is what comes next of the frame being read.           *)
LEMMA TakeBeginning ==
    ASSUME RInv, NEW n \in 1..Len(arrived), NEW c \in Nat, c = Consumed,
           c > 0 => c + n <= Size(sent, Current), c = 0 => n <= H
    PROVE  /\ Current \in 1..Len(sent)
           /\ \A j \in 1..n : arrived[j] = <<Current, c + j>>
           /\ ahead[n + 1] = After(sent, <<Current, c + n>>)
<1>1. /\ Len(arrived) \in Nat /\ Pending \in Nat /\ Len(sent) \in Nat /\ Len(parsed) \in Nat
      /\ \A k \in 1..Len(sent) : Size(sent, k) \in Nat /\ Size(sent, k) >= H
      /\ \A j \in 1..Len(arrived) : ahead[j] = arrived[j]
      /\ n \in 1..Pending
  <2>1. TypeOK
    BY DEF RInv
  <2>2. /\ Len(arrived) \in Nat /\ Len(flight) \in Nat /\ Pending \in Nat
        /\ Len(sent) \in Nat /\ Len(parsed) \in Nat
        /\ \A k \in 1..Len(sent) : Size(sent, k) \in Nat /\ Size(sent, k) >= H
    BY <2>1, PendingType
  <2>3. \A j \in 1..Len(arrived) : ahead[j] = arrived[j]
    BY <2>1, AheadAt
  <2>4. n \in 1..Pending
    BY <2>2 DEF Pending
  <2> QED BY <2>2, <2>3, <2>4
<1>2. /\ \A j \in 1..Pending : ahead[j][1] \in 1..Len(sent)
      /\ \A j \in 1..Pending : ahead[j + 1] = After(sent, ahead[j])
      /\ ahead[1] = Beginning
  BY DEF RInv, InOrder
<1>3. Current \in 1..Len(sent)
  <2>1. CASE c = 0
    <3>1. ahead[1][1] = Current
      BY <1>2, <2>1 DEF Beginning
    <3> QED BY <1>1, <1>2, <3>1
  <2>2. CASE c > 0
    BY <1>1, <2>2 DEF RInv, HeaderRead, Current
  <2> QED BY <2>1, <2>2
<1>4. Size(sent, Current) \in Nat /\ c + n <= Size(sent, Current)
  <2>1. Size(sent, Current) \in Nat /\ Size(sent, Current) >= H
    BY <1>1, <1>3
  <2> QED BY <2>1
<1>5. ahead[1] = <<Current, c + 1>>
  <2>1. CASE c = 0
    BY <1>2, <2>1 DEF Beginning
  <2>2. CASE c > 0
    <3>1. c < Size(sent, Current) /\ c # 0
      BY <1>1, <1>4, <2>2
    <3>2. After(sent, <<Current, c>>) = <<Current, c + 1>>
      BY <3>1, AfterAt
    <3> QED BY <1>2, <3>1, <3>2, Zenon DEF Beginning
  <2> QED BY <2>1, <2>2
<1>6. \A j \in 1..n : ahead[j] = <<Current, c + j>>
  <2> DEFINE T == {j \in 1..n : ahead[j] # <<Current, c + j>>}
  <2>1. SUFFICES ASSUME T # {} PROVE FALSE
    OBVIOUS
  <2>2. PICK x \in T : \A y \in T : x <= y
    <3>1. T \in SUBSET Nat
      OBVIOUS
    <3> HIDE DEF T
    <3> QED BY <2>1, <3>1, LeastExists
  <2>3. x # 1 /\ x - 1 \in 1..Pending /\ x - 1 \in 1..n
    BY <1>1, <1>5, <2>2
  <2>4. ahead[x - 1] = <<Current, c + (x - 1)>>
    BY <2>2, <2>3
  <2>5. c + (x - 1) < Size(sent, Current)
    BY <1>4, <2>2, <2>3
  <2>6. ahead[(x - 1) + 1] = <<Current, c + (x - 1) + 1>>
    BY <1>2, <2>3, <2>4, <2>5, AfterAt
  <2>7. (x - 1) + 1 = x /\ c + (x - 1) + 1 = c + x
    BY <2>3
  <2>8. ahead[x] # <<Current, c + x>>
    BY <2>2
  <2> HIDE DEF T
  <2> QED BY <2>6, <2>7, <2>8
<1>7. ahead[n + 1] = After(sent, <<Current, c + n>>)
  <2>1. n \in 1..n /\ n \in 1..Pending
    BY <1>1
  <2>2. ahead[n] = <<Current, c + n>>
    BY <1>6, <2>1
  <2>3. ahead[n + 1] = After(sent, ahead[n])
    BY <1>2, <2>1
  <2> QED BY <2>2, <2>3
<1>8. \A j \in 1..n : arrived[j] = ahead[j]
  BY <1>1
<1> QED BY <1>3, <1>6, <1>7, <1>8

(* The bytes that were taken stand behind those read before.               *)
LEMMA FilledAt ==
    ASSUME NEW size \in Nat, NEW buffer \in [1..size -> Byte], arrived \in Seq(Byte),
           NEW n \in 0..Len(arrived), recv_len \in Nat, recv_len + n <= size
    PROVE  /\ Filled(buffer, n) \in [1..size -> Byte]
           /\ \A i \in 1..recv_len : Filled(buffer, n)[i] = buffer[i]
           /\ \A i \in (recv_len + 1)..(recv_len + n) : Filled(buffer, n)[i] = arrived[i - recv_len]
<1>1. n \in Nat /\ \A j \in 1..n : arrived[j] \in Byte
  <2>1. Len(arrived) \in Nat /\ \A j \in 1..Len(arrived) : arrived[j] \in Byte
    BY LenProperties, ElementOfSeq
  <2> QED BY <2>1
<1>2. ASSUME NEW i \in 1..size, i \in (recv_len + 1)..(recv_len + n)
      PROVE  i - recv_len \in 1..n
  BY <1>1, <1>2
<1>3. Filled(buffer, n) = [i \in 1..size |-> IF i \in (recv_len + 1)..(recv_len + n)
                                             THEN arrived[i - recv_len] ELSE buffer[i]]
  BY DEF Filled
<1>4. Filled(buffer, n) \in [1..size -> Byte]
  BY <1>2, <1>3, <1>1
<1>5. ASSUME NEW i \in 1..recv_len
      PROVE  Filled(buffer, n)[i] = buffer[i]
  <2>1. i \in 1..size /\ i \notin (recv_len + 1)..(recv_len + n)
    BY <1>1
  <2> QED BY <1>3, <2>1
<1>6. ASSUME NEW i \in (recv_len + 1)..(recv_len + n)
      PROVE  Filled(buffer, n)[i] = arrived[i - recv_len]
  <2>1. i \in 1..size
    BY <1>1
  <2> QED BY <1>3, <2>1
<1> QED BY <1>4, <1>5, <1>6

(* The length field is that of the frame being read.                       *)
LEMMA LengthIsCurrent ==
    ASSUME RInv, ~recving_header
    PROVE  /\ Current \in 1..Len(sent) /\ Length = sent[Current]
           /\ sent[Current] \in Nat /\ recv_len \in Nat
           /\ Consumed = H + recv_len
           /\ \A i \in 1..H : header[i] = <<Current, i>>
<1>1. recv_len \in Nat /\ Len(parsed) \in Nat /\ Len(sent) \in Nat
  BY PendingType DEF RInv, TypeOK
<1>2. Consumed = H + recv_len
  BY DEF Consumed
<1>3. Current \in 1..Len(sent) /\ \A i \in 1..H : header[i] = <<Current, i>>
  BY <1>1, <1>2 DEF RInv, HeaderRead, Current
<1>4. Length = sent[Current]
  <2>1. header[3] = <<Current, 3>>
    BY <1>3
  <2> QED BY <2>1 DEF Length
<1>5. sent[Current] \in Nat
  BY <1>3, PendingType DEF RInv
<1> QED BY <1>1, <1>2, <1>3, <1>4, <1>5

(* recv_header, recv_data: the read answered 0.                            *)
LEMMA NothingRInv ==
    ASSUME RInv, Readable \/ (falls /\ ~recving_header), Closes(Nothing), arrived = << >>
    PROVE  RInv'
<1>1. CASE Readable
  <2>1. Nothing = "eof"
    BY <1>1 DEF Readable, Nothing
  <2> QED BY <2>1, ClosesRInv
<1>2. CASE falls /\ ~recving_header
  <2>1. Nothing \in {"eof", "empty"} /\ ~recving_header /\ recv_len = 0
    BY <1>2 DEF Nothing, RInv
  <2> QED BY <2>1, ClosesRInv
<1> QED BY <1>1, <1>2

LEMMA RefusesRInv ==
    ASSUME RInv, ReadFails \/ RecvNegative
    PROVE  RInv'
<1>1. CASE ReadFails
  BY <1>1, ClosesRInv DEF ReadFails
<1>2. CASE RecvNegative
  BY <1>2, ClosesRInv DEF RecvNegative
<1> QED BY <1>1, <1>2

(* The bytes in the socket buffer are bytes.                               *)
LEMMA ArrivedBytes ==
    ASSUME RInv
    PROVE  Len(arrived) \in Nat /\ (\A j \in 1..Len(arrived) : arrived[j] \in Byte)
<1>1. arrived \in Seq(Byte)
  BY DEF RInv, TypeOK
<1> QED BY <1>1, LenProperties, ElementOfSeq

LEMMA HeaderRInv ==
    ASSUME RInv, RecvHeader
    PROVE  RInv'
<1> DEFINE n == Got(H - recv_len)
           c == recv_len
<1>1. /\ Readable /\ recving_header /\ conn = "open"
      /\ c \in Nat /\ c < H /\ Consumed = c
      /\ Len(parsed) \in Nat /\ Len(sent) \in Nat
  BY PendingType DEF RecvHeader, Readable, RInv, TypeOK, Consumed
<1>2. /\ n \in Nat /\ n <= Len(arrived) /\ c + n <= H
      /\ n = 0 => Len(arrived) = 0
  BY <1>1, ArrivedBytes DEF Got, Smaller
<1>3. CASE n = 0 /\ Closes(Nothing)
  <2>1. arrived = << >>
    BY <1>2, <1>3, EmptySeq DEF RInv, TypeOK
  <2> QED BY <1>1, <1>3, <2>1, NothingRInv
<1>4. CASE /\ n > 0
           /\ Take(n)
           /\ header' = Filled(header, n)
           /\ recving_header' = ~(c + n = H)
           /\ recv_len' = IF c + n = H THEN 0 ELSE c + n
           /\ falls' = (c + n = H)
           /\ UNCHANGED <<stream, data, parsed, conn>>
  <2> HIDE DEF n, c
  <2>1. /\ UNCHANGED <<sent, flight, client, data, parsed, conn>> /\ Current' = Current
        /\ n \in 1..Len(arrived) /\ n \in 0..Len(arrived)
    BY <1>2, <1>4, ArrivedBytes DEF stream, Current
  <2>2. /\ recving_header' \in BOOLEAN /\ falls' \in BOOLEAN
        /\ recving_header' <=> c + n # H
        /\ falls' <=> c + n = H
    BY <1>4, Zenon
  <2>3. Consumed' = c + n /\ c + n \in Nat /\ c + n > 0
    BY <1>1, <1>2, <1>4, <2>2 DEF Consumed
  <2>4. /\ arrived' \in Seq(Byte) /\ Pending' \in Nat
        /\ \A j \in 1..(Pending' + 1) : ahead'[j] = ahead[j + n]
        /\ InOrder'
    BY <1>4, <2>1, TakeAhead, TakeInOrder DEF RInv
  <2>5. /\ Current \in 1..Len(sent)
        /\ \A j \in 1..n : arrived[j] = <<Current, c + j>>
        /\ ahead[n + 1] = After(sent, <<Current, c + n>>)
    <3>1. c > 0 => Size(sent, Current) >= H
      BY <1>1, PendingType DEF RInv, HeaderRead, Current
    <3>2. c > 0 => c + n <= Size(sent, Current)
      <4>1. c > 0 => Size(sent, Current) \in Nat
        BY <1>1, PendingType DEF RInv, HeaderRead, Current
      <4> QED BY <1>1, <1>2, <3>1, <4>1
    <3>3. c = 0 => n <= H
      BY <1>1, <1>2
    <3> QED BY <1>1, <2>1, <3>2, <3>3, TakeBeginning
  <2>6. ahead'[1] = Beginning'
    <3>1. ahead'[1] = ahead[n + 1]
      BY <1>4, <2>1, TakeAhead DEF RInv
    <3>2. Beginning' = After(sent, <<Current, c + n>>)
      BY <2>1, <2>3 DEF Beginning
    <3> QED BY <2>5, <3>1, <3>2
  <2>7. /\ header' \in [1..H -> Byte]
        /\ \A i \in 1..c : header'[i] = header[i]
        /\ \A i \in (c + 1)..(c + n) : header'[i] = arrived[i - c]
    <3>1. header \in [1..H -> Byte] /\ arrived \in Seq(Byte)
      BY DEF RInv, TypeOK
    <3>2. n \in 0..Len(arrived)
      BY <2>1
    <3>3. H \in Nat /\ recv_len \in Nat /\ n \in Nat /\ recv_len + n <= H
      BY <1>1, <1>2 DEF c
    <3>4. /\ Filled(header, n) \in [1..H -> Byte]
          /\ \A i \in 1..recv_len : Filled(header, n)[i] = header[i]
          /\ \A i \in (recv_len + 1)..(recv_len + n) : Filled(header, n)[i] = arrived[i - recv_len]
      BY <3>1, <3>2, <3>3, FilledAt
    <3> QED BY <1>4, <3>4 DEF c
  <2>8. HeaderRead'
    <3>1. ASSUME NEW i \in 1..H, i <= c + n PROVE header'[i] = <<Current, i>>
      <4>1. CASE i <= c
        BY <1>1, <2>7, <4>1 DEF RInv, HeaderRead
      <4>2. CASE i > c
        <5>1. i \in (c + 1)..(c + n) /\ i - c \in 1..n /\ c + (i - c) = i
          BY <1>1, <1>2, <3>1, <4>2
        <5> QED BY <2>5, <2>7, <5>1
      <4> QED BY <1>1, <4>1, <4>2
    <3>2. recving_header' => recv_len' < H
      BY <1>1, <1>2, <1>4, <2>2
    <3>3. Current <= Len(sent)
      BY <2>5
    <3> QED BY <2>1, <2>3, <3>1, <3>2, <3>3 DEF HeaderRead
  <2>9. TypeOK'
    <3>1. recv_len' \in Nat /\ (recving_header' => recv_len' < H)
      BY <1>1, <1>2, <1>4, <2>2
    <3> QED BY <2>1, <2>2, <2>4, <2>7, <3>1 DEF RInv, TypeOK
  <2>10. DataRead' /\ (falls' => conn' = "open" /\ ~recving_header' /\ recv_len' = 0)
    BY <1>1, <1>4, <2>1, <2>2 DEF DataRead
  <2>11. WholeFrames' /\ CutOffAfterHeader'
    BY <1>1, <2>1 DEF RInv, WholeFrames, CutOffAfterHeader
  <2> QED BY <2>1, <2>4, <2>6, <2>8, <2>9, <2>10, <2>11 DEF RInv
<1> QED BY <1>3, <1>4 DEF RecvHeader

(* recv_data puts the bytes behind those of the payload it has.            *)
LEMMA PayloadAt ==
    ASSUME RInv, ~recving_header, Expected \in Nat,
           NEW n \in 1..Len(arrived), recv_len + n <= Expected
    PROVE  /\ Payload(n) \in [1..Expected -> Byte]
           /\ \A i \in 1..(recv_len + n) : Payload(n)[i] = <<Current, H + i>>
           /\ ahead[n + 1] = After(sent, <<Current, H + (recv_len + n)>>)
<1> DEFINE c == recv_len
           e == Expected
<1>1. /\ Current \in 1..Len(sent) /\ Length = sent[Current] /\ sent[Current] \in Nat
      /\ c \in Nat /\ e \in Nat /\ e = sent[Current] - H /\ Consumed = H + c
      /\ Len(arrived) \in Nat /\ arrived \in Seq(Byte) /\ data \in Seq(Byte)
  BY LengthIsCurrent, ArrivedBytes DEF Expected, RInv, TypeOK
<1>2. Size(sent, Current) = H + e
  BY <1>1 DEF Size, Larger
<1>3. /\ \A j \in 1..n : arrived[j] = <<Current, (H + c) + j>>
      /\ ahead[n + 1] = After(sent, <<Current, (H + c) + n>>)
  <2>1. /\ H + c \in Nat /\ H + c = Consumed /\ (H + c > 0 => (H + c) + n <= Size(sent, Current))
        /\ (H + c = 0 => n <= H)
    BY <1>1, <1>2
  <2> QED BY <2>1, TakeBeginning
<1>4. Resized \in [1..e -> Byte]
  <2>1. \A i \in DOMAIN data : data[i] \in Byte
    BY <1>1, LenProperties, ElementOfSeq
  <2> QED BY <2>1, EmptyByte DEF Resized
<1>5. ASSUME NEW i \in 1..c PROVE Resized[i] = <<Current, H + i>>
  <2>1. Len(data) = e /\ data[i] = <<Current, H + i>>
    <3>1. DataRead
      BY DEF RInv
    <3>2. recv_len > 0 /\ i \in 1..recv_len
      BY <1>1
    <3>3. /\ Len(data) = sent[Current] - H
          /\ \A k \in 1..recv_len : data[k] = <<Current, H + k>>
      BY <3>1, <3>2 DEF DataRead
    <3> QED BY <1>1, <3>2, <3>3
  <2>2. i \in DOMAIN data /\ i \in 1..e
    BY <1>1, <1>5, <2>1, LenProperties
  <2>3. Resized[i] = IF i \in DOMAIN data THEN data[i] ELSE Empty
    BY <2>2 DEF Resized
  <2> QED BY <2>1, <2>2, <2>3
<1>6. /\ Payload(n) \in [1..e -> Byte]
      /\ \A i \in 1..c : Payload(n)[i] = Resized[i]
      /\ \A i \in (c + 1)..(c + n) : Payload(n)[i] = arrived[i - c]
  <2>1. n \in 0..Len(arrived)
    BY <1>1
  <2> HIDE DEF e
  <2>2. /\ Filled(Resized, n) \in [1..e -> Byte]
        /\ \A i \in 1..c : Filled(Resized, n)[i] = Resized[i]
        /\ \A i \in (c + 1)..(c + n) : Filled(Resized, n)[i] = arrived[i - c]
    <3>1. c + n <= e
      BY DEF e
    <3> QED BY <1>1, <1>4, <2>1, <3>1, FilledAt
  <2> QED BY <2>2 DEF Payload
<1> HIDE DEF e
<1>7. ASSUME NEW i \in 1..(c + n) PROVE Payload(n)[i] = <<Current, H + i>>
  <2>1. CASE i <= c
    <3>1. i \in 1..c
      BY <1>1, <2>1
    <3> QED BY <1>5, <1>6, <3>1
  <2>2. CASE i > c
    <3>1. i \in (c + 1)..(c + n) /\ i - c \in 1..n /\ (H + c) + (i - c) = H + i
      BY <1>1, <2>2
    <3>2. Payload(n)[i] = arrived[i - c]
      BY <1>6, <3>1
    <3>3. arrived[i - c] = <<Current, (H + c) + (i - c)>>
      BY <1>3, <3>1
    <3> QED BY <3>1, <3>2, <3>3
  <2> QED BY SMTT(30), <1>1, <2>1, <2>2
<1>8. (H + c) + n = H + (c + n)
  BY <1>1
<1> QED BY <1>3, <1>6, <1>7, <1>8 DEF e

(* A part of the payload: recv_data will be called again.                  *)
LEMMA PartRInv ==
    ASSUME RInv, ~recving_header, conn = "open", Expected \in Nat,
           NEW n \in 1..Len(arrived), recv_len + n < Expected,
           Take(n), data' = Payload(n), recv_len' = recv_len + n,
           recving_header' = FALSE, falls' = FALSE,
           UNCHANGED <<stream, header, parsed, conn>>
    PROVE  RInv'
<1> DEFINE c == recv_len
<1>1. /\ Current \in 1..Len(sent) /\ Expected = sent[Current] - H /\ c \in Nat
      /\ n \in Nat /\ n \in 0..Len(arrived) /\ sent[Current] \in Nat
      /\ \A i \in 1..H : header[i] = <<Current, i>>
  BY SMTT(30), LengthIsCurrent, ArrivedBytes DEF Expected
<1>2. /\ Payload(n) \in [1..Expected -> Byte]
      /\ \A i \in 1..(c + n) : Payload(n)[i] = <<Current, H + i>>
      /\ ahead[n + 1] = After(sent, <<Current, H + (c + n)>>)
  BY PayloadAt
<1>3. Payload(n) \in Seq(Byte) /\ Len(Payload(n)) = Expected
  BY <1>2, FunctionIsSeq
<1>4. /\ arrived' \in Seq(Byte) /\ ahead'[1] = ahead[n + 1] /\ InOrder'
  BY <1>1, TakeAhead, TakeInOrder DEF RInv, stream
<1>5. /\ UNCHANGED <<sent, flight, client, header, parsed, conn>>
      /\ Current' = Current /\ Consumed' = H + (c + n) /\ recv_len' \in Nat /\ recv_len' > 0
  BY <1>1 DEF stream, Current, Consumed
<1>6. TypeOK'
  BY <1>3, <1>4, <1>5 DEF RInv, TypeOK
<1>7. ahead'[1] = Beginning'
  <2>1. Consumed' # 0
    BY <1>1, <1>5
  <2> QED BY <1>2, <1>4, <1>5, <2>1 DEF Beginning
<1>8. HeaderRead'
  BY <1>1, <1>5 DEF HeaderRead
<1>9. DataRead'
  <2>1. H + (c + n) < sent[Current]
    BY <1>1
  <2> QED BY <1>1, <1>2, <1>3, <1>5, <2>1 DEF DataRead
<1>10. WholeFrames' /\ CutOffAfterHeader'
  BY <1>5 DEF RInv, WholeFrames, CutOffAfterHeader
<1> QED BY <1>4, <1>5, <1>6, <1>7, <1>8, <1>9, <1>10 DEF RInv

(* The last of the payload, or a frame without any: parse() is called.     *)
LEMMA WholeRInv ==
    ASSUME RInv, ~recving_header, conn = "open", Expected \in Nat,
           NEW n \in 0..Len(arrived), recv_len + n = Expected,
           Take(n), data' \in Seq(Byte),
           Expected > 0 => data' = [i \in 1..Expected |-> <<Current, H + i>>],
           ahead[n + 1] = After(sent, <<Current, sent[Current]>>),
           recv_len' = 0, recving_header' = TRUE, falls' = FALSE,
           parsed' = Append(parsed, [header |-> header, data |-> data']),
           UNCHANGED <<stream, header, conn>>
    PROVE  RInv'
<1> DEFINE l   == Len(parsed)
           new == [header |-> header, data |-> data']
<1>1. /\ Current \in 1..Len(sent) /\ Expected = sent[Current] - H /\ sent[Current] \in Nat
      /\ \A i \in 1..H : header[i] = <<Current, i>>
      /\ l \in Nat /\ Len(sent) \in Nat
  BY LengthIsCurrent, PendingType DEF Expected, RInv
<1>2. /\ UNCHANGED <<sent, flight, client, header, conn>>
      /\ header \in [1..H -> Byte] /\ parsed \in Seq([header : [1..H -> Byte], data : Seq(Byte)])
  BY DEF stream, RInv, TypeOK
<1>3. new \in [header : [1..H -> Byte], data : Seq(Byte)]
  BY <1>2
<1>4. /\ parsed' \in Seq([header : [1..H -> Byte], data : Seq(Byte)])
      /\ Len(parsed') = l + 1 /\ parsed'[l + 1] = new
      /\ \A k \in 1..l : parsed'[k] = parsed[k]
  <2> HIDE DEF new
  <2> QED BY <1>2, <1>3, AppendProperties DEF new
<1>5. /\ arrived' \in Seq(Byte) /\ ahead'[1] = ahead[n + 1] /\ InOrder'
  BY TakeAhead, TakeInOrder DEF RInv, stream
<1>6. Consumed' = 0 /\ Current' = Current + 1
  BY <1>1, <1>4 DEF Consumed, Current
<1>7. TypeOK'
  <2>1. /\ sent' \in Seq(Lengths) /\ flight' \in Seq(Byte) /\ client' \in {"open", "closed"}
        /\ conn' \in {"open", "eof", "error", "refused", "empty"}
    BY <1>2 DEF RInv, TypeOK
  <2>2. recving_header' \in BOOLEAN /\ falls' \in BOOLEAN
    BY Zenon
  <2>3. recv_len' \in Nat /\ recv_len' < H
    OBVIOUS
  <2>4. header' \in [1..H -> Byte]
    BY <1>2
  <2> QED BY <1>4, <1>5, <2>1, <2>2, <2>3, <2>4, Zenon DEF TypeOK
<1>8. ahead'[1] = Beginning'
  <2>1. Size(sent, Current) = sent[Current] /\ ~(sent[Current] < sent[Current])
    BY <1>1 DEF Size, Larger
  <2>2. After(sent, <<Current, sent[Current]>>) = <<Current + 1, 1>>
    BY <2>1, AfterAt, ZenonT(30)
  <2>3. ahead'[1] = <<Current + 1, 1>>
    BY <1>5, <2>2
  <2> QED BY <1>6, <2>3 DEF Beginning
<1>9. HeaderRead' /\ DataRead'
  <2>1. \A i \in 1..H : ~(i <= 0)
    OBVIOUS
  <2> QED BY <1>6, <2>1 DEF HeaderRead, DataRead
<1>10. WholeFrames'
  <2>1. DOMAIN parsed' = 1..(l + 1) /\ DOMAIN parsed = 1..l
    BY <1>2, <1>4, LenProperties
  <2>2. ASSUME NEW k \in 1..(l + 1)
        PROVE  /\ parsed'[k].header = [i \in 1..H |-> <<k, i>>]
               /\ sent[k] >= H
               /\ sent[k] > H => parsed'[k].data = [i \in 1..(sent[k] - H) |-> <<k, H + i>>]
    <3>1. CASE k \in 1..l
      <4>1. WholeFrames /\ k \in DOMAIN parsed /\ parsed'[k] = parsed[k]
        BY <1>4, <2>1, <3>1 DEF RInv
      <4> QED BY <4>1 DEF WholeFrames
    <3>2. CASE k = l + 1
      <4>1. k = Current /\ parsed'[k].header = header /\ parsed'[k].data = data'
        BY <1>4, <3>2 DEF Current
      <4>2. header = [i \in 1..H |-> <<Current, i>>]
        BY <1>1, <1>2
      <4>3. sent[k] >= H /\ sent[k] - H = Expected /\ (sent[k] > H => Expected > 0)
        BY <1>1, <4>1
      <4> QED BY <4>1, <4>2, <4>3
    <3> QED BY <1>1, <3>1, <3>2
  <2> QED BY <1>2, <2>1, <2>2 DEF WholeFrames
<1>11. CutOffAfterHeader'
  BY <1>2 DEF CutOffAfterHeader
<1>12. Len(sent') <= MaxFrames /\ Len(parsed') <= Len(sent')
  BY <1>1, <1>2, <1>4 DEF RInv, Current
<1> QED BY <1>5, <1>7, <1>8, <1>9, <1>10, <1>11, <1>12 DEF RInv

LEMMA DataRInv ==
    ASSUME RInv, RecvData
    PROVE  RInv'
<1> DEFINE n == Got(Expected - recv_len)
           c == recv_len
           e == Expected
<1>1. /\ ~recving_header /\ conn = "open" /\ Length >= H
      /\ Readable \/ (falls /\ ~recving_header)
  BY DEF RecvData, Readable, RInv, CutOffAfterHeader
<1>2. /\ Current \in 1..Len(sent) /\ Length = sent[Current] /\ sent[Current] \in Nat
      /\ c \in Nat /\ Consumed = H + c /\ e = sent[Current] - H /\ e \in Nat
      /\ Len(arrived) \in Nat /\ data \in Seq(Byte)
  BY <1>1, LengthIsCurrent, ArrivedBytes DEF Expected, RInv, TypeOK
<1>3. c < e \/ (c = 0 /\ e = 0)
  BY <1>1, <1>2 DEF RInv, DataRead
<1>4. /\ n \in Nat /\ n <= Len(arrived) /\ c + n <= e
      /\ n = 0 /\ e > 0 => Len(arrived) = 0
  BY <1>2, <1>3 DEF Got, Smaller
<1>5. CASE n = 0 /\ e > 0 /\ Closes(Nothing)
  <2>1. arrived = << >>
    BY <1>4, <1>5, EmptySeq DEF RInv, TypeOK
  <2> QED BY <1>1, <1>5, <2>1, NothingRInv
<1>6. CASE /\ n > 0 \/ e = 0
           /\ Take(n)
           /\ data' = IF e > 0 THEN Payload(n) ELSE data
           /\ recving_header' = (c + n = e)
           /\ recv_len' = IF c + n = e THEN 0 ELSE c + n
           /\ falls' = FALSE
           /\ parsed' = IF c + n = e
                        THEN Append(parsed, [header |-> header, data |-> data'])
                        ELSE parsed
           /\ UNCHANGED <<stream, header, conn>>
  <2> HIDE DEF n, c, e
  <2>1. CASE c + n # e
    <3>1. /\ e > 0 /\ n \in 1..Len(arrived) /\ c + n < e
      BY <1>2, <1>4, <1>6, <2>1
    <3>2. /\ recving_header' = FALSE /\ recv_len' = c + n /\ data' = Payload(n)
          /\ parsed' = parsed
      BY <1>6, <2>1, <3>1, Zenon
    <3> QED BY <1>1, <1>2, <1>6, <3>1, <3>2, PartRInv DEF c, e
  <2>2. CASE c + n = e
    <3>1. /\ recving_header' = TRUE /\ recv_len' = 0
          /\ parsed' = Append(parsed, [header |-> header, data |-> data'])
      BY <1>6, <2>2, Zenon
    <3>2. n \in 0..Len(arrived)
      BY <1>4
    <3>3. /\ data' \in Seq(Byte)
          /\ e > 0 => data' = [i \in 1..e |-> <<Current, H + i>>]
          /\ ahead[n + 1] = After(sent, <<Current, sent[Current]>>)
      <4>1. CASE e = 0
        <5>1. n = 0 /\ sent[Current] = Consumed /\ Consumed # 0 /\ ~(e > 0)
          BY <1>2, <1>3, <1>4, <2>2, <4>1
        <5>2. ahead[1] = After(sent, <<Current, Consumed>>)
          BY <5>1 DEF RInv, Beginning
        <5>3. ahead[n + 1] = ahead[1]
          BY <5>1
        <5>4. data' = data
          BY <1>6, <5>1, Zenon
        <5> QED BY <1>2, <5>1, <5>2, <5>3, <5>4
      <4>2. CASE e > 0
        <5>1. n \in 1..Len(arrived) /\ H + (c + n) = sent[Current]
          BY <1>2, <1>3, <1>4, <1>6, <2>2, <4>2
        <5>2. /\ Payload(n) \in [1..e -> Byte]
              /\ \A i \in 1..(c + n) : Payload(n)[i] = <<Current, H + i>>
              /\ ahead[n + 1] = After(sent, <<Current, H + (c + n)>>)
          <6>1. recv_len + n <= Expected /\ Expected \in Nat
            BY <1>2, <1>4 DEF c, e
          <6> QED BY <1>1, <5>1, <6>1, PayloadAt DEF c, e
        <5>3. data' = Payload(n)
          BY <1>6, <4>2, Zenon
        <5>4. Payload(n) \in Seq(Byte)
          BY <1>2, <5>2, FunctionIsSeq
        <5>5. Payload(n) = [i \in 1..e |-> <<Current, H + i>>]
          BY <2>2, <5>2
        <5> QED BY <5>1, <5>2, <5>3, <5>4, <5>5
      <4> QED BY <1>2, <4>1, <4>2
    <3> QED BY <1>1, <1>2, <1>6, <2>2, <3>1, <3>2, <3>3, WholeRInv DEF c, e
  <2> QED BY <2>1, <2>2
<1> QED BY <1>5, <1>6 DEF RecvData

-----------------------------------------------------------------------------
LEMMA NextRInv == RInv /\ [Next]_vars => RInv'
<1> SUFFICES ASSUME RInv, [Next]_vars PROVE RInv'
  OBVIOUS
<1>1. ASSUME NEW length \in Lengths, ClientWrites(length) PROVE RInv'
  BY <1>1, WritesRInv
<1>2. CASE ClientCloses
  BY <1>2, ClosesSocketRInv
<1>3. CASE Arrives
  BY <1>3, ArriveRInv DEF Arrives
<1>4. CASE ReadFails \/ RecvNegative
  BY <1>4, RefusesRInv
<1>5. CASE RecvHeader
  BY <1>5, HeaderRInv
<1>6. CASE RecvData
  BY <1>6, DataRInv
<1>7. CASE UNCHANGED vars
  <2>1. UNCHANGED <<sent, flight, client, arrived, recving_header, recv_len, header, data,
                    falls, parsed, conn>>
    BY <1>7 DEF vars, stream, reader
  <2>2. TypeOK'
    BY <2>1 DEF RInv, TypeOK
  <2>3. ahead' = ahead /\ Pending' = Pending /\ Beginning' = Beginning
        /\ Current' = Current /\ Consumed' = Consumed
    BY <2>1 DEF ahead, Pending, Beginning, Current, Consumed
  <2>4. InOrder' /\ HeaderRead' /\ DataRead'
    BY <2>1, <2>3 DEF RInv, InOrder, HeaderRead, DataRead
  <2>5. WholeFrames' /\ CutOffAfterHeader'
    BY <2>1 DEF RInv, WholeFrames, CutOffAfterHeader
  <2> QED BY <2>1, <2>2, <2>3, <2>4, <2>5 DEF RInv
<1> QED BY <1>1, <1>2, <1>3, <1>4, <1>5, <1>6, <1>7 DEF Next

LEMMA SpecRInv == Spec => []RInv
BY InitRInv, NextRInv, PTL DEF Spec

(* An index into a buffer of recv_header or recv_data never leaves it.     *)
THEOREM TypeCorrect == Spec => []TypeOK
<1>1. RInv => TypeOK
  BY DEF RInv
<1> QED BY <1>1, SpecRInv, PTL

(* parse() sees the frames the client wrote, each whole and once, in order,*)
(* however the network cut them: recv_header and recv_data take no byte of *)
(* one frame for a byte of another.                                        *)
THEOREM FramesAreWhole == Spec => []WholeFrames
<1>1. RInv => WholeFrames
  BY DEF RInv
<1> QED BY <1>1, SpecRInv, PTL

(* recv_msg gives a client up for want of bytes only between a header and  *)
(* the first byte of its payload.                                          *)
THEOREM GivenUpAfterHeader == Spec => []CutOffAfterHeader
<1>1. RInv => CutOffAfterHeader
  BY DEF RInv
<1> QED BY <1>1, SpecRInv, PTL
=============================================================================
