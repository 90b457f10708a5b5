---------------------------- MODULE ClientProofs ----------------------------
(***************************************************************************)
(* Proofs about one client and the server it is connected to, for any sets *)
(* of users and descriptors and any bounds.                                *)
(*                                                                         *)
(* First the ranks of places in a queue, then what each operation of the   *)
(* client keeps, then the steps of the two together.                       *)
(***************************************************************************)
EXTENDS Client, QueueProofs, FunctionTheorems, SequenceTheorems,
        WellFoundedInduction

USE NamesAssumption, ConnectionsAssumption, MeAssumption, EntryAssumption

-----------------------------------------------------------------------------
(* Ranks.                                                                  *)

(* The places of a queue are finitely many, and so are those up to one.    *)
LEMMA RankType ==
    ASSUME NEW n \in Nat, NEW S \in SUBSET (1..n), NEW i
    PROVE  /\ IsFiniteSet(S) /\ Cardinality(S) \in Nat
           /\ IsFiniteSet({j \in S : j <= i}) /\ Rank(S, i) \in Nat
<1>1. IsFiniteSet(S)
  <2>1. IsFiniteSet(1..n)
    BY FS_Interval
  <2> QED BY <2>1, FS_Subset
<1>2. IsFiniteSet({j \in S : j <= i})
  BY <1>1, FS_Subset
<1> QED BY <1>1, <1>2, FS_CardinalityType DEF Rank

LEMMA RankBounds ==
    ASSUME NEW n \in Nat, NEW S \in SUBSET (1..n), NEW i \in S
    PROVE  Rank(S, i) \in 1..Cardinality(S)
<1> DEFINE upto == {j \in S : j <= i}
<1>1. /\ IsFiniteSet(S) /\ Cardinality(S) \in Nat
      /\ IsFiniteSet(upto) /\ Cardinality(upto) \in Nat
  BY RankType DEF Rank
<1>2. upto # {} /\ upto \in SUBSET S
  OBVIOUS
<1> HIDE DEF upto
<1>3. Cardinality(upto) # 0 /\ Cardinality(upto) <= Cardinality(S)
  BY <1>1, <1>2, FS_EmptySet, FS_Subset
<1>4. Rank(S, i) = Cardinality(upto)
  BY DEF Rank, upto
<1> QED BY <1>1, <1>3, <1>4

(* A place behind all others is the last in rank and changes no other's.   *)
LEMMA RankAdd ==
    ASSUME NEW n \in Nat, NEW S \in SUBSET (1..n)
    PROVE  /\ Cardinality(S \cup {n + 1}) = Cardinality(S) + 1
           /\ Rank(S \cup {n + 1}, n + 1) = Cardinality(S) + 1
           /\ \A i \in S : Rank(S \cup {n + 1}, i) = Rank(S, i)
<1>1. Cardinality(S \cup {n + 1}) = Cardinality(S) + 1
  <2>1. n + 1 \notin S
    OBVIOUS
  <2> QED BY <2>1, RankType, FS_AddElement
<1>2. {j \in S \cup {n + 1} : j <= n + 1} = S \cup {n + 1}
  <2>1. \A j \in S \cup {n + 1} : j <= n + 1
    OBVIOUS
  <2> QED BY <2>1, Zenon
<1>3. ASSUME NEW i \in S PROVE Rank(S \cup {n + 1}, i) = Rank(S, i)
  <2>1. {j \in S \cup {n + 1} : j <= i} = {j \in S : j <= i}
    OBVIOUS
  <2> QED BY <2>1 DEF Rank
<1> QED BY <1>1, <1>2, <1>3 DEF Rank

(* The places of S when the first place of the queue is gone.              *)
Back(S) == {i \in Nat : i >= 1 /\ i + 1 \in S}

(* One place further on there are as many places as there were but the     *)
(* first.                                                                  *)
LEMMA ShiftCard ==
    ASSUME NEW T \in SUBSET Nat, IsFiniteSet(T)
    PROVE  Cardinality({i + 1 : i \in T}) = Cardinality(T)
<1> DEFINE U == {i + 1 : i \in T}
           b == [i \in T |-> i + 1]
<1>1. b \in Bijection(T, U)
  <2>1. b \in [T -> U]
    OBVIOUS
  <2>2. \A i, j \in T : b[i] = b[j] => i = j
    OBVIOUS
  <2>3. \A u \in U : \E i \in T : b[i] = u
    OBVIOUS
  <2> HIDE DEF b, U
  <2> QED BY <2>1, <2>2, <2>3, Fun_IsBij
<1> HIDE DEF b, U
<1>2. ExistsBijection(T, U)
  BY <1>1 DEF ExistsBijection
<1> QED BY <1>2, FS_Bijection DEF U


LEMMA RankBack ==
    ASSUME NEW n \in Nat, NEW S \in SUBSET (1..n)
    PROVE  /\ Back(S) \in SUBSET (1..n)
           /\ 1 \notin S => /\ Cardinality(Back(S)) = Cardinality(S)
                            /\ \A i \in Back(S) : Rank(Back(S), i) = Rank(S, i + 1)
           /\ 1 \in S => /\ Cardinality(S) = Cardinality(Back(S)) + 1
                         /\ Rank(S, 1) = 1
                         /\ \A i \in Back(S) : Rank(S, i + 1) = Rank(Back(S), i) + 1
<1>1. Back(S) \in SUBSET (1..n)
  BY DEF Back
<1>2. ASSUME NEW T \in SUBSET Nat, IsFiniteSet(T), NEW R \in SUBSET S,
             R \ {1} = {i + 1 : i \in T}
      PROVE  Cardinality(R) = IF 1 \in R THEN Cardinality(T) + 1 ELSE Cardinality(T)
  <2>1. IsFiniteSet(R) /\ Cardinality(R) \in Nat
    BY RankType
  <2>2. Cardinality(R \ {1}) = Cardinality(T)
    BY <1>2, ShiftCard
  <2>3. Cardinality(R \ {1}) = IF 1 \in R THEN Cardinality(R) - 1 ELSE Cardinality(R)
    BY <2>1, FS_RemoveElement
  <2> QED BY <2>1, <2>2, <2>3
<1>3. Cardinality(S) = IF 1 \in S THEN Cardinality(Back(S)) + 1 ELSE Cardinality(Back(S))
  <2>1. S \ {1} = {i + 1 : i \in Back(S)}
    <3>1. ASSUME NEW j \in S \ {1} PROVE j - 1 \in Back(S) /\ (j - 1) + 1 = j
      BY DEF Back
    <3>2. \A i \in Back(S) : i + 1 \in S \ {1}
      BY DEF Back
    <3> QED BY <3>1, <3>2
  <2>2. IsFiniteSet(Back(S)) /\ Back(S) \in SUBSET Nat
    BY <1>1, RankType DEF Back
  <2> QED BY <1>2, <2>1, <2>2
<1>4. ASSUME NEW i \in Back(S)
      PROVE  Rank(S, i + 1) = IF 1 \in S THEN Rank(Back(S), i) + 1 ELSE Rank(Back(S), i)
  <2> DEFINE R == {j \in S : j <= i + 1}
             T == {j \in Back(S) : j <= i}
  <2>1. R \ {1} = {j + 1 : j \in T}
    <3>1. ASSUME NEW j \in R \ {1} PROVE j - 1 \in T /\ (j - 1) + 1 = j
      BY DEF Back
    <3>2. \A j \in T : j + 1 \in R \ {1}
      BY DEF Back
    <3> QED BY <3>1, <3>2
  <2>2. IsFiniteSet(T) /\ T \in SUBSET Nat /\ R \in SUBSET S
    BY <1>1, RankType DEF Back
  <2>3. 1 \in R <=> 1 \in S
    BY DEF Back
  <2>4. Rank(S, i + 1) = Cardinality(R) /\ Rank(Back(S), i) = Cardinality(T)
    BY DEF Rank
  <2> HIDE DEF R, T
  <2> QED BY <1>2, <2>1, <2>2, <2>3, <2>4
<1>5. 1 \in S => Rank(S, 1) = 1
  <2>1. \A j \in S : j <= 1 <=> j = 1
    OBVIOUS
  <2>2. 1 \in S => {j \in S : j <= 1} = {1}
    BY <2>1, Zenon
  <2> QED BY <2>2, FS_Singleton DEF Rank
<1> QED BY <1>1, <1>3, <1>4, <1>5

-----------------------------------------------------------------------------
(* The client and what is under way between it and the server.             *)

Others   == Users \ {Me}
Partners == Others \cup {ALL}

ContactRow == [uid : Partners, is_offline : BOOLEAN, name : Partners]
TextRow    == [sentByMe : BOOLEAN, name : Users \cup {None}, txt : Nat]

Frame ==
    [op : {"username"}, uid : Others]
    \cup [op : {"chatrecord", "textmsg"}, uid : Partners]
    \cup [op : {"change_pwd"}, old : Pwd, new : Pwd]

ClientType ==
    [m_queue_uid  : Seq(Partners),
     m_to_uid     : Partners,
     map_contacts : [Users -> Entry \cup {None}],
     contacts     : Seq(ContactRow),
     records      : [Conversations -> Seq(TextRow)],
     up           : Seq(Frame)]

(* The places of a queue s that hold an element of K.                      *)
Places(s, K) == {i \in DOMAIN s : s[i] \in K}

LEMMA PlacesAppend ==
    ASSUME NEW T, NEW s \in Seq(T), NEW e \in T, NEW K
    PROVE  /\ Places(s, K) \in SUBSET (1..Len(s)) /\ Len(s) \in Nat
           /\ Places(Append(s, e), K) =
                 IF e \in K THEN Places(s, K) \cup {Len(s) + 1} ELSE Places(s, K)
<1> DEFINE longer == Append(s, e)
           n == Len(s)
<1>1. /\ longer \in Seq(T) /\ Len(longer) = n + 1 /\ n \in Nat
      /\ \A i \in 1..n : longer[i] = s[i]
      /\ longer[n + 1] = e
  OBVIOUS
<1>2. DOMAIN longer = 1..(n + 1) /\ DOMAIN s = 1..n
  BY <1>1, LenProperties
<1>3. \A i : i \in 1..(n + 1) <=> i \in 1..n \/ i = n + 1
  BY <1>1
<1> HIDE DEF longer, n
<1>4. \A i : i \in Places(longer, K) <=> i \in Places(s, K) \/ (e \in K /\ i = n + 1)
  BY <1>1, <1>2, <1>3, Zenon DEF Places
<1>5. Places(longer, K) = IF e \in K THEN Places(s, K) \cup {n + 1} ELSE Places(s, K)
  BY <1>4
<1>6. Places(s, K) \in SUBSET (1..n)
  BY <1>2 DEF Places
<1> QED BY <1>1, <1>5, <1>6 DEF longer, n

LEMMA PlacesTail ==
    ASSUME NEW T, NEW s \in Seq(T), s # << >>, NEW K
    PROVE  /\ Places(Tail(s), K) = Back(Places(s, K))
           /\ 1 \in Places(s, K) <=> Head(s) \in K
<1> DEFINE rest == Tail(s)
           n == Len(s)
<1>1. /\ rest \in Seq(T) /\ Head(s) = s[1]
      /\ n \in Nat /\ n >= 1 /\ Len(rest) = n - 1
      /\ \A i \in 1..(n - 1) : rest[i] = s[i + 1]
  OBVIOUS
<1>2. DOMAIN rest = 1..(n - 1) /\ DOMAIN s = 1..n
  BY <1>1, LenProperties
<1> HIDE DEF rest, n
<1>3. \A i \in Nat : i >= 1 /\ i + 1 \in 1..n <=> i \in 1..(n - 1)
  BY <1>1
<1>4. \A i \in 1..(n - 1) : i \in Nat /\ rest[i] = s[i + 1]
  BY <1>1
<1>5. \A i : i \in Places(rest, K) <=> i \in Back(Places(s, K))
  BY <1>2, <1>3, <1>4, Zenon DEF Places, Back
<1>6. 1 \in 1..n
  BY <1>1
<1> QED BY <1>1, <1>2, <1>5, <1>6 DEF Places, rest

(* Answers, and the requests that are answered.                            *)
AnswerMessages == {m \in Message : m.type \in {\h91, \h92}}
AskFrames      == {frame \in Frame : frame.op \in {"username", "chatrecord"}}
NameFrames(u)  == {frame \in Frame : frame.op = "username" /\ frame.uid = u}

NamesAsked(up, u) == Places(up, NameFrames(u))

LEMMA PlacesMean ==
    /\ \A que \in Seq(Message) : AnswersIn(que) = Places(que, AnswerMessages)
    /\ \A up \in Seq(Frame) : AsksIn(up) = Places(up, AskFrames)
<1>1. \A que \in Seq(Message) : AnswersIn(que) = Places(que, AnswerMessages)
  BY DEF AnswersIn, Places, AnswerMessages
<1>2. \A up \in Seq(Frame) : AsksIn(up) = Places(up, AskFrames)
  BY DEF AsksIn, Places, AskFrames
<1> QED BY <1>1, <1>2

LEMMA AnswersAppend ==
    ASSUME NEW que \in Seq(Message), NEW m \in Message
    PROVE  AnswersIn(Append(que, m)) =
              IF m \in AnswerMessages THEN AnswersIn(que) \cup {Len(que) + 1}
              ELSE AnswersIn(que)
<1>1. Append(que, m) \in Seq(Message)
  BY AppendAt
<1>2. /\ AnswersIn(Append(que, m)) = Places(Append(que, m), AnswerMessages)
      /\ AnswersIn(que) = Places(que, AnswerMessages)
  BY <1>1, PlacesMean
<1> QED BY <1>2, PlacesAppend

LEMMA AnswersTail ==
    ASSUME NEW que \in Seq(Message), que # << >>
    PROVE  /\ AnswersIn(Tail(que)) = Back(AnswersIn(que))
           /\ 1 \in AnswersIn(que) <=> Head(que) \in AnswerMessages
<1>1. Tail(que) \in Seq(Message)
  BY TailAt
<1>2. /\ AnswersIn(Tail(que)) = Places(Tail(que), AnswerMessages)
      /\ AnswersIn(que) = Places(que, AnswerMessages)
  BY <1>1, PlacesMean
<1> QED BY <1>2, PlacesTail

LEMMA AsksAppend ==
    ASSUME NEW up \in Seq(Frame), NEW frame \in Frame
    PROVE  AsksIn(Append(up, frame)) =
              IF frame \in AskFrames THEN AsksIn(up) \cup {Len(up) + 1} ELSE AsksIn(up)
<1>1. Append(up, frame) \in Seq(Frame)
  OBVIOUS
<1>2. /\ AsksIn(Append(up, frame)) = Places(Append(up, frame), AskFrames)
      /\ AsksIn(up) = Places(up, AskFrames)
  BY <1>1, PlacesMean
<1> QED BY <1>2, PlacesAppend

LEMMA AsksTail ==
    ASSUME NEW up \in Seq(Frame), up # << >>
    PROVE  /\ AsksIn(Tail(up)) = Back(AsksIn(up))
           /\ 1 \in AsksIn(up) <=> Head(up) \in AskFrames
<1>1. Tail(up) \in Seq(Frame)
  BY HeadTailProperties
<1>2. /\ AsksIn(Tail(up)) = Places(Tail(up), AskFrames)
      /\ AsksIn(up) = Places(up, AskFrames)
  BY <1>1, PlacesMean
<1> QED BY <1>2, PlacesTail

-----------------------------------------------------------------------------
(* AnswersMatch, and where the name of a contact is.                       *)

(* The answer m is one to a request for id.                                *)
Answering(m, id, rec) ==
    /\ m.type = \h91 => id \in Others
    /\ m.sub = 0 => IF m.type = \h91 THEN m.uid = id
                    ELSE \A rid \in m.rids : rid \in DOMAIN rec /\ Concerns(rec[rid], Me, id)

Matches(ids, que, up, rec) ==
    /\ Len(ids) = Cardinality(AnswersIn(que)) + Cardinality(AsksIn(up))
    /\ \A i \in AnswersIn(que) : Answering(que[i], ids[Rank(AnswersIn(que), i)], rec)
    /\ \A i \in AsksIn(up) :
         up[i].uid = ids[Cardinality(AnswersIn(que)) + Rank(AsksIn(up), i)]

(* The answers under way that will name u.                                 *)
NamesIn(ids, que, u) ==
    {i \in AnswersIn(que) : que[i].type = \h91 /\ ids[Rank(AnswersIn(que), i)] = u}

(* What every lemma below starts from.                                     *)
Wired(ids, que, up, rec) ==
    /\ ids \in Seq(Partners) /\ que \in Seq(Message) /\ up \in Seq(Frame)
    /\ Matches(ids, que, up, rec)

LEMMA WiredTypes ==
    ASSUME NEW que \in Seq(Message), NEW up \in Seq(Frame)
    PROVE  /\ Len(que) \in Nat /\ AnswersIn(que) \in SUBSET (1..Len(que))
           /\ Cardinality(AnswersIn(que)) \in Nat
           /\ \A i \in AnswersIn(que) :
                Rank(AnswersIn(que), i) \in 1..Cardinality(AnswersIn(que))
           /\ Len(up) \in Nat /\ AsksIn(up) \in SUBSET (1..Len(up))
           /\ Cardinality(AsksIn(up)) \in Nat
           /\ \A i \in AsksIn(up) : Rank(AsksIn(up), i) \in 1..Cardinality(AsksIn(up))
<1>1. /\ Len(que) \in Nat /\ Len(up) \in Nat
      /\ DOMAIN que = 1..Len(que) /\ DOMAIN up = 1..Len(up)
  BY LenProperties
<1>2. AnswersIn(que) \in SUBSET (1..Len(que)) /\ AsksIn(up) \in SUBSET (1..Len(up))
  BY <1>1 DEF AnswersIn, AsksIn
<1>3. Cardinality(AnswersIn(que)) \in Nat /\ Cardinality(AsksIn(up)) \in Nat
  BY <1>1, <1>2, RankType
<1> QED BY <1>1, <1>2, <1>3, RankBounds

(* Something else than an answer is queued.                                *)
LEMMA WiredPush ==
    ASSUME NEW ids, NEW que, NEW up, NEW rec, Wired(ids, que, up, rec),
           NEW m \in Message \ AnswerMessages
    PROVE  /\ Wired(ids, Append(que, m), up, rec)
           /\ \A u : NamesIn(ids, Append(que, m), u) = NamesIn(ids, que, u)
<1> DEFINE longer == Append(que, m)
<1>1. /\ longer \in Seq(Message) /\ \A i \in 1..Len(que) : longer[i] = que[i]
  BY AppendAt DEF Wired
<1>2. AnswersIn(longer) = AnswersIn(que) /\ AnswersIn(que) \in SUBSET (1..Len(que))
  BY AnswersAppend, WiredTypes DEF Wired
<1> HIDE DEF longer
<1>3. \A i \in AnswersIn(que) : longer[i] = que[i]
  BY <1>1, <1>2
<1>4. Wired(ids, longer, up, rec)
  BY <1>1, <1>2, <1>3 DEF Wired, Matches
<1>5. \A u : NamesIn(ids, longer, u) = NamesIn(ids, que, u)
  BY <1>2, <1>3 DEF NamesIn
<1> QED BY <1>4, <1>5 DEF longer

(* A frame that is not answered by an AnswerMessage is taken.              *)
LEMMA WiredSkip ==
    ASSUME NEW ids, NEW que, NEW up, NEW rec, Wired(ids, que, up, rec),
           up # << >>, Head(up) \notin AskFrames
    PROVE  Wired(ids, que, Tail(up), rec)
<1> DEFINE rest == Tail(up)
           A == AnswersIn(que)
           B == AsksIn(up)
<1>1. /\ rest \in Seq(Frame) /\ Head(up) \in Frame
      /\ Len(up) \in Nat /\ Len(rest) = Len(up) - 1
      /\ \A i \in 1..Len(rest) : rest[i] = up[i + 1]
  BY HeadTailProperties, LenProperties DEF Wired
<1>2. AsksIn(rest) = Back(B) /\ 1 \notin B
  BY AsksTail DEF Wired
<1>3. B \in SUBSET (1..Len(up))
  BY WiredTypes DEF Wired
<1>4. /\ Cardinality(Back(B)) = Cardinality(B)
      /\ \A i \in Back(B) : Rank(Back(B), i) = Rank(B, i + 1)
  BY <1>1, <1>2, <1>3, RankBack
<1>5. \A i \in Back(B) : i + 1 \in B /\ i \in 1..Len(rest)
  BY <1>1, <1>3 DEF Back
<1>6. /\ que \in Seq(Message) /\ ids \in Seq(Partners)
      /\ Len(ids) = Cardinality(A) + Cardinality(B)
      /\ \A i \in A : Answering(que[i], ids[Rank(A, i)], rec)
      /\ \A i \in B : up[i].uid = ids[Cardinality(A) + Rank(B, i)]
  BY DEF Wired, Matches
<1> HIDE DEF rest, A, B
<1>7. \A i \in Back(B) : rest[i].uid = ids[Cardinality(A) + Rank(Back(B), i)]
  BY <1>1, <1>4, <1>5, <1>6
<1>8. Matches(ids, que, rest, rec)
  BY <1>2, <1>4, <1>6, <1>7 DEF Matches, A
<1> QED BY <1>1, <1>6, <1>8 DEF Wired, rest

(* A request is answered: the uid it was about stays where it was.         *)
LEMMA WiredAnswer ==
    ASSUME NEW ids, NEW que, NEW up, NEW rec, Wired(ids, que, up, rec),
           up # << >>, Head(up) \in AskFrames,
           NEW m \in AnswerMessages, Answering(m, Head(up).uid, rec)
    PROVE  /\ Wired(ids, Append(que, m), Tail(up), rec)
           /\ \A u : NamesIn(ids, Append(que, m), u) =
                IF m.type = \h91 /\ Head(up).uid = u
                THEN NamesIn(ids, que, u) \cup {Len(que) + 1} ELSE NamesIn(ids, que, u)
<1> DEFINE rest == Tail(up)
           longer == Append(que, m)
           A == AnswersIn(que)
           B == AsksIn(up)
           n == Len(que)
           a == Cardinality(A)
           b == Cardinality(B)
           A1 == A \cup {n + 1}
           B1 == Back(B)
<1>1. /\ rest \in Seq(Frame) /\ Head(up) = up[1]
      /\ Len(up) \in Nat /\ Len(rest) = Len(up) - 1
      /\ \A i \in 1..Len(rest) : rest[i] = up[i + 1]
  BY HeadTailProperties, LenProperties DEF Wired
<1>2. /\ longer \in Seq(Message) /\ n \in Nat
      /\ \A i \in 1..n : longer[i] = que[i]
      /\ longer[n + 1] = m
  BY AppendAt DEF Wired, AnswerMessages
<1>3. /\ AnswersIn(longer) = A1 /\ AsksIn(rest) = B1 /\ 1 \in B
  BY AnswersAppend, AsksTail DEF Wired, AnswerMessages
<1>4. /\ A \in SUBSET (1..n) /\ B \in SUBSET (1..Len(up)) /\ a \in Nat /\ b \in Nat
      /\ \A i \in A : Rank(A, i) \in 1..a
  BY WiredTypes DEF Wired
<1>5. /\ que \in Seq(Message) /\ ids \in Seq(Partners)
      /\ Len(ids) = a + b
      /\ \A i \in A : Answering(que[i], ids[Rank(A, i)], rec)
      /\ \A i \in B : up[i].uid = ids[a + Rank(B, i)]
  BY DEF Wired, Matches
<1> HIDE DEF rest, longer, A, B, n
<1>6. /\ Cardinality(A1) = a + 1
      /\ Rank(A1, n + 1) = a + 1
      /\ \A i \in A : Rank(A1, i) = Rank(A, i)
  BY <1>2, <1>4, RankAdd
<1>7. /\ b = Cardinality(B1) + 1 /\ Rank(B, 1) = 1
      /\ \A i \in B1 : Rank(B, i + 1) = Rank(B1, i) + 1
      /\ Cardinality(B1) \in Nat
      /\ \A i \in B1 : Rank(B1, i) \in Nat
  <2>1. B1 \in SUBSET (1..Len(up))
    BY <1>1, <1>4, RankBack
  <2> QED BY <1>1, <1>3, <1>4, <2>1, RankBack, RankType
<1>8. \A i \in B1 : i + 1 \in B /\ i \in 1..Len(rest)
  BY <1>1, <1>4 DEF Back
<1> HIDE DEF A1, B1, a, b
<1>9. up[1].uid = ids[a + 1]
  BY <1>3, <1>5, <1>7
<1>10. \A i \in B1 : rest[i].uid = ids[Cardinality(A1) + Rank(B1, i)]
  <2> SUFFICES ASSUME NEW i \in B1
               PROVE  rest[i].uid = ids[Cardinality(A1) + Rank(B1, i)]
    OBVIOUS
  <2>1. rest[i] = up[i + 1] /\ up[i + 1].uid = ids[a + Rank(B, i + 1)]
    BY <1>1, <1>5, <1>8
  <2>2. a + Rank(B, i + 1) = Cardinality(A1) + Rank(B1, i)
    BY <1>4, <1>6, <1>7
  <2> QED BY <2>1, <2>2
<1>11. \A i \in A : i # n + 1 /\ longer[i] = que[i]
  <2>1. \A i \in 1..n : i # n + 1
    BY <1>2
  <2> QED BY <1>2, <1>4, <2>1
<1>12. \A i \in A1 : Answering(longer[i], ids[Rank(A1, i)], rec)
  <2> SUFFICES ASSUME NEW i \in A1 PROVE Answering(longer[i], ids[Rank(A1, i)], rec)
    OBVIOUS
  <2>1. CASE i \in A
    BY <1>5, <1>6, <1>11, <2>1
  <2>2. CASE i = n + 1
    BY <1>1, <1>2, <1>6, <1>9, <2>2
  <2> QED BY <2>1, <2>2 DEF A1
<1>13. Len(ids) = Cardinality(A1) + Cardinality(B1)
  BY <1>4, <1>5, <1>6, <1>7
<1>14. Matches(ids, longer, rest, rec)
  BY <1>3, <1>10, <1>12, <1>13 DEF Matches
<1>15. ASSUME NEW u
       PROVE  NamesIn(ids, longer, u) =
                IF m.type = \h91 /\ up[1].uid = u
                THEN NamesIn(ids, que, u) \cup {n + 1} ELSE NamesIn(ids, que, u)
  <2>1. NamesIn(ids, longer, u) = {i \in A1 : longer[i].type = \h91 /\ ids[Rank(A1, i)] = u}
    BY <1>3 DEF NamesIn
  <2>2. NamesIn(ids, que, u) = {i \in A : que[i].type = \h91 /\ ids[Rank(A, i)] = u}
    BY DEF NamesIn, A
  <2>3. \A i \in A : i \in NamesIn(ids, longer, u) <=> i \in NamesIn(ids, que, u)
    BY ZenonT(30), <1>6, <1>11, <2>1, <2>2 DEF A1
  <2>4. n + 1 \in NamesIn(ids, longer, u) <=> m.type = \h91 /\ up[1].uid = u
    BY <1>2, <1>6, <1>9, <2>1 DEF A1
  <2>5. \A i : i \in NamesIn(ids, longer, u) => i \in A \/ i = n + 1
    BY <2>1 DEF A1
  <2>6. \A i : i \in NamesIn(ids, que, u) => i \in A
    BY <2>2
  <2>7. \A i : i \in NamesIn(ids, longer, u) <=>
               i \in NamesIn(ids, que, u) \/ (m.type = \h91 /\ up[1].uid = u /\ i = n + 1)
    BY <2>3, <2>4, <2>5, <2>6, Zenon
  <2> QED BY <2>7
<1> QED BY <1>1, <1>2, <1>5, <1>14, <1>15 DEF Wired, rest, longer, n

(* The client takes the head of the queue, which is no answer, ...         *)
LEMMA WiredTake ==
    ASSUME NEW ids, NEW que, NEW up, NEW rec, Wired(ids, que, up, rec),
           que # << >>, Head(que) \notin AnswerMessages
    PROVE  /\ Wired(ids, Tail(que), up, rec)
           /\ \A u : NamesIn(ids, Tail(que), u) = Back(NamesIn(ids, que, u))
<1> DEFINE rest == Tail(que)
           A == AnswersIn(que)
           B == AsksIn(up)
           n == Len(que)
           A1 == Back(A)
<1>1. /\ rest \in Seq(Message) /\ n \in Nat /\ Len(rest) = n - 1
      /\ \A i \in 1..Len(rest) : rest[i] = que[i + 1]
  BY TailAt DEF Wired
<1>2. AnswersIn(rest) = A1 /\ 1 \notin A /\ A \in SUBSET (1..n)
  BY AnswersTail, WiredTypes DEF Wired
<1>3. /\ que \in Seq(Message) /\ ids \in Seq(Partners) /\ up \in Seq(Frame)
      /\ Len(ids) = Cardinality(A) + Cardinality(B)
      /\ \A i \in A : Answering(que[i], ids[Rank(A, i)], rec)
      /\ \A i \in B : up[i].uid = ids[Cardinality(A) + Rank(B, i)]
  BY DEF Wired, Matches
<1> HIDE DEF rest, A, B, n
<1>4. /\ Cardinality(A1) = Cardinality(A)
      /\ \A i \in A1 : Rank(A1, i) = Rank(A, i + 1)
  BY <1>1, <1>2, RankBack
<1>5. \A i \in A1 : i + 1 \in A /\ rest[i] = que[i + 1]
  BY <1>1, <1>2 DEF Back
<1>6. \A i : i \in A1 <=> i \in Nat /\ i >= 1 /\ i + 1 \in A
  BY DEF Back
<1> HIDE DEF A1
<1>7. \A i \in A1 : Answering(rest[i], ids[Rank(A1, i)], rec)
  BY <1>3, <1>4, <1>5
<1>8. Wired(ids, rest, up, rec)
  BY <1>1, <1>2, <1>3, <1>4, <1>7 DEF Wired, Matches, B
<1>9. ASSUME NEW u PROVE NamesIn(ids, rest, u) = Back(NamesIn(ids, que, u))
  <2>1. NamesIn(ids, rest, u) = {i \in A1 : rest[i].type = \h91 /\ ids[Rank(A1, i)] = u}
    BY <1>2 DEF NamesIn
  <2>2. NamesIn(ids, que, u) = {i \in A : que[i].type = \h91 /\ ids[Rank(A, i)] = u}
    BY DEF NamesIn, A
  <2>3. \A i \in A1 : i \in NamesIn(ids, rest, u) <=> i + 1 \in NamesIn(ids, que, u)
    BY <1>4, <1>5, <2>1, <2>2
  <2>4. \A i : i \in NamesIn(ids, rest, u) => i \in A1
    BY <2>1
  <2>5. \A i : i \in NamesIn(ids, que, u) => i \in A
    BY <2>2
  <2>6. \A i : i \in NamesIn(ids, rest, u) <=> i \in Back(NamesIn(ids, que, u))
    BY <1>6, <2>3, <2>4, <2>5, Zenon DEF Back
  <2> QED BY <2>6
<1> QED BY <1>8, <1>9 DEF rest

(* ... or is one: it takes the uid in front of m_queue_uid for it.         *)
AnswerTaken(ids, que, up, rec) ==
    /\ ids # << >> /\ Answering(Head(que), Head(ids), rec) /\ Head(ids) \in Partners
    /\ Wired(Tail(ids), Tail(que), up, rec)
    /\ \A u : /\ NamesIn(Tail(ids), Tail(que), u) = Back(NamesIn(ids, que, u))
              /\ 1 \in NamesIn(ids, que, u) <=> Head(que).type = \h91 /\ Head(ids) = u

LEMMA WiredTakeAnswer ==
    ASSUME NEW ids, NEW que, NEW up, NEW rec, Wired(ids, que, up, rec),
           que # << >>, Head(que) \in AnswerMessages
    PROVE  AnswerTaken(ids, que, up, rec)
<1> DEFINE rest == Tail(que)
           left == Tail(ids)
           A == AnswersIn(que)
           B == AsksIn(up)
           n == Len(que)
           a == Cardinality(A)
           b == Cardinality(B)
           A1 == Back(A)
<1>1. /\ rest \in Seq(Message) /\ n \in Nat /\ Len(rest) = n - 1 /\ Head(que) = que[1]
      /\ \A i \in 1..Len(rest) : rest[i] = que[i + 1]
  BY TailAt DEF Wired
<1>2. AnswersIn(rest) = A1 /\ 1 \in A /\ A \in SUBSET (1..n)
  BY AnswersTail, WiredTypes DEF Wired
<1>3. /\ que \in Seq(Message) /\ ids \in Seq(Partners) /\ up \in Seq(Frame)
      /\ Len(ids) = a + b
      /\ \A i \in A : Answering(que[i], ids[Rank(A, i)], rec)
      /\ \A i \in B : up[i].uid = ids[a + Rank(B, i)]
  BY DEF Wired, Matches
<1>4. /\ a \in Nat /\ b \in Nat /\ \A i \in A : Rank(A, i) \in 1..a
      /\ \A i \in B : Rank(B, i) \in 1..b
  BY WiredTypes DEF Wired
<1> HIDE DEF rest, A, B, n
<1>5. /\ a = Cardinality(A1) + 1 /\ Rank(A, 1) = 1
      /\ \A i \in A1 : Rank(A, i + 1) = Rank(A1, i) + 1
  BY <1>1, <1>2, RankBack
<1>6. /\ Cardinality(A1) \in Nat
      /\ \A i \in A1 : Rank(A1, i) \in 1..Cardinality(A1)
  <2>1. A1 \in SUBSET (1..n)
    BY <1>1, <1>2, RankBack
  <2> QED BY <1>1, <2>1, RankType, RankBounds
<1>7. \A i \in A1 : i + 1 \in A /\ rest[i] = que[i + 1]
  BY <1>1, <1>2 DEF Back
<1>8. \A i : i \in A1 <=> i \in Nat /\ i >= 1 /\ i + 1 \in A
  BY DEF Back
<1> HIDE DEF A1, a, b
<1>9. /\ ids # << >> /\ Head(ids) = ids[1] /\ Head(ids) \in Partners
      /\ left \in Seq(Partners) /\ Len(left) = a + b - 1
      /\ \A k \in 1..(a + b - 1) : left[k] = ids[k + 1]
  <2>1. Len(ids) >= 1
    BY <1>3, <1>4, <1>5, <1>6
  <2>2. ids # << >>
    BY <1>3, <2>1, EmptySeq
  <2>3. /\ Head(ids) \in Partners /\ left \in Seq(Partners) /\ Len(left) = Len(ids) - 1
        /\ \A k \in 1..Len(left) : left[k] = ids[k + 1]
    BY <1>3, <2>2, HeadTailProperties
  <2>4. Head(ids) = ids[1]
    BY <1>3, <2>2
  <2>5. Len(ids) = a + b
    BY <1>3
  <2> HIDE DEF left
  <2>6. Len(left) = a + b - 1
    BY <1>4, <2>3, <2>5
  <2>7. \A k \in 1..(a + b - 1) : left[k] = ids[k + 1]
    BY ZenonT(30), <2>3, <2>6
  <2> QED BY <2>2, <2>3, <2>4, <2>6, <2>7, Zenon
<1> HIDE DEF left
<1>10. \A i \in A1 : left[Rank(A1, i)] = ids[Rank(A, i + 1)]
  <2> SUFFICES ASSUME NEW i \in A1 PROVE left[Rank(A1, i)] = ids[Rank(A, i + 1)]
    OBVIOUS
  <2>1. Rank(A1, i) \in 1..(a + b - 1)
    BY <1>4, <1>5, <1>6
  <2> QED BY <1>5, <1>9, <2>1
<1>11. \A i \in A1 : Answering(rest[i], left[Rank(A1, i)], rec)
  BY <1>3, <1>7, <1>10
<1>12. \A i \in B : up[i].uid = left[Cardinality(A1) + Rank(B, i)]
  <2> SUFFICES ASSUME NEW i \in B PROVE up[i].uid = left[Cardinality(A1) + Rank(B, i)]
    OBVIOUS
  <2> DEFINE k == Cardinality(A1) + Rank(B, i)
  <2>1. k \in 1..(a + b - 1) /\ k + 1 = a + Rank(B, i)
    BY <1>4, <1>5, <1>6
  <2> HIDE DEF k
  <2>2. up[i].uid = left[k]
    BY <1>3, <1>9, <2>1
  <2> QED BY <2>2 DEF k
<1>13. Len(left) = Cardinality(A1) + b
  BY <1>4, <1>5, <1>6, <1>9
<1>14. Wired(left, rest, up, rec)
  BY <1>1, <1>2, <1>3, <1>9, <1>11, <1>12, <1>13 DEF Wired, Matches, B, b
<1>15. Answering(Head(que), Head(ids), rec)
  BY <1>1, <1>2, <1>3, <1>5, <1>9
<1>16. ASSUME NEW u
       PROVE  /\ NamesIn(left, rest, u) = Back(NamesIn(ids, que, u))
              /\ 1 \in NamesIn(ids, que, u) <=> que[1].type = \h91 /\ Head(ids) = u
  <2>1. NamesIn(left, rest, u) = {i \in A1 : rest[i].type = \h91 /\ left[Rank(A1, i)] = u}
    BY <1>2 DEF NamesIn
  <2>2. NamesIn(ids, que, u) = {i \in A : que[i].type = \h91 /\ ids[Rank(A, i)] = u}
    BY DEF NamesIn, A
  <2>3. \A i \in A1 : i \in NamesIn(left, rest, u) <=> i + 1 \in NamesIn(ids, que, u)
    BY <1>7, <1>10, <2>1, <2>2
  <2>4. \A i : i \in NamesIn(left, rest, u) => i \in A1
    BY <2>1
  <2>5. \A i : i \in NamesIn(ids, que, u) => i \in A
    BY <2>2
  <2>6. \A i : i \in NamesIn(left, rest, u) <=> i \in Back(NamesIn(ids, que, u))
    BY <1>8, <2>3, <2>4, <2>5, Zenon DEF Back
  <2>7. 1 \in NamesIn(ids, que, u) <=> que[1].type = \h91 /\ ids[1] = u
    BY <1>2, <1>5, <2>2
  <2> QED BY <1>9, <2>6, <2>7
<1> QED BY <1>1, <1>9, <1>14, <1>15, <1>16 DEF AnswerTaken, rest, left

(* A name or a history is asked for.                                       *)
LEMMA WiredAsk ==
    ASSUME NEW ids, NEW que, NEW up, NEW rec, Wired(ids, que, up, rec),
           NEW id \in Partners, NEW frame \in AskFrames, frame.uid = id
    PROVE  /\ Wired(Append(ids, id), que, Append(up, frame), rec)
           /\ \A u : NamesIn(Append(ids, id), que, u) = NamesIn(ids, que, u)
<1> DEFINE more == Append(ids, id)
           longer == Append(up, frame)
           A == AnswersIn(que)
           B == AsksIn(up)
           n == Len(up)
           a == Cardinality(A)
           b == Cardinality(B)
           B1 == B \cup {n + 1}
<1>1. /\ que \in Seq(Message) /\ ids \in Seq(Partners) /\ up \in Seq(Frame)
      /\ Len(ids) = a + b
      /\ \A i \in A : Answering(que[i], ids[Rank(A, i)], rec)
      /\ \A i \in B : up[i].uid = ids[a + Rank(B, i)]
  BY DEF Wired, Matches
<1>2. /\ a \in Nat /\ b \in Nat /\ \A i \in A : Rank(A, i) \in 1..a
      /\ \A i \in B : Rank(B, i) \in 1..b
      /\ n \in Nat /\ B \in SUBSET (1..n)
  BY WiredTypes DEF Wired
<1>3. /\ longer \in Seq(Frame) /\ longer[n + 1] = frame
      /\ \A i \in 1..n : longer[i] = up[i]
      /\ AsksIn(longer) = B1
  BY <1>1, AsksAppend DEF AskFrames
<1>4. /\ more \in Seq(Partners) /\ Len(more) = a + b + 1 /\ more[a + b + 1] = id
      /\ \A k \in 1..(a + b) : more[k] = ids[k]
  BY <1>1
<1> HIDE DEF more, longer, A, B, n
<1>5. /\ Cardinality(B1) = b + 1 /\ Rank(B1, n + 1) = b + 1
      /\ \A i \in B : Rank(B1, i) = Rank(B, i)
  BY <1>2, RankAdd
<1> HIDE DEF a, b
<1>6. \A i \in A : more[Rank(A, i)] = ids[Rank(A, i)]
  <2>1. \A i \in A : Rank(A, i) \in 1..(a + b)
    BY <1>2
  <2> QED BY <1>4, <2>1
<1>7. \A i \in B1 : longer[i].uid = more[a + Rank(B1, i)]
  <2> SUFFICES ASSUME NEW i \in B1 PROVE longer[i].uid = more[a + Rank(B1, i)]
    OBVIOUS
  <2>1. CASE i \in B
    <3> DEFINE k == a + Rank(B, i)
    <3>1. k \in 1..(a + b)
      BY <1>2, <2>1
    <3>2. longer[i] = up[i] /\ up[i].uid = ids[k] /\ Rank(B1, i) = Rank(B, i)
      BY <1>1, <1>2, <1>3, <1>5, <2>1
    <3> HIDE DEF k
    <3>3. more[k] = ids[k]
      BY <1>4, <3>1
    <3> QED BY <3>2, <3>3 DEF k
  <2>2. CASE i = n + 1
    <3>1. a + Rank(B1, i) = a + b + 1
      BY <1>2, <1>5, <2>2
    <3> QED BY <1>3, <1>4, <2>2, <3>1
  <2> QED BY <2>1, <2>2
<1>8. Len(more) = a + Cardinality(B1)
  BY <1>2, <1>4, <1>5
<1>9. \A i \in A : Answering(que[i], more[Rank(A, i)], rec)
  BY <1>1, <1>6
<1> HIDE DEF B1
<1>10. Wired(more, que, longer, rec)
  BY <1>1, <1>3, <1>4, <1>7, <1>8, <1>9 DEF Wired, Matches, A, a
<1>11. \A u : NamesIn(more, que, u) = NamesIn(ids, que, u)
  BY <1>6 DEF NamesIn, A
<1> QED BY <1>10, <1>11 DEF more, longer

(* A frame that gets no AnswerMessage is written.                          *)
LEMMA WiredSend ==
    ASSUME NEW ids, NEW que, NEW up, NEW rec, Wired(ids, que, up, rec),
           NEW frame \in Frame \ AskFrames
    PROVE  Wired(ids, que, Append(up, frame), rec)
<1> DEFINE longer == Append(up, frame)
<1>1. longer \in Seq(Frame) /\ \A i \in 1..Len(up) : longer[i] = up[i]
  BY DEF Wired
<1>2. AsksIn(longer) = AsksIn(up) /\ AsksIn(up) \in SUBSET (1..Len(up))
  BY AsksAppend, WiredTypes DEF Wired
<1> HIDE DEF longer
<1>3. \A i \in AsksIn(up) : longer[i] = up[i]
  BY <1>1, <1>2
<1>4. Wired(ids, que, longer, rec)
  BY <1>1, <1>2, <1>3 DEF Wired, Matches
<1> QED BY <1>4 DEF longer

(* A text is saved: what was answered before stays true.                   *)
LEMMA WiredSave ==
    ASSUME NEW ids, NEW que, NEW up, NEW rec \in Seq(RecordRow), Wired(ids, que, up, rec),
           NEW row \in RecordRow
    PROVE  Wired(ids, que, up, Append(rec, row))
<1> DEFINE longer == Append(rec, row)
<1>1. \A rid \in DOMAIN rec : rid \in DOMAIN longer /\ longer[rid] = rec[rid]
  OBVIOUS
<1> HIDE DEF longer
<1>2. \A m, id : Answering(m, id, rec) => Answering(m, id, longer)
  BY <1>1 DEF Answering
<1>3. Wired(ids, que, up, longer)
  BY <1>2 DEF Wired, Matches
<1> QED BY <1>3 DEF longer

(* AnswersMatch is what the client and its queue are Wired by.             *)
LEMMA WiredAnswers ==
    (sock # None => Wired(tc.m_queue_uid, out.que[sock], tc.up, record)) => AnswersMatch
BY DEF Wired, Matches, Answering, AnswersMatch, IsAbout

-----------------------------------------------------------------------------
(* The list of contacts.                                                   *)

(* The group first, nobody twice, everybody under the own name.            *)
RowsInOrder(rows) ==
    /\ rows \in Seq(ContactRow)
    /\ \A i, j \in DOMAIN rows : rows[i].uid = rows[j].uid => i = j
    /\ \A i \in DOMAIN rows : /\ rows[i].uid = ALL <=> i = 1
                              /\ rows[i].name = rows[i].uid

Listed(rows, u) == \E i \in DOMAIN rows : rows[i].uid = u

ContactOf(u, is_offline) == [uid |-> u, is_offline |-> is_offline, name |-> u]

LEMMA ContactRowOf ==
    ASSUME NEW u \in Partners, NEW is_offline \in BOOLEAN
    PROVE  /\ ContactOf(u, is_offline) \in ContactRow
           /\ ContactOf(u, is_offline).uid = u /\ ContactOf(u, is_offline).name = u
BY DEF ContactOf, ContactRow

LEMMA AllIsNoOther == ALL \notin Others /\ Others \in SUBSET Users /\ Others \in SUBSET Partners
BY DEF Others, Partners

LEMMA InsertRows ==
    ASSUME NEW rows, RowsInOrder(rows), rows # << >>,
           NEW u \in Others, ~Listed(rows, u), NEW is_offline \in BOOLEAN
    PROVE  LET longer == InsertContact(rows, u, is_offline, u)
           IN  /\ RowsInOrder(longer) /\ longer # << >>
               /\ \A v : Listed(longer, v) <=> Listed(rows, v) \/ v = u
<1> DEFINE row == ContactOf(u, is_offline)
           longer == Append(rows, row)
           n == Len(rows)
<1>1. rows \in Seq(ContactRow) /\ n \in Nat /\ n >= 1 /\ DOMAIN rows = 1..n
  <2>1. rows \in Seq(ContactRow)
    BY DEF RowsInOrder
  <2> QED BY <2>1, LenProperties, EmptySeq
<1>2. row \in ContactRow /\ row.uid = u /\ row.name = u
  BY AllIsNoOther, ContactRowOf
<1>3. InsertContact(rows, u, is_offline, u) = longer
  BY DEF InsertContact, ContactOf
<1> HIDE DEF row
<1>4. /\ longer \in Seq(ContactRow) /\ Len(longer) = n + 1
      /\ \A i \in 1..n : longer[i] = rows[i]
      /\ longer[n + 1] = row
  BY <1>1, <1>2
<1>5. DOMAIN longer = 1..(n + 1) /\ longer # << >>
  BY <1>1, <1>4, LenProperties, EmptySeq
<1> HIDE DEF longer, n
<1>6. /\ \A i : i \in 1..(n + 1) <=> i \in 1..n \/ i = n + 1
      /\ \A i \in 1..n : i # n + 1
      /\ n + 1 # 1
  BY <1>1
<1>7. \A v : Listed(longer, v) <=> Listed(rows, v) \/ v = u
  BY <1>1, <1>2, <1>4, <1>5, <1>6, Zenon DEF Listed
<1>8. \A i \in 1..n : rows[i].uid # u
  BY <1>1 DEF Listed
<1>9. /\ \A i, j \in 1..n : rows[i].uid = rows[j].uid => i = j
      /\ \A i \in 1..n : /\ rows[i].uid = ALL <=> i = 1
                         /\ rows[i].name = rows[i].uid
  BY <1>1 DEF RowsInOrder
<1>10. \A i, j \in 1..(n + 1) : longer[i].uid = longer[j].uid => i = j
  <2> SUFFICES ASSUME NEW i \in 1..(n + 1), NEW j \in 1..(n + 1),
                      longer[i].uid = longer[j].uid
               PROVE  i = j
    OBVIOUS
  <2>1. CASE i \in 1..n /\ j \in 1..n
    BY <1>4, <1>9, <2>1, Zenon
  <2>2. CASE i \in 1..n /\ j = n + 1
    BY <1>2, <1>4, <1>8, <2>2, Zenon
  <2>3. CASE i = n + 1 /\ j \in 1..n
    BY <1>2, <1>4, <1>8, <2>3, Zenon
  <2> QED BY <1>6, <2>1, <2>2, <2>3, Zenon
<1>11. \A i \in 1..(n + 1) : /\ longer[i].uid = ALL <=> i = 1
                             /\ longer[i].name = longer[i].uid
  <2>1. u # ALL
    BY AllIsNoOther
  <2> QED BY <1>2, <1>4, <1>6, <1>9, <2>1
<1>12. RowsInOrder(longer)
  BY <1>4, <1>5, <1>10, <1>11, Zenon DEF RowsInOrder
<1> QED BY <1>3, <1>5, <1>7, <1>12

(* A row that moves from place it to place to, both behind the group's.    *)
Moved(rows, new, n, to, from) ==
    /\ n \in Nat /\ n = Len(rows)
    /\ new \in Seq(ContactRow) /\ Len(new) = n
    /\ to \in 2..n /\ from \in [1..n -> 1..n] /\ from[1] = 1
    /\ \A i, j \in 1..n : from[i] = from[j] => i = j
    /\ \A i \in 1..n : \E j \in 1..n : from[j] = i
    /\ \A j \in 1..n : j # to => new[j] = rows[from[j]]
    /\ new[to].uid = rows[from[to]].uid /\ new[to].name = new[to].uid

LEMMA MovedRows ==
    ASSUME NEW rows, RowsInOrder(rows), NEW new, NEW n, NEW to, NEW from,
           Moved(rows, new, n, to, from)
    PROVE  RowsInOrder(new) /\ \A v : Listed(new, v) <=> Listed(rows, v)
<1> USE DEF Moved
<1>1. DOMAIN rows = 1..n /\ DOMAIN new = 1..n
  BY LenProperties DEF RowsInOrder
<1>2. /\ \A i, j \in 1..n : rows[i].uid = rows[j].uid => i = j
      /\ \A i \in 1..n : /\ rows[i].uid = ALL <=> i = 1
                         /\ rows[i].name = rows[i].uid
  BY <1>1 DEF RowsInOrder
<1>3. \A j \in 1..n : /\ from[j] \in 1..n
                      /\ new[j].uid = rows[from[j]].uid
                      /\ new[j].name = new[j].uid
  <2> SUFFICES ASSUME NEW j \in 1..n
               PROVE  /\ from[j] \in 1..n
                      /\ new[j].uid = rows[from[j]].uid
                      /\ new[j].name = new[j].uid
    OBVIOUS
  <2>1. from[j] \in 1..n
    OBVIOUS
  <2>2. CASE j # to
    <3>1. new[j] = rows[from[j]]
      BY <2>2, Zenon
    <3>2. rows[from[j]].name = rows[from[j]].uid
      BY <1>2, <2>1, Zenon
    <3> QED BY <2>1, <3>1, <3>2, Zenon
  <2>3. CASE j = to
    BY <2>1, <2>3, Zenon
  <2> QED BY <2>2, <2>3, Zenon
<1>4. \A i, j \in 1..n : new[i].uid = new[j].uid => i = j
  <2> SUFFICES ASSUME NEW i \in 1..n, NEW j \in 1..n, new[i].uid = new[j].uid PROVE i = j
    OBVIOUS
  <2>1. rows[from[i]].uid = rows[from[j]].uid /\ from[i] \in 1..n /\ from[j] \in 1..n
    BY <1>3, Zenon
  <2> DEFINE x == from[i]
             y == from[j]
  <2> HIDE DEF x, y
  <2>2. rows[x].uid = rows[y].uid /\ x \in 1..n /\ y \in 1..n
    BY <2>1 DEF x, y
  <2>3. x = y
    BY <1>2, <2>2
  <2> QED BY <2>3, Zenon DEF x, y
<1>5. \A j \in 1..n : from[j] = 1 <=> j = 1
  <2>1. 1 \in 1..n
    OBVIOUS
  <2> QED BY <2>1, Zenon
<1>6. \A i \in 1..n : new[i].uid = ALL <=> i = 1
  <2> SUFFICES ASSUME NEW i \in 1..n PROVE new[i].uid = ALL <=> i = 1
    OBVIOUS
  <2> DEFINE x == from[i]
  <2>1. x \in 1..n /\ new[i].uid = rows[x].uid /\ (x = 1 <=> i = 1)
    BY <1>3, <1>5, Zenon
  <2> HIDE DEF x
  <2> QED BY <1>2, <2>1
<1>7. \A v : Listed(new, v) <=> Listed(rows, v)
  <2>1. ASSUME NEW v, NEW j \in 1..n, new[j].uid = v
        PROVE  \E i \in 1..n : rows[i].uid = v
    BY <1>3, <2>1, Zenon
  <2>2. ASSUME NEW v, NEW i \in 1..n, rows[i].uid = v
        PROVE  \E j \in 1..n : new[j].uid = v
    <3>1. PICK j \in 1..n : from[j] = i
      OBVIOUS
    <3>2. new[j].uid = rows[i].uid
      BY <1>3, <3>1, Zenon
    <3> QED BY <2>2, <3>2
  <2>3. \A v : (\E j \in 1..n : new[j].uid = v) <=> (\E i \in 1..n : rows[i].uid = v)
    BY <2>1, <2>2
  <2> QED BY <1>1, <2>3, Zenon DEF Listed
<1> QED BY <1>1, <1>3, <1>4, <1>6, <1>7, Zenon DEF RowsInOrder

(* Erasing the element of place it, and inserting one at the second place. *)
LEMMA RemoveAtIs ==
    ASSUME NEW T, NEW s \in Seq(T), NEW it \in 1..Len(s)
    PROVE  /\ RemoveAt(s, it) \in Seq(T) /\ Len(RemoveAt(s, it)) = Len(s) - 1
           /\ \A j \in 1..(Len(s) - 1) :
                RemoveAt(s, it)[j] = s[IF j < it THEN j ELSE j + 1]
<1> DEFINE n == Len(s)
           front == SubSeq(s, 1, it - 1)
           back == SubSeq(s, it + 1, n)
<1>1. n \in Nat /\ it \in 1..n /\ \A i \in 1..n : s[i] \in T
  OBVIOUS
<1>2. front \in Seq(T) /\ Len(front) = it - 1 /\ \A j \in 1..(it - 1) : front[j] = s[j]
  <2>1. \A j \in 1..(it - 1) : s[j] \in T
    BY <1>1
  <2>2. /\ front \in Seq(T) /\ Len(front) = IF 1 <= it - 1 THEN (it - 1) - 1 + 1 ELSE 0
        /\ \A j \in 1..((it - 1) - 1 + 1) : front[j] = s[1 + j - 1]
    BY <1>1, <2>1, SubSeqProperties
  <2> HIDE DEF front
  <2> QED BY <1>1, <2>2
<1>3. back \in Seq(T) /\ Len(back) = n - it /\ \A j \in 1..(n - it) : back[j] = s[it + j]
  <2>1. \A j \in (it + 1)..n : s[j] \in T
    BY <1>1
  <2>2. /\ back \in Seq(T) /\ Len(back) = IF it + 1 <= n THEN n - (it + 1) + 1 ELSE 0
        /\ \A j \in 1..(n - (it + 1) + 1) : back[j] = s[(it + 1) + j - 1]
    BY <1>1, <2>1, SubSeqProperties
  <2> HIDE DEF back
  <2> QED BY <1>1, <2>2
<1>4. RemoveAt(s, it) = front \o back
  BY DEF RemoveAt
<1> HIDE DEF front, back, n
<1>5. /\ front \o back \in Seq(T) /\ Len(front \o back) = Len(front) + Len(back)
      /\ \A j \in 1..(Len(front) + Len(back)) :
           (front \o back)[j] = IF j <= Len(front) THEN front[j] ELSE back[j - Len(front)]
  BY ZenonT(30), <1>2, <1>3, ConcatProperties
<1>6. Len(front) + Len(back) = n - 1
  BY <1>1, <1>2, <1>3
<1>7. ASSUME NEW j \in 1..(n - 1)
      PROVE  (front \o back)[j] = s[IF j < it THEN j ELSE j + 1]
  <2>1. (front \o back)[j] = IF j <= it - 1 THEN front[j] ELSE back[j - (it - 1)]
    BY <1>2, <1>5, <1>6
  <2>2. CASE j < it
    BY <1>1, <1>2, <2>1, <2>2
  <2>3. CASE ~(j < it)
    <3>1. j - (it - 1) \in 1..(n - it) /\ it + (j - (it - 1)) = j + 1 /\ ~(j <= it - 1)
      BY <1>1, <2>3
    <3> QED BY <1>3, <2>1, <2>3, <3>1
  <2> QED BY <2>2, <2>3
<1> QED BY <1>4, <1>5, <1>6, <1>7 DEF n

WithSecond(s, e, new) ==
    /\ new \in Seq(ContactRow) /\ Len(new) = Len(s) + 1
    /\ \A j \in 1..(Len(s) + 1) :
         new[j] = IF j = 1 THEN s[1] ELSE IF j = 2 THEN e ELSE s[j - 1]

LEMMA InsertAtIs ==
    ASSUME NEW s \in Seq(ContactRow), s # << >>, NEW e \in ContactRow
    PROVE  WithSecond(s, e, InsertAt(s, 2, e))
<1> DEFINE n == Len(s)
           front == SubSeq(s, 1, 1)
           back == SubSeq(s, 2, n)
           long == front \o <<e>>
<1>1. n \in Nat /\ n >= 1 /\ \A i \in 1..n : s[i] \in ContactRow
  <2>1. n \in Nat \ {0}
    BY EmptySeq
  <2> QED BY <2>1
<1>2. front \in Seq(ContactRow) /\ Len(front) = 1 /\ front[1] = s[1]
  <2>1. \A j \in 1..1 : s[j] \in ContactRow
    BY <1>1
  <2>2. /\ front \in Seq(ContactRow) /\ Len(front) = IF 1 <= 1 THEN 1 - 1 + 1 ELSE 0
        /\ \A j \in 1..(1 - 1 + 1) : front[j] = s[1 + j - 1]
    BY <2>1, SubSeqProperties
  <2> HIDE DEF front
  <2> QED BY <2>2
<1>3. back \in Seq(ContactRow) /\ Len(back) = n - 1 /\ \A j \in 1..(n - 1) : back[j] = s[j + 1]
  <2>1. \A j \in 2..n : s[j] \in ContactRow
    BY <1>1
  <2>2. /\ back \in Seq(ContactRow) /\ Len(back) = IF 2 <= n THEN n - 2 + 1 ELSE 0
        /\ \A j \in 1..(n - 2 + 1) : back[j] = s[2 + j - 1]
    BY <1>1, <2>1, SubSeqProperties
  <2> HIDE DEF back, n
  <2>3. ASSUME NEW j \in 1..(n - 1) PROVE back[j] = s[j + 1]
    <3>1. j \in 1..(n - 2 + 1) /\ 2 + j - 1 = j + 1
      BY <1>1
    <3> QED BY <2>2, <3>1
  <2>4. Len(back) = n - 1
    BY <1>1, <2>2
  <2> QED BY <2>2, <2>3, <2>4
<1>4. InsertAt(s, 2, e) = long \o back
  BY DEF InsertAt
<1> HIDE DEF front, back, n
<1>5. long \in Seq(ContactRow) /\ Len(long) = 2 /\ long[1] = s[1] /\ long[2] = e
  <2> DEFINE one == <<e>>
  <2>1. one \in Seq(ContactRow) /\ Len(one) = 1 /\ one[1] = e
    OBVIOUS
  <2> HIDE DEF one
  <2>2. /\ front \o one \in Seq(ContactRow) /\ Len(front \o one) = Len(front) + Len(one)
        /\ \A j \in 1..(Len(front) + Len(one)) :
             (front \o one)[j] = IF j <= Len(front) THEN front[j] ELSE one[j - Len(front)]
    BY ZenonT(30), <1>2, <2>1, ConcatProperties
  <2>3. long = front \o one
    BY DEF one
  <2> HIDE DEF long
  <2> QED BY <1>2, <2>1, <2>2, <2>3
<1> HIDE DEF long
<1>6. /\ long \o back \in Seq(ContactRow) /\ Len(long \o back) = Len(long) + Len(back)
      /\ \A j \in 1..(Len(long) + Len(back)) :
           (long \o back)[j] = IF j <= Len(long) THEN long[j] ELSE back[j - Len(long)]
  BY ZenonT(30), <1>3, <1>5, ConcatProperties
<1>7. Len(long) + Len(back) = n + 1
  BY <1>1, <1>3, <1>5
<1>8. ASSUME NEW j \in 1..(n + 1)
      PROVE  (long \o back)[j] = IF j = 1 THEN s[1] ELSE IF j = 2 THEN e ELSE s[j - 1]
  <2>1. (long \o back)[j] = IF j <= 2 THEN long[j] ELSE back[j - 2]
    BY <1>5, <1>6, <1>7
  <2>2. CASE j = 1 \/ j = 2
    BY <1>5, <2>1, <2>2
  <2>3. CASE j # 1 /\ j # 2
    <3>1. j - 2 \in 1..(n - 1) /\ (j - 2) + 1 = j - 1 /\ ~(j <= 2)
      BY <1>1, <2>3
    <3> QED BY <1>3, <2>1, <2>3, <3>1
  <2> QED BY <2>2, <2>3
<1> QED BY <1>4, <1>6, <1>7, <1>8 DEF WithSecond, n

(* updateContact changes places only: the same contacts are listed after   *)
(* it as before.                                                           *)
LEMMA UpdateRows ==
    ASSUME NEW rows, RowsInOrder(rows), rows # << >>, NEW u \in Others,
           NEW is_offline \in BOOLEAN, NEW name, Listed(rows, u) => name = u
    PROVE  LET new == UpdateContact(rows, u, is_offline, name)
           IN  /\ RowsInOrder(new) /\ new # << >>
               /\ \A v : Listed(new, v) <=> Listed(rows, v)
<1> DEFINE new == UpdateContact(rows, u, is_offline, name)
           found == {i \in DOMAIN rows : rows[i].uid = u}
           it == CHOOSE i \in found : \A j \in found : i <= j
           others == RemoveAt(rows, it)
           row == [uid |-> u, is_offline |-> is_offline, name |-> name]
           n == Len(rows)
<1>1. new = IF found = {} THEN rows
            ELSE IF is_offline THEN Append(others, row) ELSE InsertAt(others, 2, row)
  BY DEF UpdateContact
<1>2. rows \in Seq(ContactRow) /\ n \in Nat /\ n >= 1 /\ DOMAIN rows = 1..n
  <2>1. rows \in Seq(ContactRow)
    BY DEF RowsInOrder
  <2> QED BY <2>1, LenProperties, EmptySeq
<1>3. CASE found = {}
  BY <1>1, <1>3
<1>4. CASE found # {}
  <2>1. PICK k \in found : TRUE
    BY <1>4
  <2>2. \A i, j \in 1..n : rows[i].uid = rows[j].uid => i = j
    BY <1>2 DEF RowsInOrder
  <2>3. /\ k \in 1..n /\ rows[k].uid = u /\ rows[1].uid = ALL
        /\ \A i \in found : i = k
    <3>1. k \in 1..n /\ rows[k].uid = u /\ 1 \in 1..n
      BY <1>2
    <3>2. rows[1].uid = ALL
      BY <1>2, <3>1 DEF RowsInOrder
    <3>3. \A i \in found : i \in 1..n /\ rows[i].uid = u
      BY <1>2
    <3> QED BY <2>2, <3>1, <3>2, <3>3
  <2>4. it = k
    <3>1. k \in found /\ \A j \in found : k <= j
      BY <2>3
    <3>2. it \in found
      BY <3>1
    <3> QED BY <2>3, <3>2
  <2> HIDE DEF it, found
  <2>5. k \in 2..n
    <3>1. k # 1
      BY <2>3, AllIsNoOther
    <3> QED BY <1>2, <2>3, <3>1
  <2>6. name = u
    BY <1>2, <2>3 DEF Listed
  <2>7. row \in ContactRow /\ row.uid = u /\ row.name = u
    <3>1. row = ContactOf(u, is_offline)
      BY <2>6 DEF ContactOf
    <3> HIDE DEF row
    <3> QED BY <3>1, ContactRowOf, AllIsNoOther
  <2>8. /\ others \in Seq(ContactRow) /\ Len(others) = n - 1
        /\ \A j \in 1..(n - 1) : others[j] = rows[IF j < k THEN j ELSE j + 1]
    BY <1>2, <2>3, <2>4, RemoveAtIs
  <2>11. n = Len(rows)
    OBVIOUS
  <2> HIDE DEF others, row, n
  <2>9. CASE is_offline
    <3> DEFINE from == [j \in 1..n |-> IF j = n THEN k ELSE IF j < k THEN j ELSE j + 1]
               last == Append(others, row)
    <3>1. /\ last \in Seq(ContactRow) /\ Len(last) = n /\ last[n] = row
          /\ \A j \in 1..(n - 1) : last[j] = others[j]
      <4>1. (n - 1) + 1 = n
        BY <1>2
      <4> QED BY <1>2, <2>7, <2>8, <4>1
    <3>2. from \in [1..n -> 1..n] /\ from[1] = 1 /\ from[n] = k /\ n \in 2..n
      BY <1>2, <2>5
    <3>3. \A i, j \in 1..n : from[i] = from[j] => i = j
      BY <1>2, <2>5
    <3>4. ASSUME NEW i \in 1..n PROVE \E j \in 1..n : from[j] = i
      <4>1. CASE i < k
        BY <2>5, <4>1
      <4>2. CASE i = k
        BY <1>2, <3>2, <4>2
      <4>3. CASE i > k
        <5>1. i - 1 \in 1..n /\ i - 1 # n /\ ~(i - 1 < k) /\ (i - 1) + 1 = i
          BY <1>2, <2>5, <4>3
        <5>2. from[i - 1] = i
          BY <5>1
        <5> QED BY <5>1, <5>2
      <4> QED BY <2>5, <4>1, <4>2, <4>3
    <3>5. \A j \in 1..n : j # n => last[j] = rows[from[j]]
      <4>1. \A j \in 1..n : j # n => j \in 1..(n - 1)
        BY <1>2
      <4> QED BY <2>8, <3>1, <4>1
    <3> HIDE DEF from, last
    <3>6. last[n].uid = rows[from[n]].uid /\ last[n].name = last[n].uid
      BY <2>3, <2>7, <3>1, <3>2
    <3>7. RowsInOrder(last) /\ \A v : Listed(last, v) <=> Listed(rows, v)
      <4>1. Moved(rows, last, n, n, from)
        BY <1>2, <2>5, <2>11, <3>1, <3>2, <3>3, <3>4, <3>5, <3>6 DEF Moved
      <4> QED BY <4>1, MovedRows
    <3>8. last # << >>
      BY <1>2, <3>1, EmptySeq
    <3>9. new = last
      BY <1>1, <1>4, <2>9 DEF last
    <3> QED BY <3>7, <3>8, <3>9
  <2>10. CASE ~is_offline
    <3> DEFINE from == [j \in 1..n |-> IF j = 1 THEN 1 ELSE IF j = 2 THEN k
                                       ELSE IF j - 1 < k THEN j - 1 ELSE j]
               second == InsertAt(others, 2, row)
    <3>1. /\ second \in Seq(ContactRow) /\ Len(second) = n
          /\ \A j \in 1..n : second[j] =
                IF j = 1 THEN others[1] ELSE IF j = 2 THEN row ELSE others[j - 1]
      <4>1. Len(others) >= 1 /\ Len(others) + 1 = n
        BY <1>2, <2>5, <2>8
      <4>2. /\ second \in Seq(ContactRow) /\ Len(second) = Len(others) + 1
            /\ \A j \in 1..(Len(others) + 1) : second[j] =
                  IF j = 1 THEN others[1] ELSE IF j = 2 THEN row ELSE others[j - 1]
        <5>1. others # << >> /\ others \in Seq(ContactRow) /\ row \in ContactRow
          BY <2>7, <2>8, <4>1, EmptySeq
        <5>2. WithSecond(others, row, second)
          BY <5>1, InsertAtIs
        <5> HIDE DEF second
        <5> QED BY <5>2 DEF WithSecond
      <4> HIDE DEF second
      <4> QED BY <4>1, <4>2
    <3>2. from \in [1..n -> 1..n] /\ from[1] = 1 /\ from[2] = k /\ 2 \in 2..n /\ 1 \in 1..n
      BY <1>2, <2>5
    <3>3. \A i, j \in 1..n : from[i] = from[j] => i = j
      BY <1>2, <2>5
    <3>4. ASSUME NEW i \in 1..n PROVE \E j \in 1..n : from[j] = i
      <4>1. CASE i = 1
        BY <3>2, <4>1
      <4>2. CASE i = k
        BY <3>2, <4>2
      <4>3. CASE i # 1 /\ i < k
        <5>1. i + 1 \in 1..n /\ i + 1 # 1 /\ i + 1 # 2 /\ (i + 1) - 1 = i
          BY <1>2, <2>5, <4>3
        <5>2. from[i + 1] = i
          BY <4>3, <5>1
        <5> QED BY <5>1, <5>2
      <4>4. CASE i > k
        <5>1. i # 1 /\ i # 2 /\ ~(i - 1 < k)
          BY <1>2, <2>5, <4>4
        <5>2. from[i] = i
          BY <5>1
        <5> QED BY <5>2
      <4> QED BY <2>5, <4>1, <4>2, <4>3, <4>4
    <3>5. \A j \in 1..n : j # 2 => second[j] = rows[from[j]]
      <4> SUFFICES ASSUME NEW j \in 1..n, j # 2 PROVE second[j] = rows[from[j]]
        OBVIOUS
      <4>1. CASE j = 1
        <5>1. 1 \in 1..(n - 1) /\ 1 < k
          BY <1>2, <2>5
        <5>2. others[1] = rows[1]
          BY <2>8, <5>1
        <5> QED BY <3>1, <3>2, <4>1, <5>2
      <4>2. CASE j # 1
        <5>1. j - 1 \in 1..(n - 1) /\ (j - 1) + 1 = j
          BY <1>2, <4>2
        <5>2. others[j - 1] = rows[IF j - 1 < k THEN j - 1 ELSE j]
          BY <2>8, <5>1
        <5>3. second[j] = others[j - 1]
          BY <3>1, <4>2
        <5>4. from[j] = IF j - 1 < k THEN j - 1 ELSE j
          BY <4>2
        <5> QED BY <5>2, <5>3, <5>4
      <4> QED BY <4>1, <4>2
    <3> HIDE DEF from, second
    <3>6. second[2].uid = rows[from[2]].uid /\ second[2].name = second[2].uid
      BY <1>2, <2>3, <2>5, <2>7, <3>1, <3>2
    <3>7. RowsInOrder(second) /\ \A v : Listed(second, v) <=> Listed(rows, v)
      <4>1. Moved(rows, second, n, 2, from)
        BY <1>2, <2>5, <2>11, <3>1, <3>2, <3>3, <3>4, <3>5, <3>6 DEF Moved
      <4> QED BY <4>1, MovedRows
    <3>8. second # << >>
      BY <1>2, <3>1, EmptySeq
    <3>9. new = second
      BY <1>1, <1>4, <2>10 DEF second
    <3> QED BY <3>7, <3>8, <3>9
  <2> QED BY <2>9, <2>10
<1> QED BY <1>3, <1>4


-----------------------------------------------------------------------------
(* What is kept of the client, connected or not.                           *)

Known(c, u) == c.map_contacts[u] # None
AllKnown(c) == \A u \in Others : Known(c, u)

(* The map calls nobody by another's name, and has all who are listed.     *)
NamesRight(c) ==
    /\ \A u \in Users : Known(c, u) => c.map_contacts[u].name \in {None, u}
    /\ \A u \in Others : Listed(c.contacts, u) => Known(c, u) /\ c.map_contacts[u].name = u

(* A row of the conversation conv is in its place: see FiledRight.         *)
RowFiled(row, conv, rec) ==
    row.txt # 0 =>
        /\ row.txt \in DOMAIN rec
        /\ Concerns(rec[row.txt], Me, conv)
        /\ row.sentByMe <=> rec[row.txt].sendid = Me
        /\ row.name \in {None, rec[row.txt].sendid}

Filed(c, rec) ==
    \A conv \in Conversations : \A i \in DOMAIN c.records[conv] :
        RowFiled(c.records[conv][i], conv, rec)

Kept(c, rec) ==
    c \in ClientType /\ RowsInOrder(c.contacts) /\ NamesRight(c) /\ Filed(c, rec)

(* The name of a contact that is known is in one place: asked for, on its  *)
(* way, or listed.                                                         *)
OneName(known, listed, named, asked) ==
    /\ known <=> listed \/ named # {} \/ asked # {}
    /\ listed => named = {} /\ asked = {}
    /\ named # {} => asked = {}
    /\ \A i, j \in named : i = j
    /\ \A i, j \in asked : i = j

Accounted(c, que) ==
    \A u \in Others :
        OneName(Known(c, u), Listed(c.contacts, u), NamesIn(c.m_queue_uid, que, u),
                NamesAsked(c.up, u))

(* What is kept of it besides while it is connected.                       *)
Sound(c, que, rec) ==
    /\ Kept(c, rec)
    /\ c.contacts # << >>
    /\ Wired(c.m_queue_uid, que, c.up, rec)
    /\ Accounted(c, que)
    /\ \A u \in Others : Listed(c.contacts, u) => AllKnown(c)

(* Presence is told of everybody before anything that depends on it comes. *)
Depends(m) == m.type \in {\h91, \h92, \hA3}

Awaited(c, que) ==
    \A u \in Others :
        Known(c, u) \/ \E k \in 1..Len(que) :
                          /\ Mentions(que[k], u)
                          /\ \A i \in 1..k : ~Depends(que[i])

(* The notices and texts that are queued to Me are of others, and a text   *)
(* is the one that was saved.                                              *)
Spoken(m, rec) ==
    /\ m.type = \hA1 => m.uids \subseteq Others
    /\ m.type = \hA3 =>
         /\ m.rid \in DOMAIN rec /\ m.src \in Others
         /\ rec[m.rid].sendid = m.src
         /\ rec[m.rid].recvid = IF m.sub = 1 THEN ALL ELSE Me

AllSpoken(que, rec) == \A i \in 1..Len(que) : Spoken(que[i], rec)

Linked(c, que, rec, own) ==
    /\ Sound(c, que, rec)
    /\ own = Me => Awaited(c, que)
    /\ AllSpoken(que, rec)

(* The connection of the client.                                           *)
Joined ==
    /\ phase[sock] # "closed"
    /\ owner[sock] \in {None, Me}
    /\ phase[sock] = "fresh" => owner[sock] = None
    /\ phase[sock] = "asking" /\ owner[sock] = None => Terminal(Head(out.que[sock]))
    /\ phase[sock] = "in" => owner[sock] = Me
    /\ phase[sock] # "in" => page = "busy"
    /\ Linked(tc, out.que[sock], record, owner[sock])

(* The page that is shown, and the contact that is chosen.                 *)
Shown ==
    /\ page \in {"busy", "password", "main"}
    /\ uid \in Partners \cup {None}
    /\ page = "busy" => uid = None
    /\ uid \in Users => AllKnown(tc) /\ tc.m_to_uid = uid

CInv ==
    /\ sock \in Fd \cup {None}
    /\ Kept(tc, record)
    /\ Shown
    /\ sock = None => tc.up = << >> /\ page = "busy"
    /\ sock # None => Joined


-----------------------------------------------------------------------------
(* What the operations keep of it.                                         *)

LEMMA FrameTypes ==
    /\ \A id \in Partners : LET frame == [op |-> "chatrecord", uid |-> id]
                            IN  /\ frame \in AskFrames /\ frame.uid = id
                                /\ \A u : frame \notin NameFrames(u)
    /\ \A id \in Partners : LET frame == [op |-> "textmsg", uid |-> id]
                            IN  /\ frame \in Frame \ AskFrames
                                /\ \A u : frame \notin NameFrames(u)
    /\ \A id \in Others : LET frame == [op |-> "username", uid |-> id]
                          IN  /\ frame \in AskFrames /\ frame.uid = id
                              /\ \A u : frame \in NameFrames(u) <=> id = u
    /\ \A old, new \in Pwd : /\ PasswordFrame(old, new) \in Frame \ AskFrames
                             /\ \A u : PasswordFrame(old, new) \notin NameFrames(u)
<1>1. ASSUME NEW id \in Partners
      PROVE  LET frame == [op |-> "chatrecord", uid |-> id]
             IN  /\ frame \in AskFrames /\ frame.uid = id
                 /\ \A u : frame \notin NameFrames(u)
  BY DEF Frame, AskFrames, NameFrames
<1>2. ASSUME NEW id \in Partners
      PROVE  LET frame == [op |-> "textmsg", uid |-> id]
             IN  /\ frame \in Frame \ AskFrames
                 /\ \A u : frame \notin NameFrames(u)
  BY DEF Frame, AskFrames, NameFrames
<1>3. ASSUME NEW id \in Others
      PROVE  LET frame == [op |-> "username", uid |-> id]
             IN  /\ frame \in AskFrames /\ frame.uid = id
                 /\ \A u : frame \in NameFrames(u) <=> id = u
  BY DEF Frame, AskFrames, NameFrames
<1>4. ASSUME NEW old \in Pwd, NEW new \in Pwd
      PROVE  /\ PasswordFrame(old, new) \in Frame \ AskFrames
             /\ \A u : PasswordFrame(old, new) \notin NameFrames(u)
  BY DEF Frame, AskFrames, NameFrames, PasswordFrame
<1> QED BY <1>1, <1>2, <1>3, <1>4

(* What is kept depends on these parts of the client only.                 *)
LEMMA KeptParts ==
    ASSUME NEW c, NEW rec, Kept(c, rec), NEW d \in ClientType,
           d.map_contacts = c.map_contacts, d.contacts = c.contacts, d.records = c.records
    PROVE  /\ Kept(d, rec)
           /\ \A u : Known(d, u) <=> Known(c, u)
BY DEF Kept, NamesRight, Filed, Known

LEMMA AccountedParts ==
    ASSUME NEW c, NEW que, Accounted(c, que), NEW d, NEW quf,
           \A u : Known(d, u) <=> Known(c, u),
           \A u : Listed(d.contacts, u) <=> Listed(c.contacts, u),
           \A u : NamesIn(d.m_queue_uid, quf, u) = NamesIn(c.m_queue_uid, que, u),
           \A u : NamesAsked(d.up, u) = NamesAsked(c.up, u)
    PROVE  Accounted(d, quf)
BY DEF Accounted, OneName

(* How a client comes to show a text: it shows it, or has asked for the    *)
(* history of its conversation.                                            *)
HistoryFrame(conv) == [op |-> "chatrecord", uid |-> conv]

Shows(c, conv, rid) == \E i \in DOMAIN c.records[conv] : c.records[conv][i].txt = rid
Asks(c, conv)       == \E i \in DOMAIN c.up : c.up[i] = HistoryFrame(conv)

(* The texts sent and not handled yet, and the rows that were added for a  *)
(* text of its own when it was sent.                                       *)
TextsTo(up, conv) == Places(up, {[op |-> "textmsg", uid |-> conv]})
Added(rows)       == Places(rows, {row \in TextRow : row.txt = 0 /\ row.sentByMe})

(* d shows and asks for what c does, and has sent the same texts.          *)
Keeps(c, d) ==
    \A conv \in Partners :
        /\ \A rid : Shows(c, conv, rid) => Shows(d, conv, rid)
        /\ Asks(c, conv) => Asks(d, conv)
        /\ Cardinality(TextsTo(d.up, conv)) = Cardinality(TextsTo(c.up, conv))
        /\ Cardinality(Added(d.records[conv])) = Cardinality(Added(c.records[conv]))

(* Whoever d knows and c did not has been asked for a history.             *)
Ahead(c, d) ==
    /\ Keeps(c, d)
    /\ \A u \in Others : Known(c, u) => Known(d, u)
    /\ \A u \in Others : Known(d, u) => Known(c, u) \/ Asks(d, u)

LEMMA AheadSame ==
    ASSUME NEW c, NEW d, d.up = c.up, d.records = c.records
    PROVE  /\ Keeps(c, d)
           /\ (\A u \in Others : Known(d, u) <=> Known(c, u)) => Ahead(c, d)
BY DEF Keeps, Ahead, Shows, Asks

LEMMA AheadBoth ==
    ASSUME NEW c, NEW d, NEW e, Ahead(c, d), Ahead(d, e)
    PROVE  Ahead(c, e)
<1>1. Keeps(c, e)
  BY DEF Ahead, Keeps
<1>2. \A u \in Others : Known(e, u) => Known(c, u) \/ Asks(e, u)
  BY AllIsNoOther DEF Ahead, Keeps
<1> QED BY <1>1, <1>2 DEF Ahead

(* A request is written that is not a text.                                *)
LEMMA KeepsAsk ==
    ASSUME NEW c, c.up \in Seq(Frame), NEW frame \in Frame, frame.op # "textmsg",
           NEW d, d.up = Append(c.up, frame), d.records = c.records
    PROVE  /\ Keeps(c, d)
           /\ \A conv : frame = HistoryFrame(conv) => Asks(d, conv)
<1> DEFINE up == c.up
           longer == Append(up, frame)
<1>1. /\ up \in Seq(Frame) /\ frame \in Frame
      /\ longer \in Seq(Frame) /\ Len(longer) = Len(up) + 1 /\ Len(up) \in Nat
      /\ \A i \in 1..Len(up) : longer[i] = up[i]
      /\ longer[Len(up) + 1] = frame
  OBVIOUS
<1>2. DOMAIN longer = 1..(Len(up) + 1) /\ DOMAIN up = 1..Len(up)
  BY <1>1, LenProperties
<1>3. ASSUME NEW conv PROVE TextsTo(longer, conv) = TextsTo(up, conv)
  <2>1. frame \notin {[op |-> "textmsg", uid |-> conv]}
    OBVIOUS
  <2> QED BY <1>1, <2>1, PlacesAppend DEF TextsTo
<1>4. d.up = longer /\ c.up = up
  OBVIOUS
<1> HIDE DEF longer, up
<1>5. \A conv : Asks(c, conv) => Asks(d, conv)
  BY <1>1, <1>2, <1>4 DEF Asks
<1>6. \A conv : frame = HistoryFrame(conv) => Asks(d, conv)
  BY <1>1, <1>2, <1>4 DEF Asks
<1>7. Keeps(c, d)
  BY <1>3, <1>4, <1>5 DEF Keeps, Shows
<1> QED BY <1>6, <1>7

(* A row is added for a text that was saved.                               *)
LEMMA AddedMore ==
    ASSUME NEW rows \in Seq(TextRow), NEW row \in TextRow
    PROVE  LET more == <<row>> \o rows
           IN  /\ more \in Seq(TextRow) /\ Len(more) = Len(rows) + 1
               /\ more[1] = row /\ \A i \in 1..Len(rows) : more[i + 1] = rows[i]
               /\ Cardinality(Added(more)) =
                     Cardinality(Added(rows)) + IF row.txt = 0 /\ row.sentByMe THEN 1 ELSE 0
<1> DEFINE one == <<row>>
           more == one \o rows
           own == {r \in TextRow : r.txt = 0 /\ r.sentByMe}
           n == Len(rows)
<1>1. one \in Seq(TextRow) /\ Len(one) = 1 /\ one[1] = row
  OBVIOUS
<1>2. n \in Nat
  OBVIOUS
<1> HIDE DEF one
<1>3. /\ more \in Seq(TextRow) /\ Len(more) = 1 + n
      /\ \A i \in 1..(1 + n) : more[i] = IF i <= 1 THEN one[i] ELSE rows[i - 1]
  <2>1. /\ one \o rows \in Seq(TextRow) /\ Len(one \o rows) = Len(one) + Len(rows)
        /\ \A i \in 1..(Len(one) + Len(rows)) :
             (one \o rows)[i] = IF i <= Len(one) THEN one[i] ELSE rows[i - Len(one)]
    BY <1>1, ConcatProperties
  <2> QED BY <1>1, <2>1
<1>4. more[1] = row /\ \A i \in 1..n : more[i + 1] = rows[i]
  <2>1. 1 \in 1..(1 + n) /\ \A i \in 1..n : i + 1 \in 1..(1 + n) /\ ~(i + 1 <= 1)
                                             /\ (i + 1) - 1 = i
    BY <1>2
  <2> QED BY <1>1, <1>3, <2>1
<1> HIDE DEF more
<1>5. DOMAIN more = 1..(1 + n) /\ DOMAIN rows = 1..n
  BY <1>3, LenProperties
<1>6. Back(Added(more)) = Added(rows)
  <2> HIDE DEF n
  <2>1. \A i \in Nat : i >= 1 /\ i + 1 \in 1..(1 + n) <=> i \in 1..n
    BY <1>2
  <2>2. \A i \in 1..n : i \in Nat
    BY <1>2
  <2> HIDE DEF own
  <2>3. Added(more) = Places(more, own) /\ Added(rows) = Places(rows, own)
    BY DEF Added, own
  <2>4. \A i : i \in Back(Places(more, own)) <=> i \in Places(rows, own)
    BY <1>4, <1>5, <2>1, <2>2, Zenon DEF Places, Back
  <2>5. Back(Places(more, own)) = Places(rows, own)
    BY ONLY <2>4
  <2> QED BY ONLY <2>3, <2>5
<1>7. 1 \in Added(more) <=> row.txt = 0 /\ row.sentByMe
  <2>1. 1 \in DOMAIN more
    BY <1>2, <1>5
  <2> QED BY <1>4, <2>1 DEF Added, Places
<1>8. Added(more) \in SUBSET (1..(1 + n)) /\ 1 + n \in Nat
  BY <1>2, <1>5 DEF Added, Places
<1>9. /\ 1 \notin Added(more) => Cardinality(Added(rows)) = Cardinality(Added(more))
      /\ 1 \in Added(more) => Cardinality(Added(more)) = Cardinality(Added(rows)) + 1
  BY <1>6, <1>8, RankBack
<1>10. Cardinality(Added(rows)) \in Nat
  <2>1. Added(rows) \in SUBSET (1..n)
    BY <1>5 DEF Added, Places
  <2> QED BY <1>2, <2>1, RankType
<1> QED BY <1>2, <1>3, <1>4, <1>7, <1>9, <1>10 DEF more, one

LEMMA KeepsAdd ==
    ASSUME NEW c \in ClientType, NEW conv \in Conversations, NEW row \in TextRow,
           ~(row.txt = 0 /\ row.sentByMe),
           NEW d, d.up = c.up,
           d.records = [c.records EXCEPT ![conv] = <<row>> \o c.records[conv]]
    PROVE  Keeps(c, d) /\ Shows(d, conv, row.txt)
<1> DEFINE rows == c.records[conv]
           more == <<row>> \o rows
<1>1. c.records \in [Conversations -> Seq(TextRow)] /\ rows \in Seq(TextRow)
  BY DEF ClientType
<1> HIDE DEF rows
<1>2. /\ more \in Seq(TextRow) /\ Len(more) = Len(rows) + 1
      /\ more[1] = row /\ \A i \in 1..Len(rows) : more[i + 1] = rows[i]
      /\ Cardinality(Added(more)) = Cardinality(Added(rows)) + 0
  BY <1>1, AddedMore
<1>3. Cardinality(Added(more)) = Cardinality(Added(rows))
  <2>1. DOMAIN rows = 1..Len(rows) /\ Len(rows) \in Nat
    BY <1>1, LenProperties
  <2>2. Added(rows) \in SUBSET (1..Len(rows))
    BY <2>1 DEF Added, Places
  <2>3. Cardinality(Added(rows)) \in Nat
    BY <2>1, <2>2, RankType
  <2> QED BY <1>2, <2>3
<1>4. d.records = [c.records EXCEPT ![conv] = more]
  BY DEF rows
<1> HIDE DEF more
<1>5. /\ d.records[conv] = more
      /\ \A other : other \in Conversations /\ other # conv =>
             d.records[other] = c.records[other]
  BY <1>1, <1>4
<1>6. DOMAIN more = 1..(Len(rows) + 1) /\ DOMAIN rows = 1..Len(rows) /\ Len(rows) \in Nat
  BY <1>1, <1>2, LenProperties
<1>7. Shows(d, conv, row.txt)
  <2>1. 1 \in DOMAIN more
    BY <1>6
  <2> QED BY <1>2, <1>5, <2>1 DEF Shows
<1>8. ASSUME NEW rid, Shows(c, conv, rid) PROVE Shows(d, conv, rid)
  <2>1. PICK i \in DOMAIN rows : rows[i].txt = rid
    BY <1>8 DEF Shows, rows
  <2>2. i + 1 \in DOMAIN more /\ more[i + 1] = rows[i]
    BY <1>2, <1>6, <2>1
  <2> QED BY <1>5, <2>1, <2>2 DEF Shows
<1>9. \A other \in Partners : other \in Conversations
  BY DEF Partners, Others, Conversations
<1>10. \A other \in Partners : Asks(c, other) => Asks(d, other)
  BY DEF Asks
<1>11. ASSUME NEW other \in Partners, NEW rid, Shows(c, other, rid)
       PROVE  Shows(d, other, rid)
  <2>1. CASE other = conv
    BY <1>8, <1>11, <2>1
  <2>2. CASE other # conv
    <3>1. d.records[other] = c.records[other]
      BY <1>5, <1>9, <2>2
    <3> QED BY <1>11, <3>1 DEF Shows
  <2> QED BY <2>1, <2>2
<1>12. \A other \in Partners :
          Cardinality(Added(d.records[other])) = Cardinality(Added(c.records[other]))
  BY <1>3, <1>5, <1>9 DEF rows
<1> QED BY <1>7, <1>10, <1>11, <1>12 DEF Keeps

(* A history is asked for.                                                 *)
LEMMA AskHistorySound ==
    ASSUME NEW c, NEW que, NEW rec, Sound(c, que, rec), NEW id \in Partners
    PROVE  LET d == GetChatHistory(c, id)
           IN  /\ Sound(d, que, rec) /\ \A u : Known(d, u) <=> Known(c, u)
               /\ Ahead(c, d) /\ Asks(d, id)
<1> DEFINE d == GetChatHistory(c, id)
           frame == [op |-> "chatrecord", uid |-> id]
<1>1. c \in ClientType /\ Kept(c, rec) /\ Wired(c.m_queue_uid, que, c.up, rec)
  BY DEF Sound, Kept
<1>2. frame \in AskFrames /\ frame \in Frame /\ frame.uid = id /\ \A u : frame \notin NameFrames(u)
  BY FrameTypes DEF AskFrames
<1> HIDE DEF frame
<1>3. /\ d \in ClientType
      /\ d.m_queue_uid = Append(c.m_queue_uid, id) /\ d.up = Append(c.up, frame)
      /\ d.map_contacts = c.map_contacts /\ d.contacts = c.contacts /\ d.records = c.records
  <2>1. d = [c EXCEPT !.m_queue_uid = Append(@, id), !.m_to_uid = id, !.up = Append(@, frame)]
    BY <1>1 DEF GetChatHistory, Ask, SendFrame, ClientType, frame
  <2> HIDE DEF d
  <2>2. Append(c.m_queue_uid, id) \in Seq(Partners) /\ Append(c.up, frame) \in Seq(Frame)
    BY <1>1, <1>2 DEF ClientType
  <2> QED BY <1>1, <2>1, <2>2 DEF ClientType
<1> HIDE DEF d
<1>4. Kept(d, rec) /\ \A u : Known(d, u) <=> Known(c, u)
  BY <1>1, <1>3, KeptParts
<1>5. /\ Wired(d.m_queue_uid, que, d.up, rec)
      /\ \A u : NamesIn(d.m_queue_uid, que, u) = NamesIn(c.m_queue_uid, que, u)
  BY <1>1, <1>2, <1>3, WiredAsk
<1>6. \A u : NamesAsked(d.up, u) = NamesAsked(c.up, u)
  BY <1>1, <1>2, <1>3, PlacesAppend DEF NamesAsked, Wired
<1>7. Accounted(d, que)
  <2>1. Accounted(c, que) /\ \A u : Listed(d.contacts, u) <=> Listed(c.contacts, u)
    BY <1>3 DEF Sound
  <2> QED BY <1>4, <1>5, <1>6, <2>1, AccountedParts
<1>8. Sound(d, que, rec)
  BY <1>3, <1>4, <1>5, <1>7 DEF Sound, AllKnown
<1>9. Keeps(c, d) /\ Asks(d, id)
  <2>1. frame = HistoryFrame(id) /\ c.up \in Seq(Frame)
    BY <1>1 DEF frame, HistoryFrame, ClientType
  <2>2. frame \in Frame /\ frame.op # "textmsg"
    BY <1>2 DEF frame
  <2> QED BY <1>2, <1>3, <2>1, <2>2, KeepsAsk
<1> QED BY <1>4, <1>8, <1>9 DEF d, Ahead

(* A frame is written that asks for neither.                               *)
LEMMA SendSound ==
    ASSUME NEW c, NEW que, NEW rec, Sound(c, que, rec), NEW frame \in Frame \ AskFrames,
           \A u : frame \notin NameFrames(u)
    PROVE  LET d == SendFrame(c, frame)
           IN  Sound(d, que, rec) /\ \A u : Known(d, u) <=> Known(c, u)
<1> DEFINE d == SendFrame(c, frame)
<1>1. c \in ClientType /\ Kept(c, rec) /\ Wired(c.m_queue_uid, que, c.up, rec)
  BY DEF Sound, Kept
<1>2. /\ d \in ClientType
      /\ d.m_queue_uid = c.m_queue_uid /\ d.up = Append(c.up, frame)
      /\ d.map_contacts = c.map_contacts /\ d.contacts = c.contacts /\ d.records = c.records
  <2>1. Append(c.up, frame) \in Seq(Frame)
    BY <1>1 DEF ClientType
  <2> QED BY <1>1, <2>1 DEF ClientType, SendFrame
<1> HIDE DEF d
<1>3. Kept(d, rec) /\ \A u : Known(d, u) <=> Known(c, u)
  BY <1>1, <1>2, KeptParts
<1>4. Wired(d.m_queue_uid, que, d.up, rec)
  BY <1>1, <1>2, WiredSend
<1>5. \A u : NamesAsked(d.up, u) = NamesAsked(c.up, u)
  BY <1>1, <1>2, PlacesAppend DEF NamesAsked, Wired
<1>6. Accounted(d, que)
  <2>1. Accounted(c, que) /\ \A u : Listed(d.contacts, u) <=> Listed(c.contacts, u)
    BY <1>2 DEF Sound
  <2>2. \A u : NamesIn(d.m_queue_uid, que, u) = NamesIn(c.m_queue_uid, que, u)
    BY <1>2
  <2> QED BY <1>3, <1>5, <2>1, <2>2, AccountedParts
<1>7. Sound(d, que, rec)
  BY <1>2, <1>3, <1>4, <1>6 DEF Sound, AllKnown
<1> QED BY <1>3, <1>7 DEF d

(* A row is added to the conversation it belongs to.                       *)
LEMMA AddSound ==
    ASSUME NEW c, NEW que, NEW rec, Sound(c, que, rec), NEW conv \in Conversations,
           NEW row \in TextRow, RowFiled(row, conv, rec)
    PROVE  LET d == AddRecord(c, conv, row)
           IN  /\ Sound(d, que, rec) /\ \A u : Known(d, u) <=> Known(c, u)
               /\ d.m_to_uid = c.m_to_uid /\ d.map_contacts = c.map_contacts
               /\ d.up = c.up
               /\ d.records = [c.records EXCEPT ![conv] = <<row>> \o c.records[conv]]
<1> DEFINE d == AddRecord(c, conv, row)
           rows == c.records[conv]
           more == <<row>> \o rows
           n == Len(rows)
<1>1. c \in ClientType /\ Kept(c, rec) /\ Filed(c, rec)
  BY DEF Sound, Kept
<1>2. rows \in Seq(TextRow) /\ n \in Nat /\ DOMAIN rows = 1..n
  <2>1. rows \in Seq(TextRow)
    BY <1>1 DEF ClientType
  <2> QED BY <2>1, LenProperties
<1>3. more \in Seq(TextRow) /\ \A i \in DOMAIN more : RowFiled(more[i], conv, rec)
  <2> DEFINE one == <<row>>
  <2>1. one \in Seq(TextRow) /\ Len(one) = 1 /\ one[1] = row
    OBVIOUS
  <2>2. \A i \in 1..n : RowFiled(rows[i], conv, rec)
    BY <1>1, <1>2 DEF Filed
  <2> HIDE DEF one, rows, n
  <2>3. /\ one \o rows \in Seq(TextRow) /\ Len(one \o rows) = Len(one) + Len(rows)
        /\ \A i \in 1..(Len(one) + Len(rows)) :
             (one \o rows)[i] = IF i <= Len(one) THEN one[i] ELSE rows[i - Len(one)]
    BY <1>2, <2>1, ConcatProperties
  <2>4. more = one \o rows
    BY DEF one, rows
  <2> HIDE DEF more
  <2>5. DOMAIN more = 1..(1 + n)
    BY <2>1, <2>3, <2>4, LenProperties DEF n
  <2>6. ASSUME NEW i \in 1..(1 + n) PROVE RowFiled(more[i], conv, rec)
    <3>1. CASE i = 1
      <4>1. more[i] = row
        BY <1>2, <2>1, <2>3, <2>4, <3>1 DEF n
      <4> QED BY <4>1
    <3>2. CASE i # 1
      <4>1. i - 1 \in 1..n /\ ~(i <= 1)
        BY <1>2, <3>2
      <4>2. more[i] = rows[i - 1]
        BY <2>1, <2>3, <2>4, <4>1 DEF n
      <4> QED BY <2>2, <4>1, <4>2
    <3> QED BY <3>1, <3>2
  <2> QED BY <2>3, <2>4, <2>5, <2>6
<1>4. d = [c EXCEPT !.records[conv] = more]
  BY DEF AddRecord
<1> HIDE DEF more, rows, n, d
<1>5. /\ d \in ClientType
      /\ d.m_queue_uid = c.m_queue_uid /\ d.up = c.up /\ d.m_to_uid = c.m_to_uid
      /\ d.map_contacts = c.map_contacts /\ d.contacts = c.contacts
      /\ d.records = [c.records EXCEPT ![conv] = more]
  <2>1. [c.records EXCEPT ![conv] = more] \in [Conversations -> Seq(TextRow)]
    BY <1>1, <1>3 DEF ClientType
  <2> QED BY <1>1, <1>4, <2>1 DEF ClientType
<1>6. Filed(d, rec)
  BY <1>1, <1>3, <1>5 DEF Filed, ClientType
<1>7. Kept(d, rec) /\ \A u : Known(d, u) <=> Known(c, u)
  BY <1>1, <1>5, <1>6 DEF Kept, NamesRight, Known
<1>8. Accounted(d, que)
  <2>1. /\ Accounted(c, que)
        /\ \A u : Listed(d.contacts, u) <=> Listed(c.contacts, u)
        /\ \A u : NamesIn(d.m_queue_uid, que, u) = NamesIn(c.m_queue_uid, que, u)
        /\ \A u : NamesAsked(d.up, u) = NamesAsked(c.up, u)
    BY <1>5 DEF Sound
  <2> QED BY <1>7, <2>1, AccountedParts
<1>9. Sound(d, que, rec)
  BY <1>5, <1>7, <1>8 DEF Sound, AllKnown
<1> QED BY <1>5, <1>7, <1>9 DEF d, more, rows


(* fetchUserStates of a contact that is known: its row moves.              *)
LEMMA RefreshSound ==
    ASSUME NEW c, NEW que, NEW rec, Sound(c, que, rec), NEW is_offline \in BOOLEAN,
           NEW u \in Others, Known(c, u)
    PROVE  LET d == [c EXCEPT !.contacts =
                       UpdateContact(@, u, is_offline, c.map_contacts[u].name)]
           IN  /\ Sound(d, que, rec) /\ \A v : Known(d, v) <=> Known(c, v)
               /\ d.m_to_uid = c.m_to_uid /\ Ahead(c, d)
<1> DEFINE new == UpdateContact(c.contacts, u, is_offline, c.map_contacts[u].name)
           d == [c EXCEPT !.contacts = UpdateContact(@, u, is_offline, c.map_contacts[u].name)]
<1>1. c \in ClientType /\ Kept(c, rec) /\ RowsInOrder(c.contacts) /\ c.contacts # << >>
  BY DEF Sound, Kept
<1>2. Listed(c.contacts, u) => c.map_contacts[u].name = u
  BY DEF Sound, Kept, NamesRight
<1>3. /\ RowsInOrder(new) /\ new # << >>
      /\ \A v : Listed(new, v) <=> Listed(c.contacts, v)
  BY <1>1, <1>2, UpdateRows
<1>4. d = [c EXCEPT !.contacts = new]
  BY <1>1 DEF ClientType
<1> HIDE DEF new, d
<1>5. /\ d \in ClientType
      /\ d.m_queue_uid = c.m_queue_uid /\ d.up = c.up /\ d.m_to_uid = c.m_to_uid
      /\ d.map_contacts = c.map_contacts /\ d.records = c.records
      /\ d.contacts = new
  <2>1. new \in Seq(ContactRow)
    BY <1>3 DEF RowsInOrder
  <2> QED BY <1>1, <1>4, <2>1 DEF ClientType
<1>6. \A v : Known(d, v) <=> Known(c, v)
  BY <1>5 DEF Known
<1>7. Kept(d, rec)
  BY <1>1, <1>3, <1>5, <1>6 DEF Kept, NamesRight, Filed
<1>8. Accounted(d, que)
  <2>1. /\ Accounted(c, que)
        /\ \A v : Listed(d.contacts, v) <=> Listed(c.contacts, v)
        /\ \A v : NamesIn(d.m_queue_uid, que, v) = NamesIn(c.m_queue_uid, que, v)
        /\ \A v : NamesAsked(d.up, v) = NamesAsked(c.up, v)
    BY <1>3, <1>5 DEF Sound
  <2> QED BY <1>6, <2>1, AccountedParts
<1>9. Sound(d, que, rec)
  BY <1>3, <1>5, <1>6, <1>7, <1>8 DEF Sound, AllKnown
<1>10. Ahead(c, d)
  BY <1>5, <1>6, AheadSame
<1> QED BY <1>5, <1>6, <1>9, <1>10 DEF d

(* fetchUserStates of one that is not: it is entered, and its name asked   *)
(* for.                                                                    *)
LEMMA MeetSound ==
    ASSUME NEW c, NEW que, NEW rec, Sound(c, que, rec), NEW is_offline \in BOOLEAN,
           NEW u \in Others, ~Known(c, u)
    PROVE  LET e == [Entered(c, u) EXCEPT !.map_contacts[u].is_offline = is_offline]
               d == GetUserName(e, u)
           IN  /\ Sound(d, que, rec) /\ \A v \in Users : Known(d, v) <=> Known(c, v) \/ v = u
               /\ Keeps(c, d)
<1> DEFINE e == [Entered(c, u) EXCEPT !.map_contacts[u].is_offline = is_offline]
           d == GetUserName(e, u)
           frame == [op |-> "username", uid |-> u]
           entry == [is_offline |-> is_offline, name |-> None]
           n == Len(c.up)
<1>1. /\ c \in ClientType /\ Kept(c, rec) /\ RowsInOrder(c.contacts) /\ c.contacts # << >>
      /\ NamesRight(c) /\ Filed(c, rec)
      /\ Wired(c.m_queue_uid, que, c.up, rec)
      /\ Accounted(c, que)
      /\ \A v \in Others : Listed(c.contacts, v) => AllKnown(c)
  BY DEF Sound, Kept
<1>2. frame \in AskFrames /\ frame \in Frame /\ frame.uid = u
      /\ \A v : frame \in NameFrames(v) <=> u = v
  BY FrameTypes DEF AskFrames
<1>3. u \in Users /\ u \in Partners
  BY AllIsNoOther
<1>4. /\ e.m_queue_uid = c.m_queue_uid /\ e.up = c.up /\ e.records = c.records
      /\ e.contacts = c.contacts /\ e.m_to_uid = c.m_to_uid
      /\ e.map_contacts = [c.map_contacts EXCEPT ![u] = entry]
      /\ e \in ClientType
  <2> DEFINE first == [is_offline |-> FALSE, name |-> None]
             entered == [c EXCEPT !.map_contacts[u] = first]
  <2>1. Entered(c, u) = entered
    BY DEF Entered, Known
  <2>2. /\ entered.m_queue_uid = c.m_queue_uid /\ entered.up = c.up
        /\ entered.records = c.records /\ entered.contacts = c.contacts
        /\ entered.m_to_uid = c.m_to_uid
        /\ entered.map_contacts = [c.map_contacts EXCEPT ![u] = first]
        /\ entered \in ClientType
    <3>1. first \in Entry
      BY DEF Entry
    <3> HIDE DEF first
    <3>2. [c.map_contacts EXCEPT ![u] = first] \in [Users -> Entry \cup {None}]
      BY <1>1, <1>3, <3>1 DEF ClientType
    <3> QED BY <1>1, <3>2 DEF ClientType
  <2>3. e = [entered EXCEPT !.map_contacts[u].is_offline = is_offline]
    BY <2>1
  <2> HIDE DEF entered, e
  <2>4. entered.map_contacts[u] = first
    BY <1>1, <1>3, <2>2 DEF ClientType
  <2>5. [entered.map_contacts EXCEPT ![u].is_offline = is_offline]
           = [c.map_contacts EXCEPT ![u] = entry]
    <3>1. [first EXCEPT !.is_offline = is_offline] = entry
      OBVIOUS
    <3> HIDE DEF first, entry
    <3>2. [entered.map_contacts EXCEPT ![u].is_offline = is_offline]
             = [entered.map_contacts EXCEPT ![u] = [first EXCEPT !.is_offline = is_offline]]
      BY <2>4
    <3>3. c.map_contacts \in [Users -> Entry \cup {None}]
      BY <1>1 DEF ClientType
    <3> QED BY <1>3, <2>2, <3>1, <3>2, <3>3
  <2>6. e.map_contacts = [c.map_contacts EXCEPT ![u] = entry]
    BY <2>2, <2>3, <2>5 DEF ClientType
  <2>7. entry \in Entry
    BY DEF Entry
  <2> HIDE DEF entry, first
  <2>8. [c.map_contacts EXCEPT ![u] = entry] \in [Users -> Entry \cup {None}]
    BY <1>1, <1>3, <2>7 DEF ClientType
  <2> QED BY <2>2, <2>3, <2>5, <2>6, <2>8 DEF ClientType
<1> HIDE DEF e, frame
<1>5. /\ d \in ClientType
      /\ d.m_queue_uid = Append(c.m_queue_uid, u) /\ d.up = Append(c.up, frame)
      /\ d.map_contacts = e.map_contacts /\ d.contacts = c.contacts /\ d.records = c.records
  <2>1. d = [e EXCEPT !.m_queue_uid = Append(@, u), !.m_to_uid = u, !.up = Append(@, frame)]
    BY <1>4 DEF GetUserName, Ask, SendFrame, ClientType, frame
  <2> HIDE DEF d
  <2>2. Append(e.m_queue_uid, u) \in Seq(Partners) /\ Append(e.up, frame) \in Seq(Frame)
    BY <1>2, <1>3, <1>4 DEF ClientType
  <2> QED BY <1>3, <1>4, <2>1, <2>2 DEF ClientType
<1>6. entry \in Entry /\ entry # None /\ entry.name = None
  BY DEF Entry
<1> HIDE DEF d, entry
<1>7. \A v \in Users : d.map_contacts[v] = IF v = u THEN entry ELSE c.map_contacts[v]
  BY <1>1, <1>4, <1>5 DEF ClientType
<1>8. \A v \in Users : Known(d, v) <=> Known(c, v) \/ v = u
  BY <1>6, <1>7 DEF Known
<1>9. ~Listed(c.contacts, u)
  BY <1>1 DEF NamesRight
<1>10. Kept(d, rec)
  <2>1. NamesRight(d)
    <3>1. \A v \in Users : Known(d, v) => d.map_contacts[v].name \in {None, v}
      BY <1>1, <1>6, <1>7, <1>8 DEF NamesRight
    <3>2. \A v \in Others : Listed(d.contacts, v) => Known(d, v) /\ d.map_contacts[v].name = v
      BY <1>1, <1>5, <1>7, <1>8, <1>9, AllIsNoOther DEF NamesRight
    <3> QED BY <3>1, <3>2 DEF NamesRight
  <2> QED BY <1>1, <1>5, <2>1 DEF Kept, Filed
<1>11. /\ Wired(d.m_queue_uid, que, d.up, rec)
       /\ \A v : NamesIn(d.m_queue_uid, que, v) = NamesIn(c.m_queue_uid, que, v)
  BY <1>1, <1>2, <1>3, <1>5, WiredAsk
<1>12. /\ \A v : v # u => NamesAsked(d.up, v) = NamesAsked(c.up, v)
       /\ NamesAsked(d.up, u) = NamesAsked(c.up, u) \cup {n + 1}
  BY <1>1, <1>2, <1>5, PlacesAppend DEF NamesAsked, Wired
<1> HIDE DEF n
<1>13. Accounted(d, que)
  <2> SUFFICES ASSUME NEW v \in Others
               PROVE  OneName(Known(d, v), Listed(d.contacts, v),
                              NamesIn(d.m_queue_uid, que, v), NamesAsked(d.up, v))
    BY DEF Accounted
  <2>1. OneName(Known(c, v), Listed(c.contacts, v),
                NamesIn(c.m_queue_uid, que, v), NamesAsked(c.up, v))
    BY <1>1 DEF Accounted
  <2>2. Listed(d.contacts, v) <=> Listed(c.contacts, v)
    BY <1>5
  <2>3. CASE v # u
    <3>1. Known(d, v) <=> Known(c, v)
      BY <1>8, <2>3, AllIsNoOther
    <3> QED BY <1>11, <1>12, <2>1, <2>2, <2>3, <3>1 DEF OneName
  <2>4. CASE v = u
    <3>1. Known(d, v) /\ ~Listed(d.contacts, v)
      BY <1>3, <1>8, <1>9, <2>2, <2>4
    <3>2. NamesIn(c.m_queue_uid, que, v) = {} /\ NamesAsked(c.up, v) = {}
      BY <2>1, <2>4 DEF OneName
    <3>3. NamesIn(d.m_queue_uid, que, v) = {} /\ NamesAsked(d.up, v) = {n + 1}
      BY <1>11, <1>12, <2>4, <3>2
    <3> QED BY <3>1, <3>3 DEF OneName
  <2> QED BY <2>3, <2>4
<1>14. Sound(d, que, rec)
  <2>1. \A v \in Others : Listed(d.contacts, v) => AllKnown(d)
    BY <1>1, <1>5 DEF AllKnown
  <2> QED BY <1>1, <1>5, <1>10, <1>11, <1>13, <2>1 DEF Sound
<1>15. Keeps(c, d)
  <2>1. c.up \in Seq(Frame)
    BY <1>1 DEF ClientType
  <2>2. frame.op # "textmsg"
    BY DEF frame
  <2> QED BY <1>2, <1>5, <2>1, <2>2, KeepsAsk
<1> QED BY <1>8, <1>14, <1>15 DEF d, e

(* fetchUserStates, for one contact.                                       *)
LEMMA FetchUserStateSound ==
    ASSUME NEW c, NEW que, NEW rec, Sound(c, que, rec), NEW is_offline \in BOOLEAN,
           NEW u \in Others
    PROVE  LET d == FetchUserState(c, is_offline, u)
           IN  /\ Sound(d, que, rec)
               /\ Known(d, u) /\ \A v \in Users : Known(c, v) => Known(d, v)
               /\ AllKnown(c) => d.m_to_uid = c.m_to_uid
               /\ Ahead(c, d)
<1>1. u \in Users /\ u \in Partners
  BY AllIsNoOther
<1>2. CASE Known(c, u)
  BY <1>2, RefreshSound DEF FetchUserState, Known
<1>3. CASE ~Known(c, u)
  <2> DEFINE e == [Entered(c, u) EXCEPT !.map_contacts[u].is_offline = is_offline]
             named == GetUserName(e, u)
             d == GetChatHistory(named, u)
  <2>1. FetchUserState(c, is_offline, u) = d
    BY <1>3 DEF FetchUserState, Known
  <2>2. /\ Sound(named, que, rec) /\ \A v \in Users : Known(named, v) <=> Known(c, v) \/ v = u
        /\ Keeps(c, named)
    BY <1>3, MeetSound
  <2> HIDE DEF named
  <2>3. /\ Sound(d, que, rec) /\ \A v : Known(d, v) <=> Known(named, v)
        /\ Ahead(named, d) /\ Asks(d, u)
    BY <1>1, <2>2, AskHistorySound
  <2> HIDE DEF d
  <2>4. ~AllKnown(c)
    BY <1>3 DEF AllKnown
  <2>5. Ahead(c, d)
    <3>1. Keeps(c, d)
      BY <2>2, <2>3 DEF Ahead, Keeps
    <3>2. \A v \in Others : /\ Known(c, v) => Known(d, v)
                            /\ Known(d, v) => Known(c, v) \/ Asks(d, v)
      BY <2>2, <2>3, AllIsNoOther
    <3> QED BY <3>1, <3>2 DEF Ahead
  <2> QED BY <1>1, <2>1, <2>2, <2>3, <2>4, <2>5
<1> QED BY <1>2, <1>3


-----------------------------------------------------------------------------
(* The loops over a payload.                                               *)

(* A set of naturals that is not empty has a least element.                *)
LEMMA LeastOf ==
    ASSUME NEW T \in SUBSET Nat, T # {}
    PROVE  \E x \in T : \A y \in T : x <= y
<1> DEFINE R == {ss \in Nat \X Nat : ss[1] < ss[2]}
<1>1. IsWellFoundedOn(R, Nat)
  BY NatLessThanWellFounded DEF OpToRel
<1>2. PICK x \in T : \A y \in T : <<y, x>> \notin R
  <2> HIDE DEF R
  <2> QED BY <1>1, WFMin
<1>3. ASSUME NEW y \in T PROVE x <= y
  <2>1. <<y, x>> \in Nat \X Nat
    BY <1>2
  <2>2. ~(y < x)
    BY <1>2, <2>1, Zenon
  <2> QED BY <2>1, <2>2
<1> QED BY <1>3

(* What is true at first and kept by each pass is true after each.         *)
LEMMA EachPass ==
    ASSUME NEW n \in Nat, NEW T, 0 \in T, \A i \in 1..n : i - 1 \in T => i \in T
    PROVE  \A i \in 0..n : i \in T
<1> DEFINE bad == (0..n) \ T
<1>1. SUFFICES ASSUME bad # {} PROVE FALSE
  OBVIOUS
<1>2. bad \in SUBSET Nat
  OBVIOUS
<1> HIDE DEF bad
<1>3. PICK x \in bad : \A y \in bad : x <= y
  BY <1>1, <1>2, LeastOf
<1>4. x \in 0..n /\ x \notin T
  BY DEF bad
<1>5. x \in 1..n /\ x - 1 \in 0..n /\ ~(x <= x - 1)
  <2>1. x # 0
    BY <1>4
  <2> QED BY <1>4, <2>1
<1>6. x - 1 \in T
  BY <1>3, <1>5 DEF bad
<1> QED BY <1>4, <1>5, <1>6

(* The results of the passes of a loop.                                    *)
Passes(n, c, step, f) ==
    f[0] = c /\ \A i \in 1..n : f[i] = step[i][f[i - 1]]

LEMMA LoopExists ==
    ASSUME NEW n \in Nat, NEW S, NEW c \in S, NEW step \in [1..n -> [S -> S]]
    PROVE  \E f \in [0..n -> S] : Passes(n, c, step, f)
<1> DEFINE T == {m \in 0..n : \E f \in [0..m -> S] : Passes(m, c, step, f)}
<1>1. 0 \in T
  <2> DEFINE f == [i \in 0..0 |-> c]
  <2>1. f \in [0..0 -> S] /\ Passes(0, c, step, f)
    BY DEF Passes
  <2> HIDE DEF f
  <2> QED BY <2>1
<1>2. ASSUME NEW m \in 1..n, m - 1 \in T PROVE m \in T
  <2>1. PICK f \in [0..(m - 1) -> S] : Passes(m - 1, c, step, f)
    BY <1>2
  <2>2. f[m - 1] \in S /\ step[m][f[m - 1]] \in S
    OBVIOUS
  <2> DEFINE g == [i \in 0..m |-> IF i = m THEN step[m][f[m - 1]] ELSE f[i]]
  <2>3. g \in [0..m -> S]
    BY <2>2
  <2>4. \A i \in 0..(m - 1) : i \in 0..m /\ i # m
    OBVIOUS
  <2>5. g[m] = step[m][f[m - 1]] /\ \A i \in 0..(m - 1) : g[i] = f[i]
    BY <2>4
  <2> HIDE DEF g
  <2>6. ASSUME NEW i \in 1..m PROVE g[i] = step[i][g[i - 1]]
    <3>1. g[i - 1] = f[i - 1]
      <4>1. i - 1 \in 0..(m - 1)
        OBVIOUS
      <4> QED BY <2>5, <4>1
    <3>2. CASE i = m
      BY <2>5, <3>1, <3>2
    <3>3. CASE i # m
      <4>1. i \in 1..(m - 1) /\ i \in 0..(m - 1)
        BY <3>3
      <4> QED BY <2>1, <2>5, <3>1, <4>1 DEF Passes
    <3> QED BY <3>2, <3>3
  <2>7. g[0] = c
    <3>1. 0 \in 0..(m - 1)
      OBVIOUS
    <3> QED BY <2>1, <2>5, <3>1 DEF Passes
  <2>8. Passes(m, c, step, g)
    BY <2>6, <2>7 DEF Passes
  <2>9. m \in 0..n
    OBVIOUS
  <2> QED BY <2>3, <2>8, <2>9
<1> HIDE DEF T
<1>3. n \in T
  <2>1. \A i \in 1..n : i - 1 \in T => i \in T
    BY <1>2
  <2>2. n \in 0..n
    OBVIOUS
  <2>3. \A i \in 0..n : i \in T
    BY ZenonT(30), <1>1, <2>1, EachPass
  <2> QED BY <2>2, <2>3
<1> QED BY <1>3 DEF T

(* fetchUserStates, for all contacts of the payload.                       *)
LEMMA UserListSound ==
    ASSUME NEW c, NEW que, NEW rec, Sound(c, que, rec), NEW is_offline \in BOOLEAN,
           NEW uids \in SUBSET Others, NEW order \in Orders(uids)
    PROVE  LET d == ParseUserListState(c, is_offline, order)
           IN  /\ Sound(d, que, rec)
               /\ \A u \in uids : Known(d, u)
               /\ \A v \in Users : Known(c, v) => Known(d, v)
               /\ AllKnown(c) => d.m_to_uid = c.m_to_uid
               /\ Ahead(c, d)
<1> DEFINE n == Cardinality(uids)
           S == {d \in ClientType : Sound(d, que, rec)}
           step == [i \in 1..n |-> [d \in S |-> FetchUserState(d, is_offline, order[i])]]
           after == CHOOSE f : f = [i \in 0..n |->
                      IF i = 0 THEN c ELSE FetchUserState(f[i - 1], is_offline, order[i])]
<1>1. n \in Nat /\ order \in [1..n -> uids] /\ {order[i] : i \in 1..n} = uids /\ Len(order) = n
  <2>1. n \in Nat
    BY FS_Subset, FS_CardinalityType, AllIsNoOther
  <2>2. order \in [1..n -> uids] /\ {order[i] : i \in DOMAIN order} = uids
    BY DEF Orders
  <2> HIDE DEF n
  <2>3. order \in Seq(uids)
    BY <2>1, <2>2, SeqDef
  <2> QED BY <2>1, <2>2, <2>3, LenProperties
<1>2. ParseUserListState(c, is_offline, order) = after[n]
  BY <1>1 DEF ParseUserListState
<1> HIDE DEF n
<1>3. c \in S /\ \A d \in S : Sound(d, que, rec)
  BY DEF Sound, Kept
<1>4. \A d : Sound(d, que, rec) => d \in S
  BY DEF Sound, Kept
<1>5. \A i \in 1..n : order[i] \in Others
  BY <1>1
<1>6. \A i \in 1..n : \A d \in S : FetchUserState(d, is_offline, order[i]) \in S
  BY <1>3, <1>4, <1>5, FetchUserStateSound
<1> HIDE DEF S
<1>7. /\ step \in [1..n -> [S -> S]]
      /\ \A i \in 1..n : \A d \in S : step[i][d] = FetchUserState(d, is_offline, order[i])
  BY <1>6
<1> HIDE DEF step
<1>8. PICK f \in [0..n -> S] : Passes(n, c, step, f)
  BY <1>1, <1>3, <1>7, LoopExists
<1>9. f = [i \in 0..n |-> IF i = 0 THEN c ELSE FetchUserState(f[i - 1], is_offline, order[i])]
  <2>1. ASSUME NEW i \in 0..n, i # 0
        PROVE  f[i] = FetchUserState(f[i - 1], is_offline, order[i])
    <3>1. i \in 1..n /\ i - 1 \in 0..n
      BY <1>1, <2>1
    <3> QED BY <1>7, <1>8, <3>1 DEF Passes
  <2> QED BY <1>8, <2>1 DEF Passes
<1>10. after = [i \in 0..n |->
                  IF i = 0 THEN c ELSE FetchUserState(after[i - 1], is_offline, order[i])]
  BY <1>9
<1> HIDE DEF after
<1> DEFINE P(i) == /\ Sound(after[i], que, rec)
                   /\ \A v \in Users : Known(c, v) => Known(after[i], v)
                   /\ \A j \in 1..i : Known(after[i], order[j])
                   /\ AllKnown(c) => after[i].m_to_uid = c.m_to_uid
                   /\ Ahead(c, after[i])
           T == {i \in 0..n : P(i)}
<1>11. 0 \in T
  <2>1. after[0] = c /\ 0 \in 0..n
    BY <1>1, <1>10
  <2>2. Ahead(c, c)
    BY AheadSame
  <2> QED BY <2>1, <2>2
<1>12. ASSUME NEW i \in 1..n, i - 1 \in T PROVE i \in T
  <2>1. i \in 0..n /\ i # 0 /\ i - 1 \in 0..n /\ order[i] \in Others
    BY <1>1, <1>5
  <2>2. after[i] = FetchUserState(after[i - 1], is_offline, order[i])
    BY <1>10, <2>1
  <2> DEFINE d == after[i - 1]
             e == after[i]
  <2>3. /\ Sound(d, que, rec)
        /\ \A v \in Users : Known(c, v) => Known(d, v)
        /\ \A j \in 1..(i - 1) : Known(d, order[j])
        /\ AllKnown(c) => d.m_to_uid = c.m_to_uid
        /\ Ahead(c, d)
    BY <1>12
  <2> HIDE DEF T, P, d, e
  <2>4. /\ Sound(e, que, rec)
        /\ Known(e, order[i]) /\ \A v \in Users : Known(d, v) => Known(e, v)
        /\ AllKnown(d) => e.m_to_uid = d.m_to_uid
        /\ Ahead(d, e)
    BY <2>1, <2>2, <2>3, FetchUserStateSound DEF d, e
  <2>5. \A j \in 1..i : Known(e, order[j])
    <3> SUFFICES ASSUME NEW j \in 1..i PROVE Known(e, order[j])
      OBVIOUS
    <3>1. j \in 1..n /\ order[j] \in Users
      BY <1>1, <1>5, AllIsNoOther
    <3>2. j = i \/ j \in 1..(i - 1)
      OBVIOUS
    <3> QED BY <2>3, <2>4, <3>1, <3>2
  <2>6. AllKnown(c) => e.m_to_uid = c.m_to_uid
    BY <2>3, <2>4, AllIsNoOther DEF AllKnown
  <2>7. Ahead(c, e)
    BY <2>3, <2>4, AheadBoth
  <2>8. P(i)
    BY <2>3, <2>4, <2>5, <2>6, <2>7 DEF P, e
  <2> QED BY <2>1, <2>8 DEF T
<1> HIDE DEF T
<1>13. n \in T
  <2>1. \A i \in 1..n : i - 1 \in T => i \in T
    BY <1>12
  <2>2. n \in 0..n
    BY <1>1
  <2>3. \A i \in 0..n : i \in T
    BY ZenonT(30), <1>1, <1>11, <2>1, EachPass
  <2> QED BY <2>2, <2>3
<1>14. P(n)
  BY <1>13 DEF T
<1> HIDE DEF P
<1>15. \A u \in uids : Known(after[n], u)
  <2>1. \A u \in uids : \E j \in 1..n : order[j] = u
    BY <1>1
  <2> QED BY <1>14, <2>1 DEF P
<1> QED BY <1>2, <1>14, <1>15 DEF P


-----------------------------------------------------------------------------
(* The head of the queue is taken.                                         *)

LEMMA BackOf ==
    ASSUME NEW n \in Nat, NEW S \in SUBSET (1..n)
    PROVE  /\ 1 \notin S => (S = {} <=> Back(S) = {})
           /\ (\A i, j \in S : i = j) => \A i, j \in Back(S) : i = j
           /\ 1 \in S /\ (\A i, j \in S : i = j) => Back(S) = {}
<1>1. \A i \in Back(S) : i \in Nat /\ i >= 1 /\ i + 1 \in S
  BY DEF Back
<1>2. ASSUME NEW i \in S, i # 1 PROVE i - 1 \in Back(S)
  BY <1>2 DEF Back
<1>3. 1 \notin S => (S = {} <=> Back(S) = {})
  <2>1. ASSUME 1 \notin S, NEW i \in S PROVE i - 1 \in Back(S)
    BY <1>2, <2>1
  <2> QED BY <1>1, <2>1
<1>4. ASSUME \A i, j \in S : i = j PROVE \A i, j \in Back(S) : i = j
  <2> SUFFICES ASSUME NEW i \in Back(S), NEW j \in Back(S) PROVE i = j
    OBVIOUS
  <2>1. i + 1 \in S /\ j + 1 \in S /\ i \in Nat /\ j \in Nat
    BY <1>1
  <2>2. i + 1 = j + 1
    BY <1>4, <2>1
  <2> QED BY <2>1, <2>2
<1>5. ASSUME 1 \in S, \A i, j \in S : i = j PROVE Back(S) = {}
  <2>1. ASSUME NEW i \in Back(S) PROVE FALSE
    <3>1. i + 1 = 1 /\ i \in Nat /\ i >= 1
      BY <1>1, <1>5, <2>1
    <3> QED BY <3>1
  <2> QED BY <2>1
<1> QED BY <1>3, <1>4, <1>5

LEMMA NamesInPlaces ==
    ASSUME NEW ids, NEW que \in Seq(Message), NEW u
    PROVE  NamesIn(ids, que, u) \in SUBSET (1..Len(que)) /\ Len(que) \in Nat
<1>1. Len(que) \in Nat /\ DOMAIN que = 1..Len(que)
  BY LenProperties
<1> QED BY <1>1 DEF NamesIn, AnswersIn

(* A contact whose name is not the one that comes.                         *)
LEMMA OneNameTaken ==
    ASSUME NEW ids, NEW que \in Seq(Message), NEW u, NEW c, NEW asked,
           1 \notin NamesIn(ids, que, u),
           OneName(Known(c, u), Listed(c.contacts, u), NamesIn(ids, que, u), asked)
    PROVE  OneName(Known(c, u), Listed(c.contacts, u), Back(NamesIn(ids, que, u)), asked)
<1> DEFINE S == NamesIn(ids, que, u)
<1>1. S \in SUBSET (1..Len(que)) /\ Len(que) \in Nat
  BY NamesInPlaces
<1> HIDE DEF S
<1>2. /\ 1 \notin S => (S = {} <=> Back(S) = {})
      /\ (\A i, j \in S : i = j) => \A i, j \in Back(S) : i = j
  BY <1>1, BackOf
<1> QED BY <1>2 DEF OneName, S

(* A notice, or a reply that is no AnswerMessage.                          *)
LEMMA TakeSound ==
    ASSUME NEW c, NEW que, NEW rec, Sound(c, que, rec),
           que # << >>, Head(que) \notin AnswerMessages
    PROVE  Sound(c, Tail(que), rec)
<1> DEFINE ids == c.m_queue_uid
<1>1. /\ Wired(ids, que, c.up, rec) /\ Accounted(c, que) /\ que \in Seq(Message)
      /\ c.up \in Seq(Frame)
  BY DEF Sound, Wired
<1>2. /\ Wired(ids, Tail(que), c.up, rec)
      /\ \A u : NamesIn(ids, Tail(que), u) = Back(NamesIn(ids, que, u))
  BY <1>1, WiredTake
<1>3. 1 \notin AnswersIn(que)
  BY <1>1, AnswersTail
<1>4. \A u : 1 \notin NamesIn(ids, que, u)
  BY <1>3 DEF NamesIn
<1> HIDE DEF ids
<1>5. Accounted(c, Tail(que))
  <2> SUFFICES ASSUME NEW u \in Others
               PROVE  OneName(Known(c, u), Listed(c.contacts, u),
                              Back(NamesIn(ids, que, u)), NamesAsked(c.up, u))
    BY <1>2 DEF Accounted, ids
  <2>1. OneName(Known(c, u), Listed(c.contacts, u),
                NamesIn(ids, que, u), NamesAsked(c.up, u))
    BY <1>1 DEF Accounted, ids
  <2> QED BY <1>1, <1>4, <2>1, OneNameTaken
<1> QED BY <1>2, <1>5 DEF Sound, ids

(* The answer to getChatHistory: the uid in front of the queue goes.       *)
HistoryTaken(c, d, que, rec) ==
    /\ Sound(d, Tail(que), rec) /\ \A u : Known(d, u) <=> Known(c, u)
    /\ d.m_to_uid = c.m_to_uid /\ Ahead(c, d)
    /\ Head(c.m_queue_uid) \in Partners
    /\ Answering(Head(que), Head(c.m_queue_uid), rec)

LEMMA PopSound ==
    ASSUME NEW c, NEW que, NEW rec, Sound(c, que, rec),
           que # << >>, Head(que) \in AnswerMessages, Head(que).type # \h91
    PROVE  \A d : d = [c EXCEPT !.m_queue_uid = Tail(@)] => HistoryTaken(c, d, que, rec)
<1> DEFINE ids == c.m_queue_uid
           m == Head(que)
           w == Head(ids)
           d == [c EXCEPT !.m_queue_uid = Tail(@)]
<1>1. /\ c \in ClientType /\ Kept(c, rec)
      /\ Wired(ids, que, c.up, rec) /\ Accounted(c, que) /\ que \in Seq(Message)
      /\ ids \in Seq(Partners)
  BY DEF Sound, Kept, Wired
<1>2. /\ ids # << >> /\ Answering(m, w, rec) /\ w \in Partners
      /\ Wired(Tail(ids), Tail(que), c.up, rec)
      /\ \A u : /\ NamesIn(Tail(ids), Tail(que), u) = Back(NamesIn(ids, que, u))
                /\ 1 \in NamesIn(ids, que, u) <=> m.type = \h91 /\ w = u
  <2>1. AnswerTaken(ids, que, c.up, rec)
    BY <1>1, WiredTakeAnswer
  <2> QED BY <2>1 DEF AnswerTaken
<1>3. /\ d \in ClientType
      /\ d.m_queue_uid = Tail(ids) /\ d.up = c.up /\ d.m_to_uid = c.m_to_uid
      /\ d.map_contacts = c.map_contacts /\ d.contacts = c.contacts /\ d.records = c.records
  <2>1. Tail(ids) \in Seq(Partners)
    BY <1>1, <1>2, HeadTailProperties
  <2> QED BY <1>1, <2>1 DEF ClientType
<1> HIDE DEF d, ids, w
<1>4. Kept(d, rec) /\ \A u : Known(d, u) <=> Known(c, u)
  BY <1>1, <1>3, KeptParts
<1>5. Accounted(d, Tail(que))
  <2> SUFFICES ASSUME NEW u \in Others
               PROVE  OneName(Known(d, u), Listed(d.contacts, u),
                              Back(NamesIn(ids, que, u)), NamesAsked(d.up, u))
    BY <1>2, <1>3 DEF Accounted
  <2>1. OneName(Known(c, u), Listed(c.contacts, u),
                NamesIn(ids, que, u), NamesAsked(c.up, u))
    BY <1>1 DEF Accounted, ids
  <2>2. OneName(Known(c, u), Listed(c.contacts, u),
                Back(NamesIn(ids, que, u)), NamesAsked(c.up, u))
    BY <1>1, <1>2, <2>1, OneNameTaken
  <2> QED BY <1>3, <1>4, <2>2 DEF OneName
<1>6. Sound(d, Tail(que), rec)
  BY <1>2, <1>3, <1>4, <1>5 DEF Sound, AllKnown
<1>7. HistoryTaken(c, d, que, rec)
  <2>1. Ahead(c, d)
    BY <1>3, <1>4, AheadSame
  <2> QED BY <1>2, <1>3, <1>4, <1>6, <2>1 DEF HistoryTaken, ids, w
<1> QED BY <1>7 DEF d

(* parseGetUserName: the contact is listed under its own name.             *)
LEMMA NameSound ==
    ASSUME NEW c, NEW que, NEW rec, Sound(c, que, rec), AllKnown(c),
           que # << >>, Head(que) \in AnswerMessages, Head(que).type = \h91,
           Head(que).sub = 0
    PROVE  LET d == ParseGetUserName(c, Head(que))
           IN  /\ Sound(d, Tail(que), rec) /\ \A u \in Users : Known(c, u) => Known(d, u)
               /\ d.m_to_uid = c.m_to_uid /\ Ahead(c, d)
<1> DEFINE ids == c.m_queue_uid
           m == Head(que)
           w == Head(ids)
           d == ParseGetUserName(c, m)
           entry == [c.map_contacts[w] EXCEPT !.name = w]
           rows == InsertContact(c.contacts, w, entry.is_offline, w)
<1>1. /\ c \in ClientType /\ Kept(c, rec) /\ RowsInOrder(c.contacts) /\ c.contacts # << >>
      /\ NamesRight(c) /\ Filed(c, rec)
      /\ Wired(ids, que, c.up, rec) /\ Accounted(c, que) /\ que \in Seq(Message)
      /\ ids \in Seq(Partners)
  BY DEF Sound, Kept, Wired
<1>2. /\ ids # << >> /\ Answering(m, w, rec)
      /\ Wired(Tail(ids), Tail(que), c.up, rec)
      /\ \A u : /\ NamesIn(Tail(ids), Tail(que), u) = Back(NamesIn(ids, que, u))
                /\ 1 \in NamesIn(ids, que, u) <=> m.type = \h91 /\ w = u
  <2>1. AnswerTaken(ids, que, c.up, rec)
    BY <1>1, WiredTakeAnswer
  <2> QED BY <2>1 DEF AnswerTaken
<1>3. w \in Others /\ m.uid = w /\ w \in Users
  BY <1>2, AllIsNoOther DEF Answering
<1>4. OneName(Known(c, w), Listed(c.contacts, w), NamesIn(ids, que, w), NamesAsked(c.up, w))
  BY <1>1, <1>3 DEF Accounted
<1>5. /\ 1 \in NamesIn(ids, que, w) /\ Known(c, w) /\ ~Listed(c.contacts, w)
      /\ NamesAsked(c.up, w) = {} /\ \A i, j \in NamesIn(ids, que, w) : i = j
  BY <1>2, <1>4 DEF OneName
<1>6. Back(NamesIn(ids, que, w)) = {}
  <2> DEFINE S == NamesIn(ids, que, w)
  <2>1. S \in SUBSET (1..Len(que)) /\ Len(que) \in Nat
    BY <1>1, NamesInPlaces
  <2>2. 1 \in S /\ \A i, j \in S : i = j
    BY <1>5
  <2> HIDE DEF S
  <2>3. Back(S) = {}
    BY <2>1, <2>2, BackOf
  <2> QED BY <2>3 DEF S
<1>7. /\ entry \in Entry /\ entry # None /\ entry.name = w /\ entry.is_offline \in BOOLEAN
      /\ entry.is_offline = c.map_contacts[w].is_offline
  <2>1. c.map_contacts[w] \in Entry
    BY <1>1, <1>3, <1>5 DEF ClientType, Known
  <2> DEFINE old == c.map_contacts[w]
  <2> HIDE DEF old
  <2>2. old \in Entry
    BY <2>1 DEF old
  <2>3. LET new == [old EXCEPT !.name = w]
        IN  /\ new \in Entry /\ new.name = w /\ new.is_offline \in BOOLEAN
            /\ new.is_offline = old.is_offline
    BY <1>3, <2>2 DEF Entry
  <2> QED BY <2>3 DEF old
<1>8. /\ RowsInOrder(rows) /\ rows # << >>
      /\ \A v : Listed(rows, v) <=> Listed(c.contacts, v) \/ v = w
  <2> HIDE DEF entry, w
  <2> QED BY <1>1, <1>3, <1>5, <1>7, InsertRows
<1>9. /\ d \in ClientType
      /\ d.m_queue_uid = Tail(ids) /\ d.up = c.up /\ d.m_to_uid = c.m_to_uid
      /\ d.map_contacts = [c.map_contacts EXCEPT ![w] = entry]
      /\ d.contacts = rows /\ d.records = c.records
  <2> DEFINE entered == [c EXCEPT !.m_queue_uid = Tail(@), !.map_contacts[w].name = m.uid]
  <2>1. d = [entered EXCEPT !.contacts =
               InsertContact(@, w, entered.map_contacts[w].is_offline, m.uid)]
    BY <1>5 DEF ParseGetUserName, Entered, Known
  <2>2. Tail(ids) \in Seq(Partners)
    BY <1>1, <1>2, HeadTailProperties
  <2>3. [c.map_contacts EXCEPT ![w].name = w] = [c.map_contacts EXCEPT ![w] = entry]
    OBVIOUS
  <2> HIDE DEF entry, d, rows, w, m, ids
  <2>4. [c.map_contacts EXCEPT ![w] = entry] \in [Users -> Entry \cup {None}]
    BY <1>1, <1>3, <1>7 DEF ClientType
  <2>5. /\ entered \in ClientType
        /\ entered.m_queue_uid = Tail(ids) /\ entered.up = c.up
        /\ entered.m_to_uid = c.m_to_uid
        /\ entered.map_contacts = [c.map_contacts EXCEPT ![w] = entry]
        /\ entered.contacts = c.contacts /\ entered.records = c.records
    BY <1>1, <1>3, <2>2, <2>3, <2>4 DEF ClientType, ids
  <2> HIDE DEF entered
  <2>6. entered.map_contacts[w].is_offline = entry.is_offline
    BY <1>1, <1>3, <2>5 DEF ClientType
  <2>7. InsertContact(entered.contacts, w, entered.map_contacts[w].is_offline, m.uid) = rows
    BY <1>3, <2>5, <2>6 DEF rows
  <2>8. d = [entered EXCEPT !.contacts = rows]
    BY <2>1, <2>5, <2>7 DEF ClientType
  <2>9. rows \in Seq(ContactRow)
    BY <1>8 DEF RowsInOrder
  <2> QED BY <2>5, <2>8, <2>9 DEF ClientType
<1> HIDE DEF d, entry, rows, w, m, ids
<1>10. \A v \in Users : d.map_contacts[v] = IF v = w THEN entry ELSE c.map_contacts[v]
  BY <1>1, <1>9 DEF ClientType
<1>11. \A v \in Users : Known(d, v) <=> Known(c, v)
  BY <1>5, <1>7, <1>10 DEF Known
<1>12. NamesRight(d)
  <2>1. \A v \in Users : Known(d, v) => d.map_contacts[v].name \in {None, v}
    BY <1>1, <1>7, <1>10, <1>11 DEF NamesRight
  <2>2. \A v \in Others : Listed(d.contacts, v) => Known(d, v) /\ d.map_contacts[v].name = v
    BY <1>1, <1>5, <1>7, <1>8, <1>9, <1>10, <1>11, AllIsNoOther DEF NamesRight
  <2> QED BY <2>1, <2>2 DEF NamesRight
<1>13. Kept(d, rec)
  BY <1>1, <1>8, <1>9, <1>12 DEF Kept, Filed
<1>14. Accounted(d, Tail(que))
  <2> SUFFICES ASSUME NEW u \in Others
               PROVE  OneName(Known(d, u), Listed(d.contacts, u),
                              Back(NamesIn(ids, que, u)), NamesAsked(d.up, u))
    BY <1>2, <1>9 DEF Accounted
  <2>1. OneName(Known(c, u), Listed(c.contacts, u),
                NamesIn(ids, que, u), NamesAsked(c.up, u))
    BY <1>1 DEF Accounted, ids
  <2>2. /\ Known(d, u) <=> Known(c, u)
        /\ Listed(d.contacts, u) <=> Listed(c.contacts, u) \/ u = w
    BY <1>8, <1>9, <1>11, AllIsNoOther
  <2>3. CASE u # w
    <3>0. que \in Seq(Message) /\ 1 \notin NamesIn(ids, que, u)
      BY <1>1, <1>2, <2>3
    <3>1. OneName(Known(c, u), Listed(c.contacts, u),
                  Back(NamesIn(ids, que, u)), NamesAsked(c.up, u))
      BY <2>1, <3>0, OneNameTaken, Zenon
    <3> QED BY <1>9, <2>2, <2>3, <3>1 DEF OneName
  <2>4. CASE u = w
    BY <1>5, <1>6, <1>9, <2>2, <2>4 DEF OneName
  <2> QED BY <2>3, <2>4
<1>15. Sound(d, Tail(que), rec)
  <2>1. AllKnown(d)
    BY <1>11, AllIsNoOther DEF AllKnown
  <2> QED BY <1>2, <1>8, <1>9, <1>13, <1>14, <2>1 DEF Sound
<1>16. Ahead(c, d)
  BY <1>9, <1>11, AheadSame, AllIsNoOther
<1> QED BY <1>9, <1>11, <1>15, <1>16 DEF d, m


(* A text of another, in the conversation it belongs to.                   *)
ShownIn(c, src, rid, conv, rec) ==
    LET row == Row(FALSE, c.map_contacts[src].name, rid)
    IN  Entered(c, src) = c /\ row \in TextRow /\ RowFiled(row, conv, rec)

LEMMA OthersRow ==
    ASSUME NEW c, NEW rec \in Seq(RecordRow), Kept(c, rec), NEW src \in Others, Known(c, src),
           NEW rid \in DOMAIN rec, rec[rid].sendid = src, NEW conv,
           Concerns(rec[rid], Me, conv)
    PROVE  ShownIn(c, src, rid, conv, rec)
<1>1. src \in Users /\ src # Me /\ rid \in Nat
  BY AllIsNoOther DEF Others
<1>2. c.map_contacts[src].name \in {None, src}
  BY <1>1 DEF Kept, NamesRight
<1>3. Entered(c, src) = c
  BY DEF Entered, Known
<1> QED BY <1>1, <1>2, <1>3 DEF ShownIn, Row, TextRow, RowFiled

(* One of Me's own.                                                        *)
LEMMA OwnRow ==
    ASSUME NEW rec \in Seq(RecordRow), NEW rid \in DOMAIN rec, rec[rid].sendid = Me,
           NEW conv, Concerns(rec[rid], Me, conv)
    PROVE  Row(TRUE, Me, rid) \in TextRow /\ RowFiled(Row(TRUE, Me, rid), conv, rec)
<1>1. rid \in Nat
  OBVIOUS
<1> QED BY <1>1 DEF Row, TextRow, RowFiled

(* A row is added for a text that was saved as rid.                        *)
LEMMA AddRowSound ==
    ASSUME NEW c, NEW que, NEW rec \in Seq(RecordRow), Sound(c, que, rec),
           NEW conv \in Conversations, NEW row \in TextRow, RowFiled(row, conv, rec),
           row.txt \in DOMAIN rec
    PROVE  LET d == AddRecord(c, conv, row)
           IN  /\ Sound(d, que, rec) /\ \A u : Known(d, u) <=> Known(c, u)
               /\ d.m_to_uid = c.m_to_uid
               /\ Ahead(c, d) /\ Shows(d, conv, row.txt)
<1> DEFINE d == AddRecord(c, conv, row)
<1>1. /\ Sound(d, que, rec) /\ \A u : Known(d, u) <=> Known(c, u)
      /\ d.m_to_uid = c.m_to_uid /\ d.up = c.up
      /\ d.records = [c.records EXCEPT ![conv] = <<row>> \o c.records[conv]]
  BY AddSound
<1>2. c \in ClientType
  BY DEF Sound, Kept
<1>3. row.txt # 0
  BY LenProperties
<1> HIDE DEF d
<1>4. Keeps(c, d) /\ Shows(d, conv, row.txt)
  BY <1>1, <1>2, <1>3, KeepsAdd
<1> QED BY <1>1, <1>4 DEF Ahead, d

LEMMA FetchRowSound ==
    ASSUME NEW c, NEW que, NEW rec \in Seq(RecordRow), Sound(c, que, rec), AllKnown(c),
           NEW id \in Partners, NEW rid \in DOMAIN rec, Concerns(rec[rid], Me, id)
    PROVE  LET d == FetchRow(c, id, rec[rid].sendid, rid)
           IN  /\ Sound(d, que, rec) /\ \A u : Known(d, u) <=> Known(c, u)
               /\ d.m_to_uid = c.m_to_uid
               /\ Ahead(c, d) /\ Shows(d, id, rid)
<1> DEFINE src == rec[rid].sendid
           name == c.map_contacts[src].name
           own == Row(TRUE, Me, rid)
           row == Row(FALSE, name, rid)
<1>1. id \in Conversations /\ Kept(c, rec)
  BY AllIsNoOther DEF Conversations, Partners, Others, Sound
<1>2. CASE src = Me
  <2>1. own \in TextRow /\ RowFiled(own, id, rec)
    BY <1>2, OwnRow
  <2>2. FetchRow(c, id, rec[rid].sendid, rid) = AddRecord(c, id, own)
    BY <1>2 DEF FetchRow
  <2>3. own.txt = rid
    BY DEF Row
  <2> HIDE DEF own
  <2> QED BY <1>1, <2>1, <2>2, <2>3, AddRowSound
<1>3. CASE src # Me
  <2>1. src \in Others
    <3>1. rec[rid] \in RecordRow
      OBVIOUS
    <3> QED BY <1>3, <3>1 DEF RecordRow, Others
  <2>2. Known(c, src)
    BY <2>1 DEF AllKnown
  <2>3. Entered(c, src) = c /\ row \in TextRow /\ RowFiled(row, id, rec)
    <3> HIDE DEF src
    <3>1. rec[rid].sendid = src
      BY DEF src
    <3>2. ShownIn(c, src, rid, id, rec)
      BY <1>1, <2>1, <2>2, <3>1, OthersRow
    <3> QED BY <3>2 DEF ShownIn
  <2>4. FetchRow(c, id, rec[rid].sendid, rid) = AddRecord(c, id, row)
    BY <1>3, <2>3 DEF FetchRow
  <2>5. row.txt = rid
    BY DEF Row
  <2> HIDE DEF row
  <2> QED BY <1>1, <2>3, <2>4, <2>5, AddRowSound
<1> QED BY <1>2, <1>3

(* parseReceiveMessageInfos.                                               *)
LEMMA TextSound ==
    ASSUME NEW c, NEW que, NEW rec \in Seq(RecordRow), Sound(c, que, rec), AllKnown(c),
           NEW m, m.type = \hA3, Spoken(m, rec)
    PROVE  LET d == ParseReceiveMessageInfos(c, m)
           IN  /\ Sound(d, que, rec) /\ \A u : Known(d, u) <=> Known(c, u)
               /\ d.m_to_uid = c.m_to_uid
               /\ Ahead(c, d) /\ Shows(d, IF m.sub = 1 THEN ALL ELSE m.src, m.rid)
<1> DEFINE src == m.src
           conv == IF m.sub = 1 THEN ALL ELSE src
           rid == m.rid
           row == Row(FALSE, c.map_contacts[src].name, rid)
<1>1. /\ rid \in DOMAIN rec /\ src \in Others /\ rec[rid].sendid = src
      /\ rec[rid].recvid = IF m.sub = 1 THEN ALL ELSE Me
  BY DEF Spoken
<1>2. conv \in Conversations
  BY <1>1, AllIsNoOther DEF Conversations
<1>3. Concerns(rec[rid], Me, conv)
  BY <1>1, AllIsNoOther DEF Concerns
<1>4. Known(c, src) /\ Kept(c, rec)
  BY <1>1 DEF AllKnown, Sound
<1> HIDE DEF src, rid, conv
<1>5. Entered(c, src) = c /\ row \in TextRow /\ RowFiled(row, conv, rec)
  <2>1. rec[rid].sendid = src /\ src \in Others /\ rid \in DOMAIN rec
    BY <1>1
  <2>2. ShownIn(c, src, rid, conv, rec)
    BY <1>3, <1>4, <2>1, OthersRow
  <2> QED BY <2>2 DEF ShownIn
<1>6. ParseReceiveMessageInfos(c, m) = AddRecord(c, conv, row)
  BY <1>5 DEF ParseReceiveMessageInfos, FetchRecvMessageHistory, src, rid, conv
<1>7. row.txt = rid
  BY DEF Row
<1> HIDE DEF row
<1> QED BY <1>1, <1>2, <1>5, <1>6, <1>7, AddRowSound DEF conv, src, rid

(* parseGetChatHistory.                                                    *)
HistoryRead(c, d, que, rec) ==
    /\ Sound(d, Tail(que), rec)
    /\ \A u \in Users : Known(c, u) => Known(d, u)
    /\ d.m_to_uid = c.m_to_uid /\ Ahead(c, d)
    /\ Answering(Head(que), Head(c.m_queue_uid), rec)
    /\ Head(c.m_queue_uid) \in Partners
    /\ \A rid \in Head(que).rids : Shows(d, Head(c.m_queue_uid), rid)

LEMMA HistorySound ==
    ASSUME NEW c, NEW que, NEW rec \in Seq(RecordRow), rec = record,
           Sound(c, que, rec), AllKnown(c), que # << >>, Head(que) \in AnswerMessages,
           Head(que).type = \h92, Head(que).sub = 0
    PROVE  HistoryRead(c, ParseGetChatHistory(c, Head(que)), que, rec)
<1> DEFINE id == Head(c.m_queue_uid)
           m == Head(que)
           rest == Tail(que)
           n == Len(rec)
           first == [c EXCEPT !.m_queue_uid = Tail(@)]
<1>1. n \in Nat /\ DOMAIN rec = 1..n
  BY LenProperties
<1>3. /\ Sound(first, rest, rec) /\ \A u : Known(first, u) <=> Known(c, u)
      /\ first.m_to_uid = c.m_to_uid /\ Ahead(c, first)
      /\ id \in Partners
      /\ Answering(m, id, rec)
  <2>1. Head(que).type # \h91 /\ first = [c EXCEPT !.m_queue_uid = Tail(@)]
    OBVIOUS
  <2> HIDE DEF first
  <2>2. HistoryTaken(c, first, que, rec)
    BY <2>1, PopSound
  <2> QED BY <2>2 DEF HistoryTaken
<1> DEFINE S == {d \in ClientType : Sound(d, rest, rec) /\ AllKnown(d)
                                    /\ d.m_to_uid = c.m_to_uid
                                    /\ \A u \in Users : Known(c, u) => Known(d, u)}
           pass(d, rid) == IF rid \in m.rids THEN FetchRow(d, id, rec[rid].sendid, rid) ELSE d
           step == [rid \in 1..n |-> [d \in S |-> pass(d, rid)]]
           after == CHOOSE f : f = [rid \in 0..n |->
                      IF rid = 0 THEN first
                      ELSE IF rid \in m.rids THEN FetchRow(f[rid - 1], id, rec[rid].sendid, rid)
                      ELSE f[rid - 1]]
<1>2. ParseGetChatHistory(c, m) = after[n]
  BY DEF ParseGetChatHistory
<1>4. \A rid \in m.rids : rid \in 1..n /\ Concerns(rec[rid], Me, id)
  BY <1>1, <1>3 DEF Answering
<1> HIDE DEF id, m, rest, n, first
<1>5. first \in S
  BY <1>3 DEF Sound, Kept, AllKnown
<1>6. ASSUME NEW rid \in 1..n, NEW d \in S
      PROVE  /\ pass(d, rid) \in S /\ Ahead(d, pass(d, rid))
             /\ rid \in m.rids => Shows(pass(d, rid), id, rid)
  <2>1. CASE rid \in m.rids
    <3> DEFINE e == FetchRow(d, id, rec[rid].sendid, rid)
    <3>1. /\ Sound(e, rest, rec) /\ \A u : Known(e, u) <=> Known(d, u)
          /\ e.m_to_uid = d.m_to_uid /\ Ahead(d, e) /\ Shows(e, id, rid)
      BY <1>1, <1>3, <1>4, <2>1, FetchRowSound
    <3>2. pass(d, rid) = e
      BY <2>1
    <3> HIDE DEF e
    <3>3. e \in S
      BY <3>1 DEF Sound, Kept, AllKnown
    <3> QED BY <3>1, <3>2, <3>3
  <2>2. CASE rid \notin m.rids
    <3>1. Ahead(d, d)
      BY AheadSame
    <3> QED BY <2>2, <3>1
  <2> QED BY <2>1, <2>2
<1> HIDE DEF S
<1>7. /\ step \in [1..n -> [S -> S]]
      /\ \A rid \in 1..n : \A d \in S : step[rid][d] = pass(d, rid)
  BY <1>6
<1> HIDE DEF step
<1>8. PICK f \in [0..n -> S] : Passes(n, first, step, f)
  BY <1>1, <1>5, <1>7, LoopExists
<1>9. \A rid \in 1..n : f[rid] = pass(f[rid - 1], rid)
  <2> SUFFICES ASSUME NEW rid \in 1..n PROVE f[rid] = pass(f[rid - 1], rid)
    OBVIOUS
  <2>1. rid - 1 \in 0..n
    BY <1>1
  <2>2. f[rid - 1] \in S /\ f[rid] = step[rid][f[rid - 1]]
    BY <1>8, <2>1 DEF Passes
  <2> HIDE DEF pass
  <2> QED BY <1>7, <2>2
<1>10. f = [rid \in 0..n |-> IF rid = 0 THEN first
                             ELSE IF rid \in m.rids THEN FetchRow(f[rid - 1], id, rec[rid].sendid, rid)
                             ELSE f[rid - 1]]
  <2>1. ASSUME NEW rid \in 0..n, rid # 0 PROVE f[rid] = pass(f[rid - 1], rid)
    <3>1. rid \in 1..n
      BY <1>1, <2>1
    <3> QED BY <1>9, <3>1
  <2> QED BY <1>8, <2>1 DEF Passes
<1>11. after = [rid \in 0..n |-> IF rid = 0 THEN first
                                 ELSE IF rid \in m.rids THEN FetchRow(after[rid - 1], id, rec[rid].sendid, rid)
                                 ELSE after[rid - 1]]
  <2>1. \E g : g = [rid \in 0..n |-> IF rid = 0 THEN first
                                    ELSE IF rid \in m.rids THEN FetchRow(g[rid - 1], id, rec[rid].sendid, rid)
                                    ELSE g[rid - 1]]
    <3> HIDE DEF pass, after
    <3> QED BY ONLY <1>10
  <2> QED BY <2>1, Zenon
<1> HIDE DEF after
<1> DEFINE P(rid) == /\ after[rid] \in S /\ Ahead(c, after[rid])
                     /\ \A j \in 1..rid : j \in m.rids => Shows(after[rid], id, j)
           T == {rid \in 0..n : P(rid)}
<1>12. 0 \in T
  <2>1. after[0] = first /\ 0 \in 0..n
    BY <1>1, <1>11
  <2> QED BY <1>3, <1>5, <2>1
<1>13. ASSUME NEW rid \in 1..n, rid - 1 \in T PROVE rid \in T
  <2>1. rid \in 0..n /\ rid # 0
    BY <1>1
  <2>2. after[rid] = pass(after[rid - 1], rid)
    <3> DEFINE g == [k \in 0..n |-> IF k = 0 THEN first
                                 ELSE IF k \in m.rids THEN FetchRow(after[k - 1], id, rec[k].sendid, k)
                                 ELSE after[k - 1]]
    <3>1. after = g
      BY <1>11, Zenon
    <3>2. g[rid] = pass(after[rid - 1], rid)
      BY <2>1
    <3> HIDE DEF g
    <3> QED BY <3>1, <3>2, Zenon
  <2> DEFINE d == after[rid - 1]
             e == after[rid]
  <2>3. /\ d \in S /\ Ahead(c, d)
        /\ \A j \in 1..(rid - 1) : j \in m.rids => Shows(d, id, j)
    BY <1>13
  <2> HIDE DEF T, P, pass, d, e
  <2>4. /\ e \in S /\ Ahead(d, e)
        /\ rid \in m.rids => Shows(e, id, rid)
    BY <1>6, <2>2, <2>3 DEF d, e
  <2>5. Ahead(c, e)
    BY <2>3, <2>4, AheadBoth
  <2>6. ASSUME NEW j \in 1..rid, j \in m.rids PROVE Shows(e, id, j)
    <3>1. j = rid \/ j \in 1..(rid - 1)
      OBVIOUS
    <3> QED BY <1>3, <2>3, <2>4, <2>6, <3>1 DEF Ahead, Keeps
  <2>7. P(rid)
    BY <2>4, <2>5, <2>6 DEF P, e
  <2> QED BY <2>1, <2>7 DEF T
<1> HIDE DEF T
<1>14. n \in T
  <2>1. \A rid \in 1..n : rid - 1 \in T => rid \in T
    BY <1>13
  <2>2. n \in 0..n
    BY <1>1
  <2>3. \A rid \in 0..n : rid \in T
    BY ZenonT(30), <1>1, <1>12, <2>1, EachPass
  <2> QED BY <2>2, <2>3
<1>15. /\ after[n] \in S /\ Ahead(c, after[n])
       /\ \A rid \in m.rids : Shows(after[n], id, rid)
  BY <1>4, <1>14 DEF T
<1>16. HistoryRead(c, after[n], que, rec)
  BY <1>3, <1>15 DEF S, m, rest, id, HistoryRead
<1> QED BY <1>2, <1>16 DEF m



-----------------------------------------------------------------------------
(* What the steps of the server do to the client's side.                   *)

(* A text is saved: what is filed and what is said of the rows before it   *)
(* stays true.                                                             *)
LEMMA RowsKept ==
    ASSUME NEW rec \in Seq(RecordRow), NEW new \in RecordRow
    PROVE  /\ Append(rec, new) \in Seq(RecordRow)
           /\ \A row, conv : RowFiled(row, conv, rec) => RowFiled(row, conv, Append(rec, new))
           /\ \A m : Spoken(m, rec) => Spoken(m, Append(rec, new))
<1> DEFINE more == Append(rec, new)
<1>1. more \in Seq(RecordRow) /\ \A rid \in DOMAIN rec : rid \in DOMAIN more /\ more[rid] = rec[rid]
  OBVIOUS
<1> HIDE DEF more
<1>2. \A row, conv : RowFiled(row, conv, rec) => RowFiled(row, conv, more)
  BY <1>1 DEF RowFiled
<1>3. \A m : Spoken(m, rec) => Spoken(m, more)
  BY <1>1 DEF Spoken
<1> QED BY <1>1, <1>2, <1>3 DEF more

LEMMA KeptGrows ==
    ASSUME NEW c, NEW rec \in Seq(RecordRow), Kept(c, rec), NEW new \in RecordRow
    PROVE  Kept(c, Append(rec, new))
BY RowsKept DEF Kept, Filed

LEMMA LinkedGrows ==
    ASSUME NEW c, NEW que, NEW rec \in Seq(RecordRow), NEW own, Linked(c, que, rec, own),
           NEW new \in RecordRow
    PROVE  Linked(c, que, Append(rec, new), own)
<1> DEFINE more == Append(rec, new)
<1>1. Sound(c, que, rec)
  BY DEF Linked
<1>2. Kept(c, more) /\ Wired(c.m_queue_uid, que, c.up, more)
  BY <1>1, KeptGrows, WiredSave DEF Sound
<1>3. AllSpoken(que, more)
  BY RowsKept DEF Linked, AllSpoken
<1> HIDE DEF more
<1>4. Sound(c, que, more)
  BY <1>1, <1>2 DEF Sound
<1> QED BY <1>3, <1>4 DEF Linked, more

(* A message is queued that is not one of the answers.                     *)
LEMMA PushSound ==
    ASSUME NEW c, NEW que, NEW rec, Sound(c, que, rec), NEW m \in Message \ AnswerMessages
    PROVE  Sound(c, Append(que, m), rec)
<1> DEFINE longer == Append(que, m)
           ids == c.m_queue_uid
<1>1. Wired(ids, que, c.up, rec) /\ Accounted(c, que)
  BY DEF Sound
<1>2. Wired(ids, longer, c.up, rec) /\ \A u : NamesIn(ids, longer, u) = NamesIn(ids, que, u)
  BY <1>1, WiredPush
<1> HIDE DEF longer
<1>3. Accounted(c, longer)
  BY <1>1, <1>2 DEF Accounted
<1> QED BY <1>2, <1>3 DEF Sound, longer

LEMMA AwaitedPush ==
    ASSUME NEW c, NEW que \in Seq(Message), Awaited(c, que), NEW m \in Message
    PROVE  Awaited(c, Append(que, m))
<1> DEFINE longer == Append(que, m)
<1>1. /\ Len(que) \in Nat /\ Len(longer) = Len(que) + 1
      /\ \A i \in 1..Len(que) : longer[i] = que[i]
  BY AppendAt
<1> HIDE DEF longer
<1> SUFFICES ASSUME NEW u \in Others, ~Known(c, u)
             PROVE  \E k \in 1..Len(longer) : /\ Mentions(longer[k], u)
                                              /\ \A i \in 1..k : ~Depends(longer[i])
  BY DEF Awaited, longer
<1>2. PICK k \in 1..Len(que) : Mentions(que[k], u) /\ \A i \in 1..k : ~Depends(que[i])
  BY DEF Awaited
<1>3. k \in 1..Len(longer) /\ \A i \in 1..k : i \in 1..Len(que)
  BY <1>1
<1> QED BY <1>1, <1>2, <1>3

LEMMA SpokenPush ==
    ASSUME NEW que \in Seq(Message), NEW rec, AllSpoken(que, rec),
           NEW m \in Message, Spoken(m, rec)
    PROVE  AllSpoken(Append(que, m), rec)
<1>1. \A i \in 1..Len(Append(que, m)) : i \in 1..Len(que) \/ i = Len(que) + 1
  BY AppendAt
<1> QED BY <1>1, AppendAt DEF AllSpoken

LEMMA LinkedPush ==
    ASSUME NEW c, NEW que, NEW rec, NEW own, Linked(c, que, rec, own),
           NEW m \in Message \ AnswerMessages, Spoken(m, rec)
    PROVE  Linked(c, Append(que, m), rec, own)
<1>1. Sound(c, que, rec) /\ que \in Seq(Message) /\ AllSpoken(que, rec)
  BY DEF Linked, Sound, Wired
<1>2. Sound(c, Append(que, m), rec)
  BY <1>1, PushSound
<1>3. AllSpoken(Append(que, m), rec)
  BY <1>1, SpokenPush
<1>4. own = Me => Awaited(c, Append(que, m))
  BY <1>1, AwaitedPush DEF Linked
<1> QED BY <1>2, <1>3, <1>4 DEF Linked

(* A frame is handled that gets no AnswerMessage.                          *)
FrameGone(c) == [c EXCEPT !.up = Tail(@)]

LEMMA FrameGoneParts ==
    ASSUME NEW c \in ClientType, c.up # << >>
    PROVE  /\ FrameGone(c) \in ClientType
           /\ FrameGone(c).up = Tail(c.up) /\ FrameGone(c).m_queue_uid = c.m_queue_uid
           /\ FrameGone(c).map_contacts = c.map_contacts
           /\ FrameGone(c).contacts = c.contacts /\ FrameGone(c).records = c.records
           /\ FrameGone(c).m_to_uid = c.m_to_uid
<1>1. Tail(c.up) \in Seq(Frame)
  BY HeadTailProperties DEF ClientType
<1> QED BY <1>1 DEF FrameGone, ClientType

LEMMA AskedTail ==
    ASSUME NEW up \in Seq(Frame), up # << >>, NEW u
    PROVE  /\ NamesAsked(up, u) \in SUBSET (1..Len(up)) /\ Len(up) \in Nat
           /\ NamesAsked(Tail(up), u) = Back(NamesAsked(up, u))
           /\ 1 \in NamesAsked(up, u) <=> Head(up) \in NameFrames(u)
<1>1. DOMAIN up = 1..Len(up) /\ Len(up) \in Nat
  BY LenProperties
<1>2. NamesAsked(up, u) \in SUBSET (1..Len(up))
  BY <1>1 DEF NamesAsked, Places
<1> QED BY <1>1, <1>2, PlacesTail DEF NamesAsked

LEMMA AskedBack ==
    ASSUME NEW up \in Seq(Frame), up # << >>, NEW u
    PROVE  LET S == NamesAsked(up, u)
           IN  /\ 1 \notin S => (S = {} <=> Back(S) = {})
               /\ (\A i, j \in S : i = j) => \A i, j \in Back(S) : i = j
               /\ 1 \in S /\ (\A i, j \in S : i = j) => Back(S) = {}
<1> DEFINE n == Len(up)
           S == NamesAsked(up, u)
<1>1. n \in Nat /\ S \in SUBSET (1..n)
  BY AskedTail
<1> HIDE DEF n, S
<1>2. /\ 1 \notin S => (S = {} <=> Back(S) = {})
      /\ (\A i, j \in S : i = j) => \A i, j \in Back(S) : i = j
      /\ 1 \in S /\ (\A i, j \in S : i = j) => Back(S) = {}
  BY <1>1, BackOf
<1> QED BY <1>2 DEF S

LEMMA FrameHandled ==
    ASSUME NEW c, NEW que, NEW rec, Sound(c, que, rec), c.up # << >>,
           Head(c.up) \notin AskFrames
    PROVE  Sound(FrameGone(c), que, rec)
<1> DEFINE d == FrameGone(c)
<1>1. /\ c \in ClientType /\ Kept(c, rec) /\ Accounted(c, que)
      /\ Wired(c.m_queue_uid, que, c.up, rec) /\ c.up \in Seq(Frame)
  BY DEF Sound, Kept, Wired
<1>2. /\ d \in ClientType
      /\ d.up = Tail(c.up) /\ d.m_queue_uid = c.m_queue_uid
      /\ d.map_contacts = c.map_contacts /\ d.contacts = c.contacts /\ d.records = c.records
  BY <1>1, FrameGoneParts
<1> HIDE DEF d
<1>3. Kept(d, rec) /\ \A u : Known(d, u) <=> Known(c, u)
  BY <1>1, <1>2, KeptParts
<1>4. Wired(d.m_queue_uid, que, d.up, rec)
  BY <1>1, <1>2, WiredSkip
<1>5. Accounted(d, que)
  <2> SUFFICES ASSUME NEW u \in Others
               PROVE  OneName(Known(d, u), Listed(d.contacts, u),
                              NamesIn(d.m_queue_uid, que, u), NamesAsked(d.up, u))
    BY DEF Accounted
  <2> DEFINE S == NamesAsked(c.up, u)
  <2>1. OneName(Known(c, u), Listed(c.contacts, u), NamesIn(c.m_queue_uid, que, u), S)
    BY <1>1 DEF Accounted
  <2>2. /\ S \in SUBSET (1..Len(c.up)) /\ Len(c.up) \in Nat
        /\ NamesAsked(d.up, u) = Back(S) /\ (1 \in S <=> Head(c.up) \in NameFrames(u))
    BY <1>1, <1>2, AskedTail
  <2>3. 1 \notin S
    BY <2>2 DEF NameFrames, AskFrames
  <2> HIDE DEF S
  <2>4. (S = {} <=> Back(S) = {}) /\ ((\A i, j \in S : i = j) => \A i, j \in Back(S) : i = j)
    BY <2>2, <2>3, BackOf
  <2> QED BY <1>2, <1>3, <2>1, <2>2, <2>4 DEF OneName
<1> QED BY <1>2, <1>3, <1>4, <1>5 DEF Sound, AllKnown, d

(* A name or a history that was asked for is answered.                     *)
LEMMA AskHandled ==
    ASSUME NEW c, NEW que, NEW rec, Sound(c, que, rec), c.up # << >>,
           Head(c.up) \in AskFrames, NEW m \in AnswerMessages,
           Answering(m, Head(c.up).uid, rec),
           m.type = \h91 <=> Head(c.up).op = "username"
    PROVE  Sound(FrameGone(c), Append(que, m), rec)
<1> DEFINE d == FrameGone(c)
           frame == Head(c.up)
           longer == Append(que, m)
           ids == c.m_queue_uid
           up == c.up
<1>1. /\ c \in ClientType /\ Kept(c, rec) /\ Accounted(c, que) /\ que \in Seq(Message)
      /\ Wired(ids, que, up, rec) /\ up \in Seq(Frame)
      /\ up # << >> /\ frame = Head(up) /\ Head(up) \in AskFrames
      /\ Answering(m, Head(up).uid, rec)
  BY DEF Sound, Kept, Wired
<1>2. /\ d \in ClientType
      /\ d.up = Tail(up) /\ d.m_queue_uid = ids
      /\ d.map_contacts = c.map_contacts /\ d.contacts = c.contacts /\ d.records = c.records
  BY <1>1, FrameGoneParts
<1>4. \A u : frame \in NameFrames(u) <=> m.type = \h91 /\ frame.uid = u
  BY DEF NameFrames, AskFrames
<1> HIDE DEF d, frame, ids, up
<1>3. /\ Wired(ids, longer, Tail(up), rec)
      /\ \A u : NamesIn(ids, longer, u) = IF m.type = \h91 /\ frame.uid = u
                                          THEN NamesIn(ids, que, u) \cup {Len(que) + 1}
                                          ELSE NamesIn(ids, que, u)
  BY <1>1, WiredAnswer
<1> HIDE DEF longer
<1>5. Kept(d, rec) /\ \A u : Known(d, u) <=> Known(c, u)
  BY <1>1, <1>2, KeptParts
<1>6. Accounted(d, longer)
  <2> SUFFICES ASSUME NEW u \in Others
               PROVE  OneName(Known(d, u), Listed(d.contacts, u),
                              NamesIn(ids, longer, u), NamesAsked(d.up, u))
    BY <1>2 DEF Accounted
  <2> DEFINE S == NamesAsked(up, u)
             N == NamesIn(ids, que, u)
  <2>1. OneName(Known(c, u), Listed(c.contacts, u), N, S)
    BY <1>1 DEF Accounted, ids, up
  <2>2. /\ S \in SUBSET (1..Len(up)) /\ Len(up) \in Nat
        /\ NamesAsked(d.up, u) = Back(S) /\ (1 \in S <=> frame \in NameFrames(u))
    BY <1>1, <1>2, AskedTail
  <2> HIDE DEF S, N
  <2>3. /\ 1 \notin S => (S = {} <=> Back(S) = {})
        /\ (\A i, j \in S : i = j) => \A i, j \in Back(S) : i = j
        /\ 1 \in S /\ (\A i, j \in S : i = j) => Back(S) = {}
    BY <1>1, AskedBack DEF S
  <2>4. CASE 1 \in S
    <3>1. N = {} /\ Back(S) = {}
      BY <2>1, <2>3, <2>4 DEF OneName
    <3>2. NamesIn(ids, longer, u) = {Len(que) + 1}
      BY <1>3, <1>4, <2>2, <2>4, <3>1 DEF N
    <3>3. Known(c, u) /\ ~Listed(c.contacts, u)
      BY <2>1, <2>4 DEF OneName
    <3>4. Known(d, u) /\ ~Listed(d.contacts, u) /\ NamesAsked(d.up, u) = {}
      BY <1>2, <1>5, <2>2, <3>1, <3>3
    <3> QED BY <3>2, <3>4 DEF OneName
  <2>5. CASE 1 \notin S
    <3>1. NamesIn(ids, longer, u) = N
      BY <1>3, <1>4, <2>2, <2>5 DEF N
    <3>2. (Known(d, u) <=> Known(c, u)) /\ d.contacts = c.contacts
      BY <1>2, <1>5
    <3>3. OneName(Known(c, u), Listed(c.contacts, u), N, Back(S))
      BY <2>1, <2>3, <2>5 DEF OneName
    <3> QED BY <2>2, <3>1, <3>2, <3>3 DEF OneName
  <2> QED BY <2>4, <2>5
<1>7. Wired(d.m_queue_uid, longer, d.up, rec)
  BY <1>2, <1>3
<1>8. d.contacts # << >> /\ \A u \in Others : Listed(d.contacts, u) => AllKnown(d)
  BY <1>2, <1>5 DEF Sound, AllKnown
<1>9. Sound(d, longer, rec)
  BY <1>5, <1>6, <1>7, <1>8 DEF Sound
<1> QED BY <1>9 DEF d, longer

(* The client takes the head of its queue: whom it is still to be told of, *)
(* it is told of by what is left.                                          *)
LEMMA AwaitedTake ==
    ASSUME NEW c, NEW d, NEW que \in Seq(Message), que # << >>, Awaited(c, que),
           \A u \in Users : Known(c, u) => Known(d, u),
           \A u \in Others : Mentions(Head(que), u) => Known(d, u)
    PROVE  Awaited(d, Tail(que))
<1> DEFINE rest == Tail(que)
<1>1. /\ Len(que) \in Nat /\ Len(que) >= 1 /\ Head(que) = que[1]
      /\ Len(rest) = Len(que) - 1 /\ \A i \in 1..Len(rest) : rest[i] = que[i + 1]
  BY TailAt
<1> HIDE DEF rest
<1> SUFFICES ASSUME NEW u \in Others, ~Known(d, u)
             PROVE  \E k \in 1..Len(rest) : /\ Mentions(rest[k], u)
                                            /\ \A i \in 1..k : ~Depends(rest[i])
  BY DEF Awaited, rest
<1>2. ~Known(c, u) /\ ~Mentions(que[1], u)
  BY <1>1, AllIsNoOther
<1>3. PICK k \in 1..Len(que) : Mentions(que[k], u) /\ \A i \in 1..k : ~Depends(que[i])
  BY <1>2 DEF Awaited
<1>4. k # 1
  BY <1>2, <1>3
<1>5. k - 1 \in 1..Len(rest) /\ (k - 1) + 1 = k
  BY <1>1, <1>4
<1>6. \A i \in 1..k - 1 : i \in 1..Len(rest) /\ i + 1 \in 1..k
  BY <1>1, <1>5
<1>7. Mentions(rest[k - 1], u)
  BY <1>1, <1>3, <1>5
<1>8. \A i \in 1..k - 1 : ~Depends(rest[i])
  BY <1>1, <1>3, <1>6
<1> QED BY <1>5, <1>7, <1>8

LEMMA DependsKnown ==
    ASSUME NEW c, NEW que \in Seq(Message), que # << >>, Awaited(c, que), Depends(Head(que))
    PROVE  AllKnown(c)
<1>1. Head(que) = que[1]
  BY TailAt
<1>2. \A k \in 1..Len(que) : 1 \in 1..k
  OBVIOUS
<1> QED BY <1>1, <1>2 DEF Awaited, AllKnown

LEMMA SpokenTail ==
    ASSUME NEW que \in Seq(Message), que # << >>, NEW rec, AllSpoken(que, rec)
    PROVE  Spoken(Head(que), rec) /\ AllSpoken(Tail(que), rec)
<1>1. /\ 1 \in 1..Len(que) /\ Head(que) = que[1]
      /\ \A i \in 1..Len(Tail(que)) : i + 1 \in 1..Len(que) /\ Tail(que)[i] = que[i + 1]
  BY TailAt
<1> QED BY <1>1 DEF AllSpoken

(* The texts Me has a part in, and the messages that carry one.            *)
Mine(row) == row.sendid = Me \/ ReadBy(row, Me)

Carries(m, rid) ==
    \/ m.type = \hA3 /\ m.rid = rid
    \/ m.type = \h92 /\ m.sub = 0 /\ rid \in m.rids

LEMMA MineConcerns ==
    ASSUME NEW row \in RecordRow, NEW conv \in Partners
    PROVE  /\ Mine(row) /\ ConversationOf(row) = conv => Concerns(row, Me, conv)
           /\ Concerns(row, Me, conv) => Mine(row) \/ row.recvid = ALL
           /\ Concerns(row, Me, conv) => ConversationOf(row) = conv
BY AllIsNoOther DEF Mine, ReadBy, ConversationOf, Concerns, RecordRow, Partners, Others

(* d shows the texts that m carries.                                       *)
ShowsAll(d, m, rec) ==
    \A rid \in DOMAIN rec : Carries(m, rid) => Shows(d, ConversationOf(rec[rid]), rid)

(* d is what the head of the queue made of the client c.                   *)
Taken(c, d, que, rec) ==
    /\ Ahead(c, d) /\ ShowsAll(d, Head(que), rec)
    /\ Head(que).type = \h90 => Asks(d, ALL)
    /\ Linked(d, Tail(que), rec, Me)
    /\ AllKnown(c) => AllKnown(d)
    /\ AllKnown(c) /\ Head(que).type # \h90 => d.m_to_uid = c.m_to_uid

LEMMA TakenBy ==
    ASSUME NEW c, NEW que, NEW rec, Linked(c, que, rec, Me), que # << >>,
           NEW d, Sound(d, Tail(que), rec),
           \A u \in Users : Known(c, u) => Known(d, u),
           \A u \in Others : Mentions(Head(que), u) => Known(d, u),
           AllKnown(c) /\ Head(que).type # \h90 => d.m_to_uid = c.m_to_uid,
           Ahead(c, d), ShowsAll(d, Head(que), rec), Head(que).type = \h90 => Asks(d, ALL)
    PROVE  Taken(c, d, que, rec)
<1>1. que \in Seq(Message) /\ Awaited(c, que) /\ AllSpoken(que, rec)
  BY DEF Linked, Sound, Wired
<1>2. Awaited(d, Tail(que))
  BY <1>1, AwaitedTake
<1>3. AllSpoken(Tail(que), rec)
  BY <1>1, SpokenTail
<1>4. AllKnown(c) => AllKnown(d)
  BY AllIsNoOther DEF AllKnown
<1> QED BY <1>2, <1>3, <1>4 DEF Taken, Linked

(* receiveHeader, whatever comes but a refusal.                            *)
LEMMA ParsedTaken ==
    ASSUME NEW c, NEW que, NEW rec \in Seq(RecordRow), rec = record,
           Linked(c, que, rec, Me), que # << >>, ~Refused(Head(que)),
           NEW d \in Parsed(c, Head(que))
    PROVE  Taken(c, d, que, rec)
<1> DEFINE m == Head(que)
           rest == Tail(que)
<1>1. /\ Sound(c, que, rec) /\ que \in Seq(Message) /\ m \in Message /\ m = que[1]
      /\ Awaited(c, que) /\ AllSpoken(que, rec)
  BY TailAt DEF Linked, Sound, Wired
<1>2. Spoken(m, rec)
  BY <1>1, SpokenTail
<1>3. Depends(m) => AllKnown(c)
  BY <1>1, DependsKnown
<1>4. m.type \notin {\h91, \h92} => Sound(c, rest, rec)
  BY <1>1, TakeSound DEF AnswerMessages
<1>5. m.type # \hA1 => \A u : ~Mentions(m, u)
  BY DEF Mentions
<1>0. m.type \notin {\h92, \hA3} => ShowsAll(d, m, rec)
  BY DEF ShowsAll, Carries
<1>6. CASE m.type = \hA1
  <2>1. m.uids \in SUBSET Others
    BY <1>2, <1>6 DEF Spoken
  <2>2. PICK order \in Orders(m.uids) : d = ParseUserListState(c, m.sub = 1, order)
    BY <1>6 DEF Parsed
  <2> DEFINE is_offline == m.sub = 1
  <2>3. is_offline \in BOOLEAN /\ d = ParseUserListState(c, is_offline, order)
    BY <2>2
  <2>4. Sound(c, rest, rec)
    BY <1>4, <1>6
  <2> DEFINE uids == m.uids
  <2>5. uids \in SUBSET Others /\ order \in Orders(uids)
        /\ \A u : Mentions(m, u) <=> u \in uids
    BY <1>6, <2>1, <2>2 DEF Mentions
  <2> HIDE DEF is_offline, m, rest, uids
  <2>6. /\ Sound(d, rest, rec)
        /\ \A u \in uids : Known(d, u)
        /\ \A v \in Users : Known(c, v) => Known(d, v)
        /\ AllKnown(c) => d.m_to_uid = c.m_to_uid
        /\ Ahead(c, d)
    BY <2>3, <2>4, <2>5, UserListSound
  <2> QED BY <1>0, <1>6, <2>5, <2>6, TakenBy DEF m, rest
<1>7. CASE m.type = \h90
  <2>1. d = GetChatHistory(c, ALL)
    BY <1>7 DEF Parsed
  <2>2. ALL \in Partners
    BY DEF Partners
  <2>3. /\ Sound(d, rest, rec) /\ \A u : Known(d, u) <=> Known(c, u)
        /\ Ahead(c, d) /\ Asks(d, ALL)
    BY <1>4, <1>7, <2>1, <2>2, AskHistorySound
  <2> QED BY <1>0, <1>5, <1>7, <2>3, TakenBy
<1>8. CASE m.type \in {\h91, \h92}
  <2>1. AllKnown(c) /\ m \in AnswerMessages /\ m.sub = 0
    BY <1>1, <1>3, <1>8 DEF Depends, AnswerMessages, Refused
  <2>2. CASE m.type = \h91
    <3>1. d = ParseGetUserName(c, m)
      BY <2>2 DEF Parsed
    <3>2. /\ Sound(d, rest, rec) /\ \A u \in Users : Known(c, u) => Known(d, u)
          /\ d.m_to_uid = c.m_to_uid /\ Ahead(c, d)
      BY <1>1, <2>1, <2>2, <3>1, NameSound
    <3> QED BY <1>0, <1>5, <2>2, <3>2, TakenBy
  <2>3. CASE m.type = \h92
    <3>1. d = ParseGetChatHistory(c, m)
      BY <2>3 DEF Parsed
    <3>2. HistoryRead(c, d, que, rec)
      BY <1>1, <2>1, <2>3, <3>1, HistorySound
    <3>3. /\ Sound(d, Tail(que), rec) /\ \A u \in Users : Known(c, u) => Known(d, u)
          /\ d.m_to_uid = c.m_to_uid /\ Ahead(c, d)
          /\ Answering(m, Head(c.m_queue_uid), rec)
          /\ Head(c.m_queue_uid) \in Partners
          /\ \A rid \in m.rids : Shows(d, Head(c.m_queue_uid), rid)
      BY <3>2 DEF HistoryRead
    <3> HIDE DEF m
    <3>4. ShowsAll(d, m, rec)
      <4> DEFINE id == Head(c.m_queue_uid)
      <4> SUFFICES ASSUME NEW rid \in DOMAIN rec, rid \in m.rids
                   PROVE  Shows(d, ConversationOf(rec[rid]), rid)
        BY <2>3 DEF ShowsAll, Carries
      <4>1. rec[rid] \in RecordRow /\ Concerns(rec[rid], Me, id)
        BY <2>1, <2>3, <3>3 DEF Answering
      <4>2. ConversationOf(rec[rid]) = id
        BY <3>3, <4>1, MineConcerns
      <4> QED BY <3>3, <4>2
    <3> QED BY <1>5, <2>3, <3>3, <3>4, TakenBy DEF m
  <2> QED BY <1>8, <2>2, <2>3
<1>9. CASE m.type = \hA3
  <2>1. d = ParseReceiveMessageInfos(c, m)
    BY <1>9 DEF Parsed
  <2>2. Sound(c, rest, rec) /\ AllKnown(c)
    BY <1>3, <1>4, <1>9 DEF Depends
  <2> HIDE DEF m, rest
  <2>3. /\ Sound(d, rest, rec) /\ \A u : Known(d, u) <=> Known(c, u)
        /\ d.m_to_uid = c.m_to_uid
        /\ Ahead(c, d) /\ Shows(d, IF m.sub = 1 THEN ALL ELSE m.src, m.rid)
    BY <1>2, <1>9, <2>1, <2>2, TextSound
  <2>4. ShowsAll(d, m, rec)
    <3>1. m.rid \in DOMAIN rec => ConversationOf(rec[m.rid]) = IF m.sub = 1 THEN ALL ELSE m.src
      BY <1>2, <1>9, AllIsNoOther DEF Spoken, ConversationOf, Others
    <3> QED BY <1>9, <2>3, <3>1 DEF ShowsAll, Carries
  <2> QED BY <1>5, <1>9, <2>3, <2>4, TakenBy DEF m, rest
<1>10. CASE m.type \notin {\hA1, \h90, \h91, \h92, \hA3}
  <2>1. d = c
    BY <1>10 DEF Parsed
  <2>2. Sound(d, rest, rec)
    BY <1>4, <1>10, <2>1
  <2>3. Ahead(c, d)
    BY <2>1, AheadSame
  <2> QED BY <1>0, <1>5, <1>10, <2>1, <2>2, <2>3, TakenBy
<1> QED BY <1>6, <1>7, <1>8, <1>9, <1>10

(* Nothing is taken or queued, and nobody is forgotten.                    *)
LEMMA LinkedBy ==
    ASSUME NEW c, NEW que, NEW rec, NEW own, Linked(c, que, rec, own),
           NEW d, Sound(d, que, rec), \A u : Known(c, u) => Known(d, u)
    PROVE  Linked(d, que, rec, own)
BY DEF Linked, Awaited

(* setUid.                                                                 *)
LEMMA AddressedSound ==
    ASSUME NEW c, NEW que, NEW rec, Sound(c, que, rec), NEW id \in Partners,
           NEW d, d = [c EXCEPT !.m_to_uid = id]
    PROVE  Sound(d, que, rec) /\ d.m_to_uid = id /\ \A u : Known(d, u) <=> Known(c, u)
<1>1. c \in ClientType /\ Kept(c, rec) /\ Accounted(c, que)
  BY DEF Sound, Kept
<1>2. /\ d \in ClientType /\ d.m_to_uid = id
      /\ d.up = c.up /\ d.m_queue_uid = c.m_queue_uid
      /\ d.map_contacts = c.map_contacts /\ d.contacts = c.contacts /\ d.records = c.records
  BY <1>1 DEF ClientType
<1>3. Kept(d, rec) /\ \A u : Known(d, u) <=> Known(c, u)
  <2>1. \A u : Known(d, u) <=> Known(c, u)
    BY <1>2 DEF Known
  <2>2. Kept(d, rec)
    BY <1>1, <1>2, KeptParts
  <2> QED BY <2>1, <2>2
<1>4. Accounted(d, que)
  BY <1>1, <1>2, <1>3, AccountedParts
<1> QED BY <1>2, <1>3, <1>4 DEF Sound, AllKnown

(* Disconnected: what was written is lost.                                 *)
LEMMA KeptUnsent ==
    ASSUME NEW c, NEW rec, Kept(c, rec)
    PROVE  Kept([c EXCEPT !.up = << >>], rec)
<1> DEFINE d == [c EXCEPT !.up = << >>]
<1>1. /\ d \in ClientType /\ d.map_contacts = c.map_contacts
      /\ d.contacts = c.contacts /\ d.records = c.records
  <2>1. << >> \in Seq(Frame) /\ c \in ClientType
    BY DEF Kept
  <2> QED BY <2>1 DEF ClientType
<1> HIDE DEF d
<1>2. Kept(d, rec)
  BY <1>1, KeptParts
<1> QED BY <1>2 DEF d

(* connect2Host, over a connection with an empty queue.                    *)
LEMMA CleanUpLinked ==
    ASSUME NEW c \in ClientType, NEW rec
    PROVE  LET d == CleanUp(c)
           IN  Linked(d, << >>, rec, None) /\ d.up = << >>
<1> DEFINE d == CleanUp(c)
           group == ContactOf(ALL, FALSE)
<1>1. d = [m_queue_uid |-> << >>, m_to_uid |-> c.m_to_uid,
           map_contacts |-> [u \in Users |-> None], contacts |-> <<group>>,
           records |-> [conv \in Conversations |-> << >>], up |-> << >>]
  <2>1. InsertContact(<< >>, ALL, FALSE, ALL) = <<group>>
    BY DEF InsertContact, ContactOf
  <2> HIDE DEF group
  <2>2. NewClient.contacts = << >>
    BY DEF NewClient
  <2>3. CleanUp(c) = [NewClient EXCEPT !.m_to_uid = c.m_to_uid, !.contacts = <<group>>]
    BY <2>1, <2>2 DEF CleanUp
  <2> QED BY <2>3 DEF NewClient
<1>2. group \in ContactRow /\ group.uid = ALL /\ group.name = ALL
  BY ContactRowOf DEF Partners
<1> HIDE DEF d, group
<1>3. d \in ClientType
  <2>1. /\ << >> \in Seq(Partners) /\ << >> \in Seq(Frame) /\ << >> \in Seq(TextRow)
        /\ <<group>> \in Seq(ContactRow) /\ c.m_to_uid \in Partners
    BY <1>2 DEF ClientType
  <2>2. [u \in Users |-> None] \in [Users -> Entry \cup {None}]
    OBVIOUS
  <2>3. [conv \in Conversations |-> << >>] \in [Conversations -> Seq(TextRow)]
    BY <2>1
  <2> QED BY <1>1, <2>1, <2>2, <2>3 DEF ClientType
<1>4. /\ d.m_queue_uid = << >> /\ d.up = << >> /\ d.contacts = <<group>>
      /\ \A u \in Users : ~Known(d, u)
      /\ \A conv \in Conversations : d.records[conv] = << >>
  BY <1>1 DEF Known
<1>5. RowsInOrder(d.contacts)
  BY <1>2, <1>4 DEF RowsInOrder
<1>6. \A u \in Others : ~Listed(d.contacts, u)
  BY <1>2, <1>4, AllIsNoOther DEF Listed
<1>7. Kept(d, rec)
  BY <1>3, <1>4, <1>5, <1>6 DEF Kept, NamesRight, Filed
<1>8. /\ AnswersIn(<< >>) = {} /\ AsksIn(<< >>) = {} /\ \A u : NamesAsked(<< >>, u) = {}
      /\ \A u : NamesIn(<< >>, << >>, u) = {}
  BY DEF AnswersIn, AsksIn, NamesAsked, Places, NamesIn
<1>9. Wired(<< >>, << >>, << >>, rec)
  <2>1. Cardinality({}) = 0 /\ Len(<< >>) = 0
    BY FS_EmptySet
  <2>2. Matches(<< >>, << >>, << >>, rec)
    <3>1. Len(<< >>) = Cardinality(AnswersIn(<< >>)) + Cardinality(AsksIn(<< >>))
      <4> DEFINE a == Cardinality(AnswersIn(<< >>))
                 b == Cardinality(AsksIn(<< >>))
      <4>1. a = 0
        BY <1>8, <2>1, Zenon
      <4>2. b = 0
        BY <1>8, <2>1, Zenon
      <4> HIDE DEF a, b
      <4>3. Len(<< >>) = a + b
        BY <2>1, <4>1, <4>2
      <4> QED BY <4>3 DEF a, b
    <3> QED BY <1>8, <3>1, Zenon DEF Matches
  <2>3. << >> \in Seq(Partners) /\ << >> \in Seq(Message) /\ << >> \in Seq(Frame)
    OBVIOUS
  <2> QED BY <2>2, <2>3 DEF Wired
<1>10. Accounted(d, << >>)
  BY <1>4, <1>6, <1>8, AllIsNoOther DEF Accounted, OneName
<1>11. Sound(d, << >>, rec)
  BY <1>4, <1>6, <1>7, <1>9, <1>10 DEF Sound
<1>12. Linked(d, << >>, rec, None)
  BY <1>11, NamesAssumption DEF Linked, AllSpoken
<1> QED BY <1>4, <1>12 DEF d

-----------------------------------------------------------------------------
(* What is still to be shown.                                              *)

Queued(que, rid) == \E i \in 1..Len(que) : Carries(que[i], rid)
Admits(que)      == \E i \in 1..Len(que) : que[i].type = \h90
Ends(que)        == \E i \in 1..Len(que) : que[i].type = \hA0

(* The text rid of the conversation conv is shown, or will be without      *)
(* anything else being sent.                                               *)
Coming(c, que, conv, rid) ==
    \/ Shows(c, conv, rid) \/ Asks(c, conv)
    \/ Queued(que, rid)
    \/ conv # ALL /\ ~Known(c, conv)
    \/ conv = ALL /\ Admits(que)

Missing(c, que, rec, conv) ==
    {rid \in DOMAIN rec : /\ Mine(rec[rid]) /\ ConversationOf(rec[rid]) = conv
                          /\ ~Coming(c, que, conv, rid)}

(* What is missing Me has written itself, and its rows were added when it  *)
(* did, as were those of the texts that are not saved yet.                 *)
OwedIn(c, que, rec, conv) ==
    /\ \A rid \in Missing(c, que, rec, conv) : rec[rid].sendid = Me
    /\ Cardinality(Missing(c, que, rec, conv)) + Cardinality(TextsTo(c.up, conv))
         <= Cardinality(Added(c.records[conv]))

Owed(c, que, rec) == \A conv \in Partners : OwedIn(c, que, rec, conv)

LEMMA OwedTypes ==
    ASSUME NEW c \in ClientType, NEW que, NEW rec \in Seq(RecordRow), NEW conv \in Partners
    PROVE  /\ IsFiniteSet(Missing(c, que, rec, conv))
           /\ Cardinality(Missing(c, que, rec, conv)) \in Nat
           /\ Missing(c, que, rec, conv) \in SUBSET (1..Len(rec)) /\ Len(rec) \in Nat
           /\ TextsTo(c.up, conv) \in SUBSET (1..Len(c.up)) /\ Len(c.up) \in Nat
           /\ Cardinality(TextsTo(c.up, conv)) \in Nat
           /\ Cardinality(Added(c.records[conv])) \in Nat
<1>1. DOMAIN rec = 1..Len(rec) /\ Len(rec) \in Nat
  BY LenProperties
<1>2. Missing(c, que, rec, conv) \in SUBSET (1..Len(rec))
  BY <1>1 DEF Missing
<1>3. DOMAIN c.up = 1..Len(c.up) /\ Len(c.up) \in Nat
  BY LenProperties DEF ClientType
<1>4. TextsTo(c.up, conv) \in SUBSET (1..Len(c.up))
  BY <1>3 DEF TextsTo, Places
<1> DEFINE rows == c.records[conv]
<1>5. rows \in Seq(TextRow)
  <2>1. conv \in Conversations
    BY DEF Partners, Others, Conversations
  <2> QED BY <2>1 DEF ClientType
<1> HIDE DEF rows
<1>6. DOMAIN rows = 1..Len(rows) /\ Len(rows) \in Nat
  BY <1>5, LenProperties
<1>7. Added(rows) \in SUBSET (1..Len(rows))
  BY <1>6 DEF Added, Places
<1>8. IsFiniteSet(Missing(c, que, rec, conv)) /\ Cardinality(Missing(c, que, rec, conv)) \in Nat
  BY <1>1, <1>2, RankType
<1>9. Cardinality(TextsTo(c.up, conv)) \in Nat
  BY <1>3, <1>4, RankType
<1>10. Cardinality(Added(rows)) \in Nat
  BY <1>6, <1>7, RankType
<1> QED BY <1>1, <1>2, <1>3, <1>4, <1>8, <1>9, <1>10 DEF rows

(* Nothing more is missing, and no more texts are on their way.            *)
LEMMA OwedBy ==
    ASSUME NEW c \in ClientType, NEW que, NEW rec \in Seq(RecordRow), NEW conv \in Partners,
           OwedIn(c, que, rec, conv),
           NEW d \in ClientType, NEW quf, NEW ref \in Seq(RecordRow),
           \A rid \in Missing(d, quf, ref, conv) :
              rid \in Missing(c, que, rec, conv) /\ ref[rid] = rec[rid],
           Cardinality(TextsTo(d.up, conv)) <= Cardinality(TextsTo(c.up, conv)),
           Cardinality(Added(c.records[conv])) <= Cardinality(Added(d.records[conv]))
    PROVE  OwedIn(d, quf, ref, conv)
<1> DEFINE M == Missing(c, que, rec, conv)
           N == Missing(d, quf, ref, conv)
<1>1. /\ IsFiniteSet(M) /\ Cardinality(M) \in Nat
      /\ Cardinality(TextsTo(c.up, conv)) \in Nat /\ Cardinality(Added(c.records[conv])) \in Nat
  BY OwedTypes
<1>2. /\ Cardinality(N) \in Nat
      /\ Cardinality(TextsTo(d.up, conv)) \in Nat /\ Cardinality(Added(d.records[conv])) \in Nat
  BY OwedTypes
<1> HIDE DEF M, N
<1>3. \A rid \in N : rid \in M /\ ref[rid] = rec[rid]
  BY DEF M, N
<1>4. Cardinality(N) <= Cardinality(M)
  BY <1>1, <1>3, FS_Subset
<1>5. /\ \A rid \in M : rec[rid].sendid = Me
      /\ Cardinality(M) + Cardinality(TextsTo(c.up, conv)) <= Cardinality(Added(c.records[conv]))
  BY DEF OwedIn, M
<1>6. \A rid \in N : ref[rid].sendid = Me
  BY <1>3, <1>5
<1>7. Cardinality(N) + Cardinality(TextsTo(d.up, conv)) <= Cardinality(Added(d.records[conv]))
  BY <1>1, <1>2, <1>4, <1>5
<1> QED BY <1>6, <1>7 DEF OwedIn, N

(* The client goes on to d and the queue to quf, and what came still does. *)
LEMMA OwedKeeps ==
    ASSUME NEW c \in ClientType, NEW que, NEW rec \in Seq(RecordRow), Owed(c, que, rec),
           NEW d \in ClientType, Keeps(c, d), NEW quf,
           \A conv \in Partners : \A rid \in DOMAIN rec :
              ConversationOf(rec[rid]) = conv /\ Coming(c, que, conv, rid)
                 => Coming(d, quf, conv, rid)
    PROVE  Owed(d, quf, rec)
<1> SUFFICES ASSUME NEW conv \in Partners PROVE OwedIn(d, quf, rec, conv)
  BY DEF Owed
<1>1. OwedIn(c, que, rec, conv)
  BY DEF Owed
<1>2. \A rid \in Missing(d, quf, rec, conv) : rid \in Missing(c, que, rec, conv)
  BY DEF Missing
<1>3. /\ Cardinality(TextsTo(d.up, conv)) = Cardinality(TextsTo(c.up, conv))
      /\ Cardinality(Added(d.records[conv])) = Cardinality(Added(c.records[conv]))
  BY DEF Keeps
<1>4. /\ Cardinality(TextsTo(c.up, conv)) \in Nat
      /\ Cardinality(Added(c.records[conv])) \in Nat
  BY OwedTypes
<1>5. /\ Cardinality(TextsTo(d.up, conv)) <= Cardinality(TextsTo(c.up, conv))
      /\ Cardinality(Added(c.records[conv])) <= Cardinality(Added(d.records[conv]))
  BY <1>3, <1>4
<1> QED BY <1>1, <1>2, <1>5, OwedBy

(* Something may be queued, and nothing is taken.                          *)
Extends(que, quf) ==
    /\ \A rid : Queued(que, rid) => Queued(quf, rid)
    /\ Admits(que) => Admits(quf)
    /\ Ends(que) => Ends(quf)

LEMMA ExtendsPush ==
    ASSUME NEW que \in Seq(Message), NEW m \in Message
    PROVE  /\ Extends(que, Append(que, m))
           /\ \A rid : Carries(m, rid) => Queued(Append(que, m), rid)
           /\ m.type = \h90 => Admits(Append(que, m))
<1> DEFINE longer == Append(que, m)
<1>1. /\ Len(que) \in Nat /\ Len(longer) = Len(que) + 1
      /\ longer[Len(que) + 1] = m
      /\ \A i \in 1..Len(que) : longer[i] = que[i]
  BY AppendAt
<1> HIDE DEF longer
<1>2. Len(que) + 1 \in 1..Len(longer) /\ \A i \in 1..Len(que) : i \in 1..Len(longer)
  BY <1>1
<1>3. Extends(que, longer)
  <2>1. ASSUME NEW rid, Queued(que, rid) PROVE Queued(longer, rid)
    <3>1. PICK i \in 1..Len(que) : Carries(que[i], rid)
      BY <2>1 DEF Queued
    <3>2. i \in 1..Len(longer) /\ longer[i] = que[i]
      BY <1>1, <1>2
    <3> QED BY ONLY <3>1, <3>2 DEF Queued
  <2>2. ASSUME Admits(que) PROVE Admits(longer)
    <3>1. PICK i \in 1..Len(que) : que[i].type = \h90
      BY <2>2 DEF Admits
    <3>2. i \in 1..Len(longer) /\ longer[i] = que[i]
      BY <1>1, <1>2
    <3> QED BY ONLY <3>1, <3>2 DEF Admits
  <2>3. ASSUME Ends(que) PROVE Ends(longer)
    <3>1. PICK i \in 1..Len(que) : que[i].type = \hA0
      BY <2>3 DEF Ends
    <3>2. i \in 1..Len(longer) /\ longer[i] = que[i]
      BY <1>1, <1>2
    <3> QED BY ONLY <3>1, <3>2 DEF Ends
  <2> QED BY <2>1, <2>2, <2>3 DEF Extends
<1>4. \A rid : Carries(m, rid) => Queued(longer, rid)
  BY <1>1, <1>2 DEF Queued
<1>5. m.type = \h90 => Admits(longer)
  BY <1>1, <1>2 DEF Admits
<1> QED BY <1>3, <1>4, <1>5 DEF longer

LEMMA OwedExtends ==
    ASSUME NEW c \in ClientType, NEW que, NEW rec \in Seq(RecordRow), Owed(c, que, rec),
           NEW quf, Extends(que, quf)
    PROVE  Owed(c, quf, rec)
<1>1. Keeps(c, c)
  BY AheadSame
<1>2. \A conv, rid : Coming(c, que, conv, rid) => Coming(c, quf, conv, rid)
  BY DEF Coming, Extends
<1> QED BY <1>1, <1>2, OwedKeeps

(* Another's text is saved, and forwarded if Me is to read it.             *)
LEMMA OwedSaved ==
    ASSUME NEW c \in ClientType, NEW que, NEW rec \in Seq(RecordRow), Owed(c, que, rec),
           NEW row \in RecordRow, row.sendid # Me,
           NEW quf, Extends(que, quf), ReadBy(row, Me) => Queued(quf, Len(rec) + 1)
    PROVE  Owed(c, quf, Append(rec, row))
<1> DEFINE more == Append(rec, row)
           n == Len(rec)
<1>1. /\ more \in Seq(RecordRow) /\ DOMAIN rec = 1..n /\ DOMAIN more = 1..(n + 1) /\ n \in Nat
      /\ more[n + 1] = row /\ \A i \in 1..n : more[i] = rec[i]
  <2>1. /\ more \in Seq(RecordRow) /\ Len(more) = n + 1 /\ n \in Nat
        /\ more[n + 1] = row /\ \A i \in 1..n : more[i] = rec[i]
    OBVIOUS
  <2> QED BY <2>1, LenProperties
<1>2. ReadBy(row, Me) => Queued(quf, n + 1)
  OBVIOUS
<1> HIDE DEF more, n
<1> SUFFICES ASSUME NEW conv \in Partners PROVE OwedIn(c, quf, more, conv)
  BY DEF Owed, more
<1>3. OwedIn(c, quf, rec, conv)
  BY OwedExtends DEF Owed
<1>4. ASSUME NEW rid \in Missing(c, quf, more, conv)
      PROVE  rid \in Missing(c, quf, rec, conv) /\ more[rid] = rec[rid]
  <2>1. rid \in 1..(n + 1) /\ Mine(more[rid]) /\ ~Coming(c, quf, conv, rid)
    BY <1>1 DEF Missing
  <2>2. rid # n + 1
    BY <1>1, <1>2, <2>1 DEF Mine, Coming
  <2>3. rid \in 1..n
    BY <1>1, <2>1, <2>2
  <2> QED BY <1>1, <2>3 DEF Missing
<1>5. /\ Cardinality(TextsTo(c.up, conv)) \in Nat
      /\ Cardinality(Added(c.records[conv])) \in Nat
  BY OwedTypes
<1> QED BY <1>1, <1>3, <1>4, <1>5, OwedBy

(* The client takes the head of its queue.                                 *)
LEMMA OwedTaken ==
    ASSUME NEW c \in ClientType, NEW que \in Seq(Message), que # << >>,
           NEW rec \in Seq(RecordRow), Owed(c, que, rec),
           NEW d \in ClientType, Taken(c, d, que, rec)
    PROVE  Owed(d, Tail(que), rec)
<1> DEFINE rest == Tail(que)
           m == Head(que)
<1>1. /\ Len(que) \in Nat /\ m = que[1]
      /\ Len(rest) = Len(que) - 1 /\ \A i \in 1..Len(rest) : rest[i] = que[i + 1]
  BY TailAt
<1>2. Ahead(c, d) /\ ShowsAll(d, m, rec) /\ (m.type = \h90 => Asks(d, ALL))
  BY DEF Taken
<1> HIDE DEF rest, m
<1>3. \A i \in 1..Len(que) : i = 1 \/ (i - 1 \in 1..Len(rest) /\ rest[i - 1] = que[i])
  <2> SUFFICES ASSUME NEW i \in 1..Len(que), i # 1
               PROVE  i - 1 \in 1..Len(rest) /\ rest[i - 1] = que[i]
    OBVIOUS
  <2>1. i - 1 \in 1..Len(rest) /\ (i - 1) + 1 = i
    BY <1>1
  <2> QED BY <1>1, <2>1
<1>4. \A rid : Queued(que, rid) => Carries(m, rid) \/ Queued(rest, rid)
  BY <1>1, <1>3 DEF Queued
<1>5. Admits(que) => m.type = \h90 \/ Admits(rest)
  BY <1>1, <1>3 DEF Admits
<1>6. ASSUME NEW conv \in Partners, NEW rid \in DOMAIN rec, ConversationOf(rec[rid]) = conv,
             Coming(c, que, conv, rid)
      PROVE  Coming(d, rest, conv, rid)
  <2>1. CASE Shows(c, conv, rid) \/ Asks(c, conv)
    BY <1>2, <2>1 DEF Ahead, Keeps, Coming
  <2>2. CASE Queued(que, rid)
    BY <1>2, <1>4, <1>6, <2>2 DEF ShowsAll, Coming
  <2>3. CASE conv # ALL /\ ~Known(c, conv)
    <3>1. conv \in Others
      BY <2>3 DEF Partners
    <3> QED BY <1>2, <2>3, <3>1 DEF Ahead, Coming
  <2>4. CASE conv = ALL /\ Admits(que)
    BY <1>2, <1>5, <2>4 DEF Coming
  <2> QED BY <1>6, <2>1, <2>2, <2>3, <2>4 DEF Coming
<1>7. Keeps(c, d)
  BY <1>2 DEF Ahead
<1>8. Owed(d, rest, rec)
  BY <1>6, <1>7, OwedKeeps
<1> QED BY <1>8 DEF rest

(* The oldest frame is read at the other end.                              *)
LEMMA GoneAsks ==
    ASSUME NEW c \in ClientType, c.up # << >>, NEW conv
    PROVE  LET d == FrameGone(c)
           IN  /\ Asks(c, conv) => Asks(d, conv) \/ Head(c.up) = HistoryFrame(conv)
               /\ \A rid : Shows(c, conv, rid) => Shows(d, conv, rid)
               /\ Known(d, conv) <=> Known(c, conv)
               /\ Cardinality(TextsTo(c.up, conv)) =
                     Cardinality(TextsTo(d.up, conv))
                       + IF Head(c.up) = [op |-> "textmsg", uid |-> conv] THEN 1 ELSE 0
<1> DEFINE d == FrameGone(c)
           up == c.up
           rest == Tail(up)
           n == Len(up)
<1>1. d.up = rest /\ d.records = c.records /\ d.map_contacts = c.map_contacts
  BY FrameGoneParts
<1>2. up \in Seq(Frame) /\ up # << >>
  BY DEF ClientType
<1> HIDE DEF up, d
<1>3. /\ rest \in Seq(Frame) /\ Head(up) = up[1] /\ Len(rest) = n - 1 /\ n \in Nat /\ n >= 1
      /\ \A i \in 1..(n - 1) : rest[i] = up[i + 1]
  BY <1>2
<1>4. DOMAIN rest = 1..(n - 1) /\ DOMAIN up = 1..n
  BY <1>2, <1>3, LenProperties
<1> HIDE DEF rest, n
<1>5. ASSUME Asks(c, conv), Head(up) # HistoryFrame(conv) PROVE Asks(d, conv)
  <2>1. PICK i \in 1..n : up[i] = HistoryFrame(conv)
    BY <1>4, <1>5 DEF Asks, up
  <2>2. i # 1
    BY <1>3, <1>5, <2>1
  <2>3. i - 1 \in 1..(n - 1) /\ (i - 1) + 1 = i
    BY <1>3, <2>2
  <2>4. rest[i - 1] = HistoryFrame(conv)
    BY <1>3, <2>1, <2>3
  <2> QED BY <1>1, <1>4, <2>3, <2>4 DEF Asks
<1> DEFINE K == {[op |-> "textmsg", uid |-> conv]}
           S == Places(up, K)
<1>6. Places(rest, K) = Back(S) /\ (1 \in S <=> Head(up) \in K)
  BY <1>2, PlacesTail DEF rest
<1>7. S \in SUBSET (1..n)
  BY <1>4 DEF Places
<1>8. /\ TextsTo(up, conv) = S /\ TextsTo(d.up, conv) = Places(rest, K)
      /\ (Head(up) \in K <=> Head(up) = [op |-> "textmsg", uid |-> conv])
  BY <1>1 DEF TextsTo
<1> HIDE DEF K, S
<1>9. Cardinality(S) = Cardinality(Back(S)) + IF 1 \in S THEN 1 ELSE 0
  <2>1. Cardinality(S) \in Nat
    BY <1>3, <1>7, RankType
  <2> QED BY <1>3, <1>7, <2>1, RankBack
<1> QED BY <1>1, <1>5, <1>6, <1>8, <1>9 DEF Shows, Known, up, d

(* If it asked for a history, what that holds is queued.                   *)
LEMMA OwedHandled ==
    ASSUME NEW c \in ClientType, c.up # << >>,
           NEW que, NEW rec \in Seq(RecordRow), Owed(c, que, rec),
           NEW quf, Extends(que, quf),
           \A rid \in DOMAIN rec :
              Mine(rec[rid]) /\ Head(c.up) = HistoryFrame(ConversationOf(rec[rid]))
                 => Queued(quf, rid)
    PROVE  Owed(FrameGone(c), quf, rec)
<1> DEFINE d == FrameGone(c)
<1>1. d \in ClientType /\ d.records = c.records
  BY FrameGoneParts
<1> HIDE DEF d
<1> SUFFICES ASSUME NEW conv \in Partners PROVE OwedIn(d, quf, rec, conv)
  BY DEF Owed, d
<1>2. OwedIn(c, que, rec, conv)
  BY DEF Owed
<1>3. /\ Asks(c, conv) => Asks(d, conv) \/ Head(c.up) = HistoryFrame(conv)
      /\ \A rid : Shows(c, conv, rid) => Shows(d, conv, rid)
      /\ Known(d, conv) <=> Known(c, conv)
      /\ Cardinality(TextsTo(c.up, conv)) =
            Cardinality(TextsTo(d.up, conv))
              + IF Head(c.up) = [op |-> "textmsg", uid |-> conv] THEN 1 ELSE 0
  BY GoneAsks DEF d
<1>4. ASSUME NEW rid \in Missing(d, quf, rec, conv) PROVE rid \in Missing(c, que, rec, conv)
  <2>1. /\ rid \in DOMAIN rec /\ Mine(rec[rid]) /\ ConversationOf(rec[rid]) = conv
        /\ ~Coming(d, quf, conv, rid)
    BY DEF Missing
  <2>2. ~Coming(c, que, conv, rid)
    BY <1>3, <2>1 DEF Coming, Extends
  <2> QED BY <2>1, <2>2 DEF Missing
<1>5. /\ Cardinality(TextsTo(c.up, conv)) \in Nat /\ Cardinality(TextsTo(d.up, conv)) \in Nat
      /\ Cardinality(Added(c.records[conv])) \in Nat
  BY <1>1, OwedTypes
<1>6. Cardinality(TextsTo(d.up, conv)) <= Cardinality(TextsTo(c.up, conv))
  BY <1>3, <1>5
<1>7. Cardinality(Added(c.records[conv])) <= Cardinality(Added(d.records[conv]))
  BY <1>1, <1>5
<1> QED BY <1>1, <1>2, <1>4, <1>6, <1>7, OwedBy

(* If it is a text, that is saved.                                         *)
LEMMA OwedText ==
    ASSUME NEW c \in ClientType, c.up # << >>,
           NEW que, NEW rec \in Seq(RecordRow), Owed(c, que, rec),
           NEW quf, Extends(que, quf),
           NEW id \in Partners, Head(c.up) = [op |-> "textmsg", uid |-> id],
           NEW row \in RecordRow, row.sendid = Me, row.recvid = id
    PROVE  Owed(FrameGone(c), quf, Append(rec, row))
<1> DEFINE d == FrameGone(c)
           more == Append(rec, row)
           n == Len(rec)
<1>1. d \in ClientType /\ d.records = c.records
  BY FrameGoneParts
<1>2. /\ more \in Seq(RecordRow) /\ DOMAIN rec = 1..n /\ DOMAIN more = 1..(n + 1) /\ n \in Nat
      /\ more[n + 1] = row /\ \A i \in 1..n : more[i] = rec[i]
  <2>1. /\ more \in Seq(RecordRow) /\ Len(more) = n + 1 /\ n \in Nat
        /\ more[n + 1] = row /\ \A i \in 1..n : more[i] = rec[i]
    OBVIOUS
  <2> QED BY <2>1, LenProperties
<1> HIDE DEF d, more, n
<1> SUFFICES ASSUME NEW conv \in Partners PROVE OwedIn(d, quf, more, conv)
  BY DEF Owed, d, more
<1> DEFINE M == Missing(c, que, rec, conv)
           N == Missing(d, quf, more, conv)
<1>3. OwedIn(c, que, rec, conv)
  BY DEF Owed
<1>4. /\ Asks(c, conv) => Asks(d, conv)
      /\ \A rid : Shows(c, conv, rid) => Shows(d, conv, rid)
      /\ Known(d, conv) <=> Known(c, conv)
      /\ Cardinality(TextsTo(c.up, conv)) =
            Cardinality(TextsTo(d.up, conv)) + IF conv = id THEN 1 ELSE 0
  <2>1. /\ Head(c.up) # HistoryFrame(conv)
        /\ Head(c.up) = [op |-> "textmsg", uid |-> conv] <=> conv = id
    BY DEF HistoryFrame
  <2> QED BY <2>1, GoneAsks DEF d
<1>5. \A rid : Coming(c, que, conv, rid) => Coming(d, quf, conv, rid)
  BY <1>4 DEF Coming, Extends
<1>6. ASSUME NEW rid \in N
      PROVE  \/ rid \in M /\ more[rid] = rec[rid]
             \/ rid = n + 1 /\ conv = id
  <2>1. /\ rid \in 1..(n + 1) /\ Mine(more[rid]) /\ ConversationOf(more[rid]) = conv
        /\ ~Coming(c, que, conv, rid)
    BY <1>2, <1>5 DEF Missing
  <2>2. CASE rid = n + 1
    BY <1>2, <2>1, <2>2 DEF ConversationOf
  <2>3. CASE rid \in 1..n
    BY <1>2, <2>1, <2>3 DEF Missing
  <2> QED BY <1>2, <2>1, <2>2, <2>3
<1>7. /\ Cardinality(TextsTo(c.up, conv)) \in Nat /\ Cardinality(TextsTo(d.up, conv)) \in Nat
      /\ Cardinality(Added(c.records[conv])) \in Nat
      /\ IsFiniteSet(M) /\ Cardinality(M) \in Nat
  BY <1>1, OwedTypes
<1>8. CASE conv # id
  <2>1. Cardinality(TextsTo(d.up, conv)) <= Cardinality(TextsTo(c.up, conv))
    BY <1>4, <1>7, <1>8
  <2>2. Cardinality(Added(c.records[conv])) <= Cardinality(Added(d.records[conv]))
    BY <1>1, <1>7
  <2> QED BY <1>1, <1>2, <1>3, <1>6, <1>8, <2>1, <2>2, OwedBy
<1>9. CASE conv = id
  <2>1. Cardinality(N) \in Nat /\ Cardinality(N) <= Cardinality(M) + 1
    <3> HIDE DEF M, N
    <3> DEFINE U == M \cup {n + 1}
    <3>1. /\ IsFiniteSet(U)
          /\ Cardinality(U) = Cardinality(M) \/ Cardinality(U) = Cardinality(M) + 1
      BY <1>7, FS_AddElement
    <3>2. N \in SUBSET U
      BY <1>6
    <3> HIDE DEF U
    <3>3. /\ Cardinality(N) \in Nat /\ Cardinality(U) \in Nat
          /\ Cardinality(N) <= Cardinality(U)
      BY <3>1, <3>2, FS_Subset, FS_CardinalityType
    <3> QED BY <1>7, <3>1, <3>3
  <2>2. /\ \A rid \in M : rec[rid].sendid = Me
        /\ Cardinality(M) + Cardinality(TextsTo(c.up, conv)) <= Cardinality(Added(c.records[conv]))
    BY <1>3 DEF OwedIn
  <2> HIDE DEF M, N
  <2>3. \A rid \in N : more[rid].sendid = Me
    BY <1>2, <1>6, <2>2
  <2>4. Cardinality(N) + Cardinality(TextsTo(d.up, conv)) <= Cardinality(Added(d.records[conv]))
    BY <1>1, <1>4, <1>7, <1>9, <2>1, <2>2
  <2> QED BY <2>3, <2>4 DEF OwedIn, N
<1> QED BY <1>8, <1>9

(* The client is let in, with nobody known to it.                          *)
LEMMA OwedFresh ==
    ASSUME NEW c \in ClientType, c.up = << >>, \A u \in Others : ~Known(c, u),
           NEW que, Admits(que), NEW rec \in Seq(RecordRow)
    PROVE  Owed(c, que, rec)
<1> SUFFICES ASSUME NEW conv \in Partners PROVE OwedIn(c, que, rec, conv)
  BY DEF Owed
<1>1. Missing(c, que, rec, conv) = {}
  BY DEF Missing, Coming, Partners
<1>2. TextsTo(c.up, conv) = {}
  BY DEF TextsTo, Places
<1>3. Cardinality(Added(c.records[conv])) \in Nat
  BY OwedTypes
<1>4. Cardinality({}) = 0
  BY FS_EmptySet
<1>5. Cardinality(Missing(c, que, rec, conv)) = 0
  BY <1>1, <1>4, Zenon
<1>6. Cardinality(TextsTo(c.up, conv)) = 0
  BY <1>2, <1>4, Zenon
<1>7. \A rid \in Missing(c, que, rec, conv) : rec[rid].sendid = Me
  BY <1>1, Zenon
<1>8. Cardinality(Missing(c, que, rec, conv)) + Cardinality(TextsTo(c.up, conv))
        <= Cardinality(Added(c.records[conv]))
  BY <1>3, <1>5, <1>6
<1> QED BY <1>7, <1>8 DEF OwedIn

(* A text is sent and its row added.                                       *)
LEMMA OwedSent ==
    ASSUME NEW c \in ClientType, NEW que, NEW rec \in Seq(RecordRow), Owed(c, que, rec),
           NEW id \in Partners, NEW row \in TextRow, row.txt = 0, row.sentByMe,
           NEW d \in ClientType, \A u : Known(d, u) <=> Known(c, u),
           d.up = Append(c.up, [op |-> "textmsg", uid |-> id]),
           d.records = [c.records EXCEPT ![id] = <<row>> \o c.records[id]]
    PROVE  Owed(d, que, rec)
<1> SUFFICES ASSUME NEW conv \in Partners PROVE OwedIn(d, que, rec, conv)
  BY DEF Owed
<1> DEFINE frame == [op |-> "textmsg", uid |-> id]
           up == c.up
           longer == Append(up, frame)
           rows == c.records[id]
           more == <<row>> \o rows
<1>1. /\ id \in Conversations /\ conv \in Conversations
      /\ c.records \in [Conversations -> Seq(TextRow)] /\ rows \in Seq(TextRow)
      /\ up \in Seq(Frame) /\ frame \in Frame
  BY DEF Partners, Others, Conversations, ClientType, Frame
<1>2. d.up = longer
  OBVIOUS
<1> HIDE DEF frame, rows
<1>3. d.records = [c.records EXCEPT ![id] = more]
  BY DEF rows
<1>4. /\ Len(more) = Len(rows) + 1 /\ more \in Seq(TextRow)
      /\ \A i \in 1..Len(rows) : more[i + 1] = rows[i]
      /\ Cardinality(Added(more)) = Cardinality(Added(rows)) + 1
  BY <1>1, AddedMore
<1> HIDE DEF more
<1>5. Cardinality(Added(d.records[conv])) =
         Cardinality(Added(c.records[conv])) + IF conv = id THEN 1 ELSE 0
  <2>1. Cardinality(Added(c.records[conv])) \in Nat
    BY OwedTypes
  <2>2. CASE conv = id
    <3>1. d.records[conv] = more /\ c.records[conv] = rows
      BY <1>1, <1>3, <2>2 DEF rows
    <3> QED BY <1>4, <2>2, <3>1
  <2>3. CASE conv # id
    <3>1. d.records[conv] = c.records[conv]
      BY <1>1, <1>3, <2>3
    <3> QED BY <2>1, <2>3, <3>1
  <2> QED BY <2>2, <2>3
<1>6. /\ Len(longer) = Len(up) + 1 /\ Len(up) \in Nat /\ longer \in Seq(Frame)
      /\ \A i \in 1..Len(up) : longer[i] = up[i]
  BY <1>1
<1>7. Cardinality(TextsTo(longer, conv)) =
         Cardinality(TextsTo(up, conv)) + IF conv = id THEN 1 ELSE 0
  <2> DEFINE K == {[op |-> "textmsg", uid |-> conv]}
             S == Places(up, K)
             n == Len(up)
  <2>1. frame \in K <=> conv = id
    BY DEF frame
  <2>2. TextsTo(longer, conv) = Places(longer, K) /\ TextsTo(up, conv) = S
    BY DEF TextsTo
  <2> HIDE DEF K, up
  <2>3. /\ S \in SUBSET (1..n) /\ n \in Nat
        /\ Places(longer, K) = IF frame \in K THEN S \cup {n + 1} ELSE S
    BY <1>1, PlacesAppend
  <2> HIDE DEF S, n, longer
  <2>4. Cardinality(S) \in Nat /\ Cardinality(S \cup {n + 1}) = Cardinality(S) + 1
    BY <2>3, RankType, RankAdd
  <2> QED BY <2>1, <2>2, <2>3, <2>4
<1>8. DOMAIN longer = 1..(Len(up) + 1) /\ DOMAIN up = 1..Len(up)
      /\ DOMAIN more = 1..(Len(rows) + 1) /\ DOMAIN rows = 1..Len(rows)
      /\ Len(up) \in Nat /\ Len(rows) \in Nat
  BY <1>1, <1>4, <1>6, LenProperties
<1> HIDE DEF longer, up
<1>9. Asks(c, conv) => Asks(d, conv)
  BY <1>2, <1>6, <1>8 DEF Asks, up
<1>10. ASSUME NEW rid, Shows(c, conv, rid) PROVE Shows(d, conv, rid)
  <2>1. CASE conv = id
    <3>1. PICK i \in DOMAIN rows : rows[i].txt = rid
      BY <1>10, <2>1 DEF Shows, rows
    <3>2. i + 1 \in DOMAIN more /\ more[i + 1] = rows[i]
      BY <1>4, <1>8, <3>1
    <3>3. d.records[conv] = more
      BY <1>1, <1>3, <2>1
    <3> QED BY <3>1, <3>2, <3>3 DEF Shows
  <2>2. CASE conv # id
    BY <1>1, <1>3, <1>10, <2>2 DEF Shows
  <2> QED BY <2>1, <2>2
<1>11. \A rid : Coming(c, que, conv, rid) => Coming(d, que, conv, rid)
  BY <1>9, <1>10 DEF Coming
<1> DEFINE M == Missing(c, que, rec, conv)
           N == Missing(d, que, rec, conv)
<1>12. \A rid \in N : rid \in M
  BY <1>11 DEF Missing
<1>13. /\ \A rid \in M : rec[rid].sendid = Me
       /\ Cardinality(M) + Cardinality(TextsTo(up, conv)) <= Cardinality(Added(c.records[conv]))
  BY DEF Owed, OwedIn, up
<1>14. /\ IsFiniteSet(M) /\ Cardinality(M) \in Nat /\ Cardinality(N) \in Nat
       /\ Cardinality(TextsTo(up, conv)) \in Nat /\ Cardinality(Added(c.records[conv])) \in Nat
  BY OwedTypes DEF up
<1> HIDE DEF M, N
<1>15. Cardinality(N) <= Cardinality(M)
  BY <1>12, <1>14, FS_Subset
<1>16. Cardinality(N) + Cardinality(TextsTo(d.up, conv)) <= Cardinality(Added(d.records[conv]))
  <2>1. Cardinality(TextsTo(d.up, conv)) =
           Cardinality(TextsTo(up, conv)) + IF conv = id THEN 1 ELSE 0
    BY <1>2, <1>7, Zenon
  <2> QED BY <1>5, <1>13, <1>14, <1>15, <2>1
<1> QED BY <1>12, <1>13, <1>16 DEF OwedIn, N


-----------------------------------------------------------------------------
(* Steps of others, and of the daemon.                                     *)

(* The table of texts is as it was, or has one more row.                   *)
Grows == record' = record \/ \E row \in RecordRow : record' = Append(record, row)

(* The session at s stays what it is, or has ended and s is to be told so. *)
SessionStays(s) ==
    fd_to_uid'[s] = fd_to_uid[s] \/ (fd_to_uid'[s] = None /\ Ends(out'.que[s]))

(* A text that is saved is another's, and is forwarded if Me is to read it.*)
ForwardedTo(s, row) ==
    /\ record' = Append(record, row)
    /\ row.sendid # Me
    /\ ReadBy(row, Me) => Queued(out'.que[s], Len(record) + 1)

TextsComplete(s) ==
    record' = record \/ fd_to_uid[s] # Me \/ \E row \in RecordRow : ForwardedTo(s, row)

(* All that the step of another does to the connection s: it may leave a   *)
(* message there that is not an answer.                                    *)
Overhears(s) ==
    /\ phase'[s] = phase[s] /\ owner'[s] = owner[s]
    /\ \/ out'.que[s] = out.que[s]
       \/ \E m \in Message \ AnswerMessages :
             out'.que[s] = Append(out.que[s], m) /\ Spoken(m, record')
    /\ SessionStays(s) /\ TextsComplete(s)

LEMMA StepGrows == IInv /\ SomeStep => Grows
<1> SUFFICES ASSUME IInv, SomeStep PROVE Grows
  OBVIOUS
<1>1. ASSUME NEW f \in Fd, NEW u \in Users, NEW dst_uid \in Uids, Forwards(f, u, dst_uid)
      PROVE  Grows
  <2>1. [sendid |-> u, recvid |-> dst_uid] \in RecordRow
    BY DEF RecordRow
  <2> QED BY <1>1, <2>1 DEF Forwards, SaveAndForward, SaveMessage, Grows
<1>2. ASSUME NEW f \in Fd, NEW u \in Users, LoginAccepted(f, u) PROVE Grows
  BY <1>2 DEF LoginAccepted, tables, Grows
<1>3. ASSUME NEW f \in Fd, Accept(f) PROVE Grows
  BY <1>3 DEF Accept, tables, Grows
<1>4. ASSUME record' = record PROVE Grows
  BY <1>4 DEF Grows
<1> QED BY <1>1, <1>2, <1>3, <1>4 DEF SomeStep, Still, Stops, Answers, TurnsDown, Closes,
                                      Takes, HandsOn

LEMMA KeptAfter ==
    ASSUME IInv, Grows, NEW c, Kept(c, record)
    PROVE  Kept(c, record')
<1>1. record \in Seq(RecordRow)
  BY DEF IInv, TypeOK
<1> QED BY <1>1, KeptGrows DEF Grows

LEMMA LinkedAfter ==
    ASSUME IInv, Grows, NEW c, NEW que, NEW own, Linked(c, que, record, own)
    PROVE  Linked(c, que, record', own)
<1>1. record \in Seq(RecordRow)
  BY DEF IInv, TypeOK
<1> QED BY <1>1, LinkedGrows DEF Grows

(* The connection goes with the step, or ends while the client is idle.    *)
LEMMA DisconnectedCInv ==
    ASSUME IInv, CInv, Grows, Disconnected
    PROVE  CInv'
<1>1. Kept(tc, record')
  BY KeptAfter DEF CInv
<1>2. Kept(tc', record')
  BY <1>1, KeptUnsent DEF Disconnected
<1>3. tc'.up = << >>
  <2>1. tc \in ClientType
    BY DEF CInv, Kept
  <2> QED BY <2>1 DEF Disconnected, ClientType
<1>4. sock' = None /\ page' = "busy" /\ uid' = None
  BY DEF Disconnected
<1> QED BY <1>2, <1>3, <1>4, NamesAssumption DEF CInv, Shown

LEMMA OverheardCInv ==
    ASSUME IInv, QInv, CInv, sock # None, Grows, Overhears(sock), UNCHANGED process
    PROVE  CInv'
<1> DEFINE que == out.que[sock]
           quf == out'.que[sock]
           own == owner[sock]
<1>1. sock \in Fd /\ Joined /\ Kept(tc, record) /\ Shown
  BY DEF CInv
<1>2. /\ sock' = sock /\ tc' = tc /\ page' = page /\ uid' = uid
      /\ phase'[sock] = phase[sock] /\ owner'[sock] = own
  BY DEF process, ui, Overhears
<1>3. Linked(tc, que, record', own)
  BY <1>1, LinkedAfter DEF Joined
<1>4. que \in Seq(Message) /\ (phase[sock] = "asking" => que # << >>)
  BY <1>1, QueueType DEF QInv, QueuesOrdered, QueueOrdered
<1>5. Linked(tc, quf, record', own) /\ (que # << >> => Head(quf) = Head(que))
  <2>1. CASE quf = que
    BY <1>3, <2>1
  <2>2. ASSUME NEW m \in Message \ AnswerMessages, quf = Append(que, m), Spoken(m, record')
        PROVE  Linked(tc, quf, record', own) /\ (que # << >> => Head(quf) = Head(que))
    <3>1. Linked(tc, Append(que, m), record', own)
      BY <1>3, <2>2, LinkedPush
    <3>2. que # << >> => Head(Append(que, m)) = Head(que)
      BY <1>4
    <3> QED BY <2>2, <3>1, <3>2
  <2> QED BY <2>1, <2>2 DEF Overhears
<1>6. Kept(tc, record')
  BY <1>1, KeptAfter
<1>7. phase[sock] = "asking" /\ own = None => Terminal(Head(quf))
  BY <1>1, <1>4, <1>5 DEF Joined
<1>8. Joined'
  BY <1>1, <1>2, <1>5, <1>7 DEF Joined
<1>9. Shown'
  BY <1>1, <1>2 DEF Shown
<1> QED BY <1>1, <1>2, <1>6, <1>8, <1>9 DEF CInv

(* So every step of another, and of the daemon, keeps the client's         *)
(* invariant if it lets the client overhear no more than that.             *)
LEMMA AsideCInv ==
    ASSUME IInv, QInv, CInv, Grows,
           sock # None => phase'[sock] = "closed" \/ Overhears(sock),
           IF Dropped THEN Disconnected ELSE UNCHANGED process
    PROVE  CInv'
<1>1. CASE sock = None
  <2>1. UNCHANGED process
    BY <1>1 DEF Dropped
  <2>2. sock' = sock /\ tc' = tc /\ page' = page /\ uid' = uid
    BY <2>1 DEF process, ui
  <2>3. Kept(tc', record')
    BY <2>2, KeptAfter DEF CInv
  <2> QED BY <1>1, <2>2, <2>3 DEF CInv, Shown
<1>2. CASE sock # None /\ phase'[sock] = "closed"
  BY <1>2, DisconnectedCInv DEF Dropped
<1>3. CASE sock # None /\ phase'[sock] # "closed"
  BY <1>3, OverheardCInv DEF Dropped
<1> QED BY <1>1, <1>2, <1>3

(* A session at the client's connection is its own.                        *)
LEMMA OwnSession ==
    ASSUME IInv, CInv, sock # None, fd_to_uid[sock] # None
    PROVE  fd_to_uid[sock] = Me
<1>1. sock \in Fd /\ owner[sock] \in {None, Me}
  BY DEF CInv, Joined
<1>2. owner[sock] = fd_to_uid[sock]
  BY <1>1 DEF IInv, SessionIsOwned
<1> QED BY <1>1, <1>2

LEMMA StopsAside ==
    ASSUME CInv, sock # None, Stops
    PROVE  phase'[sock] = "closed"
BY DEF Stops, Abort, CInv

LEMMA RespondAside ==
    ASSUME IInv, CInv, sock # None, NEW f \in Fd \ {sock}, NEW m, Respond(f, m),
           phase' = phase \/ phase' = [phase EXCEPT ![f] = "asking"],
           UNCHANGED <<owner, fd_to_uid, record>>
    PROVE  Overhears(sock)
<1>1. sock \in Fd /\ phase \in [Fd -> Phases]
  BY DEF CInv, IInv, TypeOK
<1>2. out'.que[sock] = out.que[sock]
  BY <1>1, PushAt DEF Respond
<1> QED BY <1>1, <1>2 DEF Overhears, SessionStays, TextsComplete

LEMMA LoginAside ==
    ASSUME IInv, CInv, sock # None, NEW f \in Fd \ {sock}, NEW u \in Users,
           LoginAccepted(f, u)
    PROVE  Overhears(sock)
<1>1. sock \in Fd /\ phase \in [Fd -> Phases] /\ owner \in [Fd -> Users \cup {None}]
  BY DEF CInv, IInv, TypeOK
<1>2. phase'[sock] = phase[sock] /\ owner'[sock] = owner[sock]
  BY <1>1 DEF LoginAccepted
<1>3. out'.que[sock] = IF sock \in Kicked(u) THEN Append(out.que[sock], Shutdown)
                       ELSE IF fd_to_uid[sock] # None
                       THEN Append(out.que[sock], Presence(TRUE, {u}, 1))
                       ELSE out.que[sock]
  BY <1>1, LoginQueues
<1>4. /\ Shutdown \in Message \ AnswerMessages /\ Spoken(Shutdown, record')
      /\ Presence(TRUE, {u}, 1) \in Message \ AnswerMessages
  <2>1. Shutdown \in Message /\ Presence(TRUE, {u}, 1) \in Message
    BY MessageTypes
  <2> QED BY <2>1 DEF AnswerMessages, Spoken, Shutdown, Plain, Presence
<1>5. ASSUME sock \notin Kicked(u), fd_to_uid[sock] # None
      PROVE  Spoken(Presence(TRUE, {u}, 1), record')
  <2>1. fd_to_uid[sock] = Me
    BY <1>5, OwnSession
  <2>2. Remaining(u)[sock] = Me /\ Remaining(u)[sock] # u
    BY <1>1, <1>5, <2>1, LoginAcceptedMaps DEF Remaining
  <2>3. {u} \subseteq Others
    BY <2>2 DEF Others
  <2> QED BY <2>3 DEF Spoken, Presence
<1>6. SessionStays(sock)
  <2>1. fd_to_uid'[sock] = IF sock \in Kicked(u) THEN None ELSE fd_to_uid[sock]
    <3>1. Remaining(u) \in [Fd -> Users \cup {None}]
      BY LoginAcceptedMaps
    <3> QED BY <1>1, <3>1 DEF LoginAccepted, Remaining
  <2>2. ASSUME sock \in Kicked(u) PROVE Ends(out'.que[sock])
    <3> DEFINE que == out.que[sock]
               longer == Append(que, Shutdown)
    <3>1. que \in Seq(Message) /\ out'.que[sock] = longer
      BY <1>1, <1>3, <2>2, QueueType
    <3> HIDE DEF que
    <3>2. Len(que) + 1 \in 1..Len(longer) /\ longer[Len(que) + 1] = Shutdown
      BY <1>4, <3>1, AppendAt
    <3>3. Shutdown.type = \hA0
      BY DEF Shutdown, Plain
    <3> HIDE DEF longer
    <3>4. Ends(longer)
      BY <3>2, <3>3 DEF Ends
    <3> QED BY <3>1, <3>4
  <2> QED BY <2>1, <2>2 DEF SessionStays
<1>7. TextsComplete(sock)
  BY DEF LoginAccepted, tables, TextsComplete
<1> QED BY <1>2, <1>3, <1>4, <1>5, <1>6, <1>7 DEF Overhears

LEMMA ForwardAside ==
    ASSUME IInv, CInv, sock # None, NEW f \in Fd \ {sock}, NEW my_uid \in Users,
           NEW dst_uid \in Uids, Forwards(f, my_uid, dst_uid)
    PROVE  Overhears(sock)
<1> DEFINE row == [sendid |-> my_uid, recvid |-> dst_uid]
           rid == Len(record) + 1
<1>1. sock \in Fd /\ phase' = phase /\ owner' = owner
  BY DEF CInv, Forwards, client
<1>2. /\ record \in Seq(RecordRow)
      /\ record' = Append(record, row)
  BY DEF IInv, TypeOK, Forwards, SaveAndForward, SaveMessage
<1>3. PICK reply \in Message, text \in Message :
        /\ OfType(\h93, reply) /\ OfType(\hA3, text) /\ text.rid = rid
        /\ text.src = my_uid /\ text.sub = (IF dst_uid = ALL THEN 1 ELSE 0)
        /\ \A g \in Fd :
             LET answered == IF g = f THEN Append(out.que[g], reply) ELSE out.que[g]
             IN  out'.que[g] = IF g \in Readers(my_uid, dst_uid)
                               THEN Append(answered, text) ELSE answered
  BY ForwardQueues
<1>4. out'.que[sock] = IF sock \in Readers(my_uid, dst_uid)
                       THEN Append(out.que[sock], text) ELSE out.que[sock]
  BY <1>1, <1>3
<1>5. text \in Message \ AnswerMessages /\ text.type = \hA3
  BY <1>3 DEF OfType, AnswerMessages
<1>6. ASSUME sock \in Readers(my_uid, dst_uid) PROVE Spoken(text, record')
  <2>1. fd_to_uid[sock] = Me
    BY <1>6, OwnSession DEF Readers, LoggedIn
  <2>2. dst_uid = Me \/ (dst_uid = ALL /\ my_uid # Me)
    BY <1>6, <2>1 DEF Readers, ReadBy
  <2>3. my_uid \in Others
    BY <2>2 DEF Others, Forwards
  <2>4. row.recvid = (IF text.sub = 1 THEN ALL ELSE Me) /\ row.sendid = my_uid
    BY <1>3, <2>2, AllIsNoOther
  <2> HIDE DEF row
  <2>5. rid \in DOMAIN record' /\ record'[rid] = row
    <3>1. record \in Seq(RecordRow) /\ record' = Append(record, row)
      BY <1>2
    <3> QED BY <3>1
  <2> HIDE DEF rid
  <2> QED BY <1>3, <1>5, <2>3, <2>4, <2>5 DEF Spoken
<1>7. SessionStays(sock)
  BY DEF SessionStays, Forwards
<1>8. TextsComplete(sock)
  <2> SUFFICES ASSUME fd_to_uid[sock] = Me PROVE ForwardedTo(sock, row)
    <3>1. row \in RecordRow
      BY DEF RecordRow
    <3> QED BY <3>1 DEF TextsComplete
  <2>1. row.sendid # Me
    <3>1. uid_to_fd[Me] = sock
      BY <1>1 DEF IInv, SessionsInverse
    <3>2. uid_to_fd[my_uid] = f
      BY DEF Forwards, LoggedInAs
    <3> QED BY <3>1, <3>2
  <2>2. ASSUME ReadBy(row, Me) PROVE Queued(out'.que[sock], rid)
    <3> DEFINE que == out.que[sock]
               longer == Append(que, text)
    <3>1. sock \in Readers(my_uid, dst_uid)
      BY <1>1, <2>2, NamesAssumption, MeAssumption DEF Readers, LoggedIn
    <3>2. que \in Seq(Message) /\ out'.que[sock] = longer
      BY <1>1, <1>4, <3>1, QueueType
    <3>3. Carries(text, rid)
      BY <1>3, <1>5 DEF Carries
    <3> HIDE DEF que, rid
    <3>4. Queued(longer, rid)
      BY <1>5, <3>2, <3>3, ExtendsPush
    <3> QED BY <3>2, <3>4
  <2> QED BY <1>2, <2>1, <2>2 DEF ForwardedTo
<1> QED BY <1>1, <1>4, <1>5, <1>6, <1>7, <1>8 DEF Overhears

LEMMA ClosesClient ==
    ASSUME IInv, NEW f \in Fd, CloseConn(f)
    PROVE  phase' = [phase EXCEPT ![f] = "closed"] /\ owner' = [owner EXCEPT ![f] = None]
<1>1. \A site \in Sites : ~CloseConnFails(f, site)
  BY CloseConnMaps
<1> QED BY <1>1 DEF CloseConn

LEMMA ClosesAside ==
    ASSUME IInv, CInv, sock # None, NEW f \in Fd \ {sock}, Closes(f)
    PROVE  Overhears(sock)
<1> DEFINE m == Presence(FALSE, {fd_to_uid[f]}, 1)
<1>0. CloseConn(f)
  BY DEF Closes
<1>1. sock \in Fd /\ phase \in [Fd -> Phases] /\ owner \in [Fd -> Users \cup {None}]
      /\ fd_to_uid \in [Fd -> Users \cup {None}]
  BY DEF CInv, IInv, TypeOK
<1>2. phase'[sock] = phase[sock] /\ owner'[sock] = owner[sock]
  <2>1. /\ phase' = [phase EXCEPT ![f] = "closed"]
        /\ owner' = [owner EXCEPT ![f] = None]
    BY <1>0, ClosesClient
  <2> QED BY <1>1, <2>1
<1>3. out'.que[sock] = IF fd_to_uid[f] # None /\ fd_to_uid[sock] # None
                       THEN Append(out.que[sock], m) ELSE out.que[sock]
  BY <1>0, <1>1, CloseQueues
<1>4. ASSUME fd_to_uid[f] # None, fd_to_uid[sock] # None
      PROVE  m \in Message \ AnswerMessages /\ Spoken(m, record')
  <2>1. fd_to_uid[sock] = Me
    BY <1>4, OwnSession
  <2>2. fd_to_uid[f] \in Users /\ fd_to_uid[f] # Me
    <3>1. uid_to_fd[Me] = sock
      BY <1>1, <2>1 DEF IInv, SessionsInverse
    <3>2. fd_to_uid[f] = Me => uid_to_fd[Me] = f
      BY DEF IInv, SessionsInverse
    <3> QED BY <1>1, <1>4, <3>1, <3>2
  <2>3. m \in Message
    BY <2>2, MessageTypes
  <2> QED BY <2>2, <2>3 DEF AnswerMessages, Spoken, Presence, Others
<1> HIDE DEF m
<1>5. fd_to_uid'[sock] = fd_to_uid[sock]
  BY <1>0, <1>1, CloseConnMaps DEF Unmapped
<1>6. SessionStays(sock) /\ TextsComplete(sock)
  BY <1>5 DEF SessionStays, TextsComplete, Closes
<1> QED BY <1>2, <1>3, <1>4, <1>6 DEF Overhears

LEMMA TakesAside ==
    ASSUME IInv, CInv, sock # None, NEW f \in Fd \ {sock}, Takes(f)
    PROVE  Overhears(sock)
<1>1. sock \in Fd /\ phase \in [Fd -> Phases]
  BY DEF CInv, IInv, TypeOK
<1>2. out'.que[sock] = out.que[sock]
  BY <1>1, TakeQueues
<1>3. phase'[sock] = phase[sock] /\ owner' = owner
  BY <1>1 DEF Takes, Delivered
<1>4. SessionStays(sock) /\ TextsComplete(sock)
  BY DEF Takes, SessionStays, TextsComplete
<1> QED BY <1>2, <1>3, <1>4 DEF Overhears

(* A step of another client.                                               *)
LEMMA ElsewhereAside ==
    ASSUME IInv, CInv, sock # None, NEW f \in Fd, Elsewhere(f)
    PROVE  phase'[sock] = "closed" \/ Overhears(sock)
<1>0. f # sock /\ sock # None
  BY DEF Elsewhere
<1>1. CASE Accept(f)
  <2>1. sock \in Fd /\ phase \in [Fd -> Phases]
    BY <1>0 DEF CInv, IInv, TypeOK
  <2> QED BY <1>0, <1>1, <2>1 DEF Accept, memory, tables, Overhears, SessionStays,
                                  TextsComplete
<1>2. CASE LoginFault(f) \/ LoginRefused(f)
  <2>1. PICK m : Respond(f, m) /\ phase' = [phase EXCEPT ![f] = "asking"]
                 /\ UNCHANGED <<owner, fd_to_uid, record>>
    BY <1>2 DEF LoginFault, LoginRefused, tables
  <2> QED BY <1>0, <2>1, RespondAside
<1>3. CASE LoginAborts(f)
  <2>1. Stops
    BY <1>3 DEF LoginAborts, Stops, Sites, tables
  <2> QED BY <1>0, <2>1, StopsAside
<1>4. CASE \E u \in Users : LoginAccepted(f, u)
  BY <1>0, <1>4, LoginAside
<1>5. CASE \E u \in Uids \ {owner[f]} : ParseTextmsg(f, u)
  <2>1. PICK u \in Uids \ {owner[f]} : ParseTextmsg(f, u)
    BY <1>5
  <2>2. CASE Stops
    BY <1>0, <2>2, StopsAside
  <2>3. CASE \E my_uid \in Users : Forwards(f, my_uid, u)
    BY <1>0, <2>3, ForwardAside
  <2>4. CASE \E m : OfType(\h93, m) /\ Answers(f, m)
    <3>1. PICK m : Answers(f, m)
      BY <2>4
    <3>2. Respond(f, m) /\ phase' = phase /\ UNCHANGED <<owner, fd_to_uid, record>>
      BY <3>1 DEF Answers, client
    <3> QED BY <1>0, <3>2, RespondAside
  <2> QED BY <2>1, <2>2, <2>3, <2>4, TextmsgStep
<1>6. CASE SendMsg(f)
  <2>1. out.que[f] # << >> /\ UNCHANGED record
    BY <1>6 DEF SendMsg, IInv, WritableIffQueued, tables
  <2>2. Closes(f) \/ Takes(f)
    BY <1>6, <2>1 DEF SendMsg, Closes, Takes
  <2> QED BY <1>0, <2>2, ClosesAside, TakesAside
<1>7. CASE LoseConn(f)
  <2>1. Closes(f)
    BY <1>7 DEF LoseConn, Closes, tables
  <2> QED BY <1>0, <2>1, ClosesAside
<1> QED BY <1>1, <1>2, <1>3, <1>4, <1>5, <1>6, <1>7 DEF Elsewhere

LEMMA ElsewhereStep ==
    ASSUME IInv, QInv, CInv, NEW f \in Fd, Elsewhere(f)
    PROVE  Next /\ CInv'
<1>1. Next
  BY DEF Elsewhere, Next, Requests
<1>2. SomeStep /\ Grows
  BY <1>1, NextStep, StepGrows
<1>3. IF Dropped THEN Disconnected ELSE UNCHANGED process
  BY DEF Elsewhere
<1> QED BY <1>1, <1>2, <1>3, ElsewhereAside, AsideCInv

(* The daemon is killed, or started again.                                 *)
LEMMA DaemonAside ==
    ASSUME CInv, sock # None, Daemon
    PROVE  phase'[sock] = "closed" \/ Overhears(sock)
<1>1. CASE Kill
  <2>1. Stops
    BY <1>1 DEF Kill, Stops, Sites, tables
  <2> QED BY <2>1, StopsAside
<1>2. CASE Restart
  BY <1>2 DEF Restart, memory, client, tables, Overhears, SessionStays, TextsComplete
<1> QED BY <1>1, <1>2 DEF Daemon

LEMMA DaemonStep ==
    ASSUME IInv, QInv, CInv, Daemon
    PROVE  Next /\ CInv'
<1>1. Next
  BY DEF Daemon, Next
<1>2. SomeStep /\ Grows
  BY <1>1, NextStep, StepGrows
<1> QED BY <1>1, <1>2, DaemonAside, AsideCInv DEF Daemon

-----------------------------------------------------------------------------
(* The client's own steps.                                                 *)

(* The connection afterwards, when the client stays as it is or handles    *)
(* what came.                                                              *)
LEMMA StaysJoined ==
    ASSUME sock \in Fd, sock' = sock,
           phase'[sock] \in {"asking", "in"}, owner'[sock] \in {None, Me},
           phase'[sock] = "asking" => /\ page' = "busy"
                                      /\ owner'[sock] = None =>
                                             Terminal(Head(out'.que[sock])),
           phase'[sock] = "in" => owner'[sock] = Me,
           Linked(tc', out'.que[sock], record', owner'[sock]), Shown'
    PROVE  CInv'
<1>1. Joined'
  BY DEF Joined
<1>2. Kept(tc', record')
  BY DEF Linked, Sound
<1> QED BY <1>1, <1>2, NamesAssumption DEF CInv

LEMMA RespondAt ==
    ASSUME NEW f \in Fd, NEW m, Respond(f, m)
    PROVE  out'.que[f] = Append(out.que[f], m)
BY DEF Respond, Push

(* login.                                                                  *)
LEMMA LoginStep ==
    ASSUME IInv, QInv, CInv, Login
    PROVE  Next /\ CInv'
<1>1. /\ sock \in Fd /\ Joined /\ Shown /\ Kept(tc, record)
      /\ phase \in [Fd -> Phases] /\ owner \in [Fd -> Users \cup {None}]
  BY DEF Login, CInv, IInv, TypeOK
<1>2. Next
  BY <1>1 DEF Login, Next
<1>3. Grows
  BY <1>2, NextStep, StepGrows
<1>4. CASE LoginAborts(sock)
  <2>1. Stops
    BY <1>4 DEF LoginAborts, Stops, Sites, tables
  <2>2. Dropped
    BY <1>1, <2>1, StopsAside DEF Dropped, Login
  <2> QED BY <1>2, <1>3, <2>2, DisconnectedCInv DEF Login
<1>5. ASSUME LoginFault(sock) \/ LoginRefused(sock) \/ LoginAccepted(sock, Me)
      PROVE  CInv'
  <2>1. /\ phase[sock] = "fresh" /\ owner[sock] = None /\ out.que[sock] = << >>
        /\ phase' = [phase EXCEPT ![sock] = "asking"] /\ record' = record
    BY <1>1, <1>5 DEF LoginFault, LoginRefused, LoginAccepted, LoginRequest, tables,
                      Joined, QInv, QueuesOrdered, QueueOrdered
  <2>2. phase'[sock] = "asking"
    BY <1>1, <2>1
  <2>3. /\ sock' = sock /\ tc' = tc /\ page' = page /\ uid' = uid
        /\ page = "busy"
    BY <1>1, <2>1, <2>2 DEF Login, Dropped, process, ui, Joined
  <2>4. Linked(tc, << >>, record, None)
    BY <1>1, <2>1 DEF Joined
  <2>5. Shown'
    BY <1>1, <2>3 DEF Shown
  <2>6. CASE LoginFault(sock) \/ LoginRefused(sock)
    <3>1. PICK m : Respond(sock, m) /\ OfType(\h90, m) /\ Terminal(m) /\ owner' = owner
      <4>1. OfType(\h90, Unknown(\h10)) /\ OfType(\h90, Plain(\h90, \hF0))
        BY HeaderTypes
      <4>2. Terminal(Unknown(\h10)) /\ Terminal(Plain(\h90, \hF0))
        BY DEF Terminal, Unknown, Plain
      <4> QED BY <2>6, <4>1, <4>2 DEF LoginFault, LoginRefused
    <3>2. m \in Message \ AnswerMessages /\ Spoken(m, record)
      BY <3>1 DEF OfType, AnswerMessages, Spoken
    <3>3. out'.que[sock] = Append(<< >>, m)
      <4>1. out'.que[sock] = Append(out.que[sock], m)
        BY <1>1, <3>1, RespondAt
      <4> QED BY <2>1, <4>1
    <3>4. Linked(tc, Append(<< >>, m), record, None)
      BY <2>4, <3>2, LinkedPush
    <3>5. Head(Append(<< >>, m)) = m
      OBVIOUS
    <3>6. Linked(tc', out'.que[sock], record', owner'[sock])
      BY <2>1, <2>3, <3>1, <3>3, <3>4
    <3> QED BY <1>1, <2>1, <2>2, <2>3, <2>5, <3>1, <3>3, <3>5, <3>6, StaysJoined
  <2>7. CASE LoginAccepted(sock, Me)
    <3> DEFINE online == Online(uid_to_fd')
               reply == LoginReply(Me)
               on == ListOn(Me, online)
               off == ListOff(Me, online)
               q1 == Append(<< >>, reply)
               q2 == Append(q1, on)
               q3 == Append(q2, off)
    <3>1. /\ online \in SUBSET Users /\ Me \in online
          /\ out'.que[sock] = q3
      <4>1. /\ Me \in Online(uid_to_fd')
            /\ out'.que[sock] =
                 Append(Append(Append(out.que[sock], LoginReply(Me)),
                               ListOn(Me, Online(uid_to_fd'))),
                        ListOff(Me, Online(uid_to_fd')))
        BY <1>1, <2>7, LoginQueues
      <4>2. Online(uid_to_fd') \in SUBSET Users
        BY DEF Online
      <4> QED BY <2>1, <4>1, <4>2
    <3>2. reply \in Message /\ reply.type = \h90
      <4>1. \A sub \in 0..255 : OfType(\h90, Plain(\h90, sub))
        BY HeaderTypes
      <4>2. PICK sub \in 0..255 : reply = Plain(\h90, sub)
        BY DEF LoginReply
      <4> HIDE DEF reply
      <4>3. OfType(\h90, Plain(\h90, sub))
        BY <4>1
      <4>4. OfType(\h90, reply)
        BY <4>2, <4>3
      <4> QED BY <4>4 DEF OfType
    <3> HIDE DEF online
    <3>3. /\ on \in Message /\ on.type = \hA1 /\ on.uids = Others \cap online
          /\ off \in Message /\ off.type = \hA1 /\ off.uids = Others \ online
      BY <3>1, ListsFit DEF ListOn, ListOff, Presence, Others
    <3> HIDE DEF reply, on, off
    <3>4. /\ reply \in Message \ AnswerMessages /\ Spoken(reply, record)
          /\ on \in Message \ AnswerMessages /\ Spoken(on, record)
          /\ off \in Message \ AnswerMessages /\ Spoken(off, record)
      BY <3>2, <3>3 DEF AnswerMessages, Spoken
    <3>5. Linked(tc, q3, record, None)
      <4>1. Linked(tc, q1, record, None)
        BY <2>4, <3>4, LinkedPush
      <4> HIDE DEF q1
      <4>2. Linked(tc, q2, record, None)
        BY <3>4, <4>1, LinkedPush
      <4> HIDE DEF q2
      <4> QED BY <3>4, <4>2, LinkedPush
    <3>6. /\ Len(q3) = 3 /\ q3[1] = reply /\ q3[2] = on /\ q3[3] = off
      BY <3>2, <3>3
    <3> HIDE DEF q1, q2, q3
    <3>7. Awaited(tc, q3)
      <4> SUFFICES ASSUME NEW u \in Others
                   PROVE  \E k \in 1..Len(q3) : /\ Mentions(q3[k], u)
                                                /\ \A i \in 1..k : ~Depends(q3[i])
        BY DEF Awaited
      <4>1. \A i \in 1..3 : ~Depends(q3[i])
        <5>1. ~Depends(q3[1]) /\ ~Depends(q3[2]) /\ ~Depends(q3[3])
          BY <3>2, <3>3, <3>6 DEF Depends
        <5>2. 1..3 = {1, 2, 3}
          OBVIOUS
        <5> QED BY <5>1, <5>2
      <4>2. Mentions(q3[2], u) \/ Mentions(q3[3], u)
        BY <3>3, <3>6 DEF Mentions
      <4>3. 2 \in 1..Len(q3) /\ 3 \in 1..Len(q3)
            /\ (\A i \in 1..2 : i \in 1..3)
        BY <3>6
      <4> QED BY <4>1, <4>2, <4>3
    <3>8. Linked(tc, q3, record, Me)
      BY <3>5, <3>7 DEF Linked
    <3>9. owner'[sock] = Me
      BY <1>1, <2>7 DEF LoginAccepted
    <3>10. Linked(tc', out'.que[sock], record', owner'[sock])
      BY <2>1, <2>3, <3>1, <3>8, <3>9
    <3>11. Me # None
      BY NamesAssumption, MeAssumption
    <3> QED BY <1>1, <2>2, <2>3, <2>5, <3>9, <3>10, <3>11, StaysJoined
  <2> QED BY <1>5, <2>6, <2>7
<1> QED BY <1>2, <1>4, <1>5 DEF Login

(* The server handles the oldest frame and answers it.                     *)
LEMMA GoneKnown ==
    ASSUME NEW c, NEW que, NEW rec, Sound(c, que, rec), c.up # << >>
    PROVE  \A u : Known(FrameGone(c), u) <=> Known(c, u)
BY FrameGoneParts DEF Sound, Kept, Known

LEMMA ReplyLinked ==
    ASSUME NEW c, NEW que, NEW rec, Linked(c, que, rec, Me), c.up # << >>,
           Head(c.up) \notin AskFrames,
           NEW m \in Message \ AnswerMessages, Spoken(m, rec)
    PROVE  Linked(FrameGone(c), Append(que, m), rec, Me)
<1>1. Sound(c, que, rec)
  BY DEF Linked
<1>2. Linked(FrameGone(c), que, rec, Me)
  BY <1>1, FrameHandled, GoneKnown, LinkedBy
<1> QED BY <1>2, LinkedPush

LEMMA AnswerLinked ==
    ASSUME NEW c, NEW que, NEW rec, Linked(c, que, rec, Me), c.up # << >>,
           Head(c.up) \in AskFrames, NEW m \in AnswerMessages,
           Answering(m, Head(c.up).uid, rec),
           m.type = \h91 <=> Head(c.up).op = "username"
    PROVE  Linked(FrameGone(c), Append(que, m), rec, Me)
<1> DEFINE d == FrameGone(c)
           longer == Append(que, m)
<1>1. Sound(c, que, rec) /\ Awaited(c, que) /\ AllSpoken(que, rec) /\ que \in Seq(Message)
  BY DEF Linked, Sound, Wired
<1>2. Sound(d, longer, rec)
  BY <1>1, AskHandled
<1>3. m \in Message /\ Spoken(m, rec)
  BY DEF AnswerMessages, Spoken
<1>4. AllSpoken(longer, rec)
  BY <1>1, <1>3, SpokenPush
<1>5. Awaited(c, longer)
  BY <1>1, <1>3, AwaitedPush
<1>6. \A u : Known(d, u) <=> Known(c, u)
  BY <1>1, GoneKnown
<1> HIDE DEF d, longer
<1>7. Awaited(d, longer)
  BY <1>5, <1>6 DEF Awaited
<1> QED BY <1>2, <1>4, <1>7 DEF Linked, d, longer

(* The answers of the handlers, to the client of Me.                       *)
LEMMA UsernameAnswered ==
    ASSUME NEW f \in Fd, NEW id \in Others, NEW rec, ParseUsername(f, id)
    PROVE  \E m \in AnswerMessages : /\ Respond(f, m) /\ m.type = \h91
                                     /\ Answering(m, id, rec)
<1>1. PICK ok \in QueryOk : Respond(f, IF ~ok THEN Unknown(\h11) ELSE Name(id))
  BY AllIsNoOther DEF ParseUsername, CheckUid
<1>2. OfType(\h91, Unknown(\h11)) /\ Unknown(\h11).sub # 0
  <2>1. OfType(\h91, Unknown(\h11))
    BY HeaderTypes
  <2>2. Unknown(\h11).sub = \hFF
    BY DEF Unknown, Plain
  <2> QED BY <2>1, <2>2
<1>3. Name(id) \in Message /\ Name(id).type = \h91 /\ Name(id).uid = id
  BY MessageTypes, AllIsNoOther DEF Name
<1>4. PICK m : /\ Respond(f, m) /\ m \in Message /\ m.type = \h91
               /\ m.sub = 0 => m.uid = id
  BY <1>1, <1>2, <1>3 DEF OfType
<1> QED BY <1>4 DEF AnswerMessages, Answering

LEMMA ChatrecordAnswered ==
    ASSUME NEW f \in Fd, NEW id \in Partners, NEW rec \in Seq(RecordRow), rec = record,
           ChatrecordAnswer(f, Me, id)
    PROVE  \E m \in AnswerMessages : /\ Respond(f, m) /\ m.type = \h92
                                     /\ Answering(m, id, rec)
<1>1. id = ALL \/ CheckUid(id)
  BY AllIsNoOther DEF Partners, CheckUid
<1>2. PICK cnt : Respond(f, Unknown(\h12)) \/ Respond(f, History(SerhMessage(rec, Me, id, cnt)))
  BY <1>1 DEF ChatrecordAnswer
<1>3. OfType(\h92, Unknown(\h12)) /\ Unknown(\h12).sub # 0
  <2>1. OfType(\h92, Unknown(\h12))
    BY HeaderTypes
  <2>2. Unknown(\h12).sub = \hFF
    BY DEF Unknown, Plain
  <2> QED BY <2>1, <2>2
<1> DEFINE rids == SerhMessage(rec, Me, id, cnt)
<1>4. /\ rids \in SUBSET Nat
      /\ \A rid \in rids : rid \in DOMAIN rec /\ Concerns(rec[rid], Me, id)
  BY DEF SerhMessage
<1> HIDE DEF rids
<1>5. History(rids) \in Message /\ History(rids).type = \h92 /\ History(rids).rids = rids
  BY <1>4, MessageTypes DEF History
<1>6. PICK m : /\ Respond(f, m) /\ m \in Message /\ m.type = \h92
               /\ m.sub = 0 => m.rids = rids
  BY <1>2, <1>3, <1>5 DEF OfType, rids
<1>7. m \in AnswerMessages
  BY <1>6 DEF AnswerMessages
<1>8. Answering(m, id, rec)
  <2>1. m.sub = 0 => \A rid \in m.rids : rid \in DOMAIN rec /\ Concerns(rec[rid], Me, id)
    BY <1>4, <1>6
  <2>2. m.type # \h91
    BY <1>6
  <2> QED BY <2>1, <2>2 DEF Answering
<1> QED BY <1>6, <1>7, <1>8


(* What the client is afterwards, still connected.                         *)
LEMMA HandledCInv ==
    ASSUME IInv, CInv, sock # None, tc.up # << >>,
           phase[sock] = "in", phase'[sock] = "in", owner'[sock] = owner[sock],
           IF Dropped THEN Disconnected
           ELSE tc' = [tc EXCEPT !.up = Tail(@)] /\ UNCHANGED <<sock, ui>>,
           Linked(FrameGone(tc), out'.que[sock], record', Me)
    PROVE  CInv'
<1>1. sock \in Fd /\ Joined /\ Shown /\ owner[sock] = Me
  BY DEF CInv, Joined
<1>2. tc' = FrameGone(tc) /\ sock' = sock /\ page' = page /\ uid' = uid
  BY DEF Dropped, FrameGone, ui
<1>3. Sound(tc, out.que[sock], record) /\ tc \in ClientType
  BY <1>1 DEF Joined, Linked, Sound, Kept
<1>4. /\ FrameGone(tc).m_to_uid = tc.m_to_uid
      /\ \A u : Known(FrameGone(tc), u) <=> Known(tc, u)
  BY <1>3, FrameGoneParts, GoneKnown
<1>5. Shown'
  BY <1>1, <1>2, <1>4 DEF Shown, AllKnown
<1> QED BY <1>1, <1>2, <1>5, StaysJoined

LEMMA FrameKinds ==
    ASSUME NEW frame \in Frame
    PROVE  /\ frame.op = "username" => frame.uid \in Others /\ frame \in AskFrames
           /\ frame.op = "chatrecord" => frame.uid \in Partners /\ frame \in AskFrames
           /\ frame.op = "textmsg" => frame.uid \in Partners /\ frame \notin AskFrames
           /\ frame.op = "change_pwd" => /\ frame.old \in Pwd /\ frame.new \in Pwd
                                         /\ frame \notin AskFrames
BY DEF Frame, AskFrames

LEMMA PartnersNamed ==
    /\ \A id \in Others : id \in Users \cup Strangers
    /\ \A id \in Partners : id \in Uids /\ id # Me
BY DEF Partners, Others, Uids

LEMMA RequestHandledStep ==
    ASSUME IInv, QInv, CInv, RequestHandled
    PROVE  Next /\ CInv'
<1> DEFINE frame == Head(tc.up)
           que == out.que[sock]
<1>1. /\ sock \in Fd /\ sock # None /\ Joined /\ tc.up # << >> /\ Handle(frame)
      /\ IF Dropped THEN Disconnected
         ELSE tc' = [tc EXCEPT !.up = Tail(@)] /\ UNCHANGED <<sock, ui>>
  BY DEF RequestHandled, CInv
<1>2. phase[sock] = "in"
  BY <1>1 DEF Handle, ParseUsername, ParseChatrecord, ParseTextmsg, ParseChangePwd, Request
<1>3. owner[sock] = Me /\ Linked(tc, que, record, Me) /\ frame \in Frame
  <2>1. owner[sock] = Me /\ Linked(tc, que, record, Me)
    BY <1>1, <1>2 DEF Joined
  <2>2. tc.up \in Seq(Frame)
    BY <2>1 DEF Linked, Sound, Wired
  <2> QED BY <1>1, <2>1, <2>2, HeadTailProperties
<1> HIDE DEF frame, que
<1>4. Next
  <2>1. Requests(sock)
    <3>1. CASE frame.op = "username" /\ ParseUsername(sock, frame.uid)
      BY <1>3, <3>1, FrameKinds, PartnersNamed DEF Requests
    <3>2. CASE frame.op = "chatrecord" /\ ParseChatrecord(sock, frame.uid)
      BY <1>3, <3>2, FrameKinds, PartnersNamed DEF Requests
    <3>3. CASE frame.op = "textmsg" /\ ParseTextmsg(sock, frame.uid)
      BY <1>3, <3>3, FrameKinds, PartnersNamed DEF Requests
    <3>4. CASE frame.op = "change_pwd" /\ ParseChangePwd(sock, frame.old, frame.new)
      BY <1>3, <3>4, FrameKinds DEF Requests
    <3> QED BY <1>1, <3>1, <3>2, <3>3, <3>4 DEF Handle
  <2> QED BY <1>1, <2>1 DEF Next
<1>5. Grows
  BY <1>4, NextStep, StepGrows
<1>6. ASSUME Stops PROVE CInv'
  <2>1. Dropped
    BY <1>1, <1>6, StopsAside DEF Dropped
  <2> QED BY <1>1, <1>5, <2>1, DisconnectedCInv
<1>7. ASSUME NotLoggedIn(sock), UNCHANGED tables PROVE CInv'
  BY <1>6, <1>7 DEF NotLoggedIn, tables, Stops, Sites
<1>8. ASSUME phase'[sock] = phase[sock], owner'[sock] = owner[sock],
             Linked(FrameGone(tc), out'.que[sock], record', Me)
      PROVE  CInv'
  BY <1>1, <1>2, <1>8, HandledCInv
<1>9. Linked(tc, que, record', Me)
  BY <1>3, <1>5, LinkedAfter
<1>10. ASSUME NEW m \in Message \ AnswerMessages, Respond(sock, m), Spoken(m, record'),
              UNCHANGED client, frame \notin AskFrames
       PROVE  CInv'
  <2>1. Linked(FrameGone(tc), Append(que, m), record', Me)
    BY <1>1, <1>9, <1>10, ReplyLinked DEF frame
  <2>2. out'.que[sock] = Append(que, m)
    BY <1>1, <1>10, RespondAt DEF que
  <2> QED BY <1>8, <1>10, <2>1, <2>2 DEF client
<1>11. ASSUME NEW m \in AnswerMessages, Respond(sock, m), Answering(m, frame.uid, record'),
              m.type = \h91 <=> frame.op = "username",
              UNCHANGED client, frame \in AskFrames
       PROVE  CInv'
  <2>1. Linked(FrameGone(tc), Append(que, m), record', Me)
    BY <1>1, <1>9, <1>11, AnswerLinked DEF frame
  <2>2. out'.que[sock] = Append(que, m)
    BY <1>1, <1>11, RespondAt DEF que
  <2> QED BY <1>8, <1>11, <2>1, <2>2 DEF client
<1>12. ASSUME frame.op = "username", ParseUsername(sock, frame.uid) PROVE CInv'
  <2>1. frame.uid \in Others /\ frame \in AskFrames
    BY <1>3, <1>12, FrameKinds
  <2>2. PICK m \in AnswerMessages : /\ Respond(sock, m) /\ m.type = \h91
                                    /\ Answering(m, frame.uid, record')
    BY SMTT(30), <1>1, <1>12, <2>1, UsernameAnswered
  <2>3. UNCHANGED client
    BY <1>12 DEF ParseUsername
  <2> QED BY <1>11, <1>12, <2>1, <2>2, <2>3
<1>13. ASSUME frame.op = "chatrecord", ParseChatrecord(sock, frame.uid) PROVE CInv'
  <2>1. frame.uid \in Partners /\ frame \in AskFrames
    BY <1>3, <1>13, FrameKinds
  <2>2. UNCHANGED tables
    BY <1>13 DEF ParseChatrecord
  <2>3. CASE NotLoggedIn(sock)
    BY <1>7, <2>2, <2>3
  <2>4. CASE /\ \E my_uid \in Users :
                   LoggedInAs(sock, my_uid) /\ ChatrecordAnswer(sock, my_uid, frame.uid)
             /\ UNCHANGED client
    <3>1. PICK my_uid \in Users :
             LoggedInAs(sock, my_uid) /\ ChatrecordAnswer(sock, my_uid, frame.uid)
      BY <2>4
    <3>2. my_uid = Me
      BY <1>1, <3>1, OwnSession, NamesAssumption DEF LoggedInAs
    <3>3. record \in Seq(RecordRow) /\ record' = record
      BY <2>2 DEF tables, IInv, TypeOK
    <3>4. PICK m \in AnswerMessages : /\ Respond(sock, m) /\ m.type = \h92
                                      /\ Answering(m, frame.uid, record')
      BY <1>1, <2>1, <3>1, <3>2, <3>3, ChatrecordAnswered
    <3> QED BY <1>11, <1>13, <2>1, <2>4, <3>4
  <2> QED BY <1>13, <2>3, <2>4 DEF ParseChatrecord
<1>14. ASSUME frame.op = "textmsg", ParseTextmsg(sock, frame.uid) PROVE CInv'
  <2>1. frame.uid \in Partners /\ frame \notin AskFrames /\ frame.uid \in Uids \ {owner[sock]}
    BY <1>3, <1>14, FrameKinds, PartnersNamed
  <2>2. CASE Stops
    BY <1>6, <2>2
  <2>3. ASSUME NEW my_uid \in Users, Forwards(sock, my_uid, frame.uid) PROVE CInv'
    <3>1. my_uid = Me /\ UNCHANGED client
      BY <1>1, <2>3, OwnSession, NamesAssumption DEF Forwards, LoggedInAs
    <3>2. sock \notin Readers(my_uid, frame.uid)
      BY <1>1, <2>1, <3>1, OwnSession, PartnersNamed DEF Readers, LoggedIn, ReadBy
    <3>3. PICK reply \in Message, text \in Message :
            /\ OfType(\h93, reply)
            /\ \A g \in Fd :
                 LET answered == IF g = sock THEN Append(out.que[g], reply) ELSE out.que[g]
                 IN  out'.que[g] = IF g \in Readers(my_uid, frame.uid)
                                   THEN Append(answered, text) ELSE answered
      BY <1>1, <2>1, <2>3, ForwardQueues
    <3>4. out'.que[sock] = Append(que, reply)
      BY <1>1, <3>2, <3>3 DEF que
    <3>5. reply \in Message \ AnswerMessages /\ Spoken(reply, record')
      BY <3>3 DEF OfType, AnswerMessages, Spoken
    <3>6. Linked(FrameGone(tc), Append(que, reply), record', Me)
      BY <1>1, <1>9, <2>1, <3>5, ReplyLinked DEF frame
    <3> QED BY <1>8, <3>1, <3>4, <3>6 DEF client
  <2>4. ASSUME NEW m, OfType(\h93, m), Answers(sock, m) PROVE CInv'
    <3>1. m \in Message \ AnswerMessages /\ Spoken(m, record')
      BY <2>4 DEF OfType, AnswerMessages, Spoken
    <3>2. Respond(sock, m) /\ UNCHANGED client
      BY <2>4 DEF Answers
    <3> QED BY <1>10, <2>1, <3>1, <3>2
  <2> QED BY <1>1, <1>14, <2>1, <2>2, <2>3, <2>4, TextmsgStep
<1>15. ASSUME frame.op = "change_pwd", ParseChangePwd(sock, frame.old, frame.new)
       PROVE  CInv'
  <2>1. frame \notin AskFrames
    BY <1>3, <1>15, FrameKinds
  <2>2. CASE NotLoggedIn(sock) /\ UNCHANGED tables
    BY <1>7, <2>2
  <2>3. ASSUME NEW sub \in {0, \hF0}, Respond(sock, Plain(\h95, sub)), UNCHANGED client
        PROVE  CInv'
    <3> DEFINE m == Plain(\h95, sub)
    <3>1. OfType(\h95, m)
      BY HeaderTypes
    <3>2. Respond(sock, m)
      BY <2>3
    <3> HIDE DEF m
    <3>3. m \in Message \ AnswerMessages /\ Spoken(m, record')
      BY <3>1 DEF OfType, AnswerMessages, Spoken
    <3> QED BY <1>10, <2>1, <2>3, <3>2, <3>3
  <2>4. CASE \E sub \in {0, \hF0} : Respond(sock, Plain(\h95, sub)) /\ UNCHANGED client
    BY <2>3, <2>4
  <2> QED BY <1>15, <2>2, <2>4 DEF ParseChangePwd
<1>16. CInv'
  BY <1>1, <1>12, <1>13, <1>14, <1>15 DEF Handle
<1> QED BY <1>4, <1>16


(* receiveHeader takes the head of the queue, and d is what comes of it.   *)
Reads(d, que) ==
    /\ que # << >> /\ Takes(sock) /\ record' = record
    /\ ~Terminal(Head(que)) /\ (phase[sock] = "in" => Head(que).type # \h90)
    /\ owner[sock] = Me /\ phase'[sock] = "in" /\ owner'[sock] = Me
    /\ out'.que[sock] = Tail(que)
    /\ sock' = sock /\ uid' = uid /\ page' = PageAfter(Head(que))
    /\ Taken(tc, d, que, record)

LEMMA Received ==
    ASSUME IInv, QInv, CInv, Receive, sock' # None
    PROVE  \E d : tc' = d /\ Reads(d, out.que[sock])
<1> DEFINE que == out.que[sock]
           m == Head(que)
<1>1. sock \in Fd /\ sock # None /\ Joined /\ Shown /\ SendMsg(sock)
  BY DEF Receive, CInv
<1>2. /\ ~Dropped /\ ~Refused(m)
      /\ tc' \in Parsed(tc, m) /\ page' = PageAfter(m)
      /\ UNCHANGED <<sock, uid>>
  BY DEF Receive, Disconnected
<1>3. ~Dropped
  BY <1>2
<1>4. que # << >> /\ record' = record
  BY <1>1 DEF SendMsg, IInv, WritableIffQueued, tables
<1>5. Takes(sock)
  <2>1. CASE CloseConn(sock)
    <3>1. phase'[sock] = "closed"
      BY <1>1, <2>1, ClosesClient DEF IInv, TypeOK
    <3> QED BY <1>1, <1>3, <3>1, Zenon DEF Dropped
  <2> QED BY <1>1, <1>4, <2>1 DEF SendMsg, Takes, tables
<1>6. QueueOrdered(que, phase[sock], fd_to_uid[sock]) /\ que \in Seq(Message) /\ m = que[1]
      /\ 1 \in 1..Len(que)
  <2>1. que \in Seq(Message)
    BY <1>1, QueueType
  <2> QED BY <1>1, <1>4, <2>1, TailAt DEF QInv, QueuesOrdered
<1>7. /\ \/ phase[sock] = "asking" /\ m.type = \h90
         \/ phase[sock] = "in" /\ m.type # \h90
      /\ ~Terminal(m)
  <2>1. phase[sock] \in Phases /\ phase[sock] # "closed"
    BY <1>1 DEF Joined, IInv, TypeOK
  <2>2. ~Terminal(m)
    <3>1. CASE CloseConn(sock)
      <4>1. phase'[sock] = "closed"
        BY <1>1, <3>1, ClosesClient DEF IInv, TypeOK
      <4> QED BY <1>1, <1>3, <4>1, Zenon DEF Dropped
    <3> QED BY <1>1, <1>4, <3>1 DEF SendMsg
  <2> HIDE DEF que, m
  <2> QED BY <1>4, <1>6, <2>1, <2>2 DEF QueueOrdered, Phases
<1>8. owner[sock] = Me /\ Linked(tc, que, record, Me)
  BY <1>1, <1>7 DEF Joined
<1>9. phase'[sock] = "in" /\ owner'[sock] = Me /\ out'.que[sock] = Tail(que)
  <2>1. phase'[sock] = IF m.type = \h90 THEN "in" ELSE phase[sock]
    BY <1>1, <1>5 DEF Takes, Delivered, IInv, TypeOK
  <2>2. owner' = owner
    BY <1>5 DEF Takes, Delivered
  <2>3. out'.que[sock] = Tail(que)
    BY <1>1, <1>5, TakeQueues
  <2> HIDE DEF que, m
  <2> QED BY <1>7, <1>8, <2>1, <2>2, <2>3
<1>10. PICK d : tc' = d /\ d \in Parsed(tc, m)
  BY <1>2
<1>11. Taken(tc, d, que, record)
  <2>1. record \in Seq(RecordRow)
    BY DEF IInv, TypeOK
  <2> HIDE DEF que
  <2> QED BY <1>2, <1>4, <1>8, <1>10, <2>1, ParsedTaken
<1>12. Reads(d, que)
  <2> HIDE DEF que
  <2> QED BY <1>2, <1>4, <1>5, <1>7, <1>8, <1>9, <1>11 DEF Reads, m
<1> QED BY <1>10, <1>12

LEMMA ReceiveStep ==
    ASSUME IInv, QInv, CInv, Receive
    PROVE  Next /\ CInv'
<1> DEFINE que == out.que[sock]
           m == Head(que)
<1>1. sock \in Fd /\ sock # None /\ Joined /\ Shown /\ SendMsg(sock)
  BY DEF Receive, CInv
<1>2. Next
  BY <1>1 DEF Next
<1>3. Grows
  BY <1>2, NextStep, StepGrows
<1>4. CASE sock' = None
  <2>1. Disconnected
    BY <1>1, <1>4 DEF Receive
  <2> QED BY <1>2, <1>3, <2>1, DisconnectedCInv
<1>5. CASE sock' # None
  <2>1. PICK d : tc' = d /\ Reads(d, que)
    BY <1>5, Received
  <2>2. Linked(d, Tail(que), record, Me) /\ (AllKnown(tc) => AllKnown(d))
        /\ (AllKnown(tc) /\ m.type # \h90 => d.m_to_uid = tc.m_to_uid)
    BY <2>1 DEF Reads, Taken
  <2>3. /\ page' \in {"busy", "password", "main"} /\ (page' = "busy" => page = "busy")
        /\ uid' = uid /\ sock' = sock
    BY <1>1, <2>1 DEF Reads, PageAfter, Shown
  <2>4. /\ record' = record /\ phase'[sock] = "in" /\ owner'[sock] = Me
        /\ out'.que[sock] = Tail(que) /\ (phase[sock] = "in" => m.type # \h90)
    BY <2>1 DEF Reads
  <2> HIDE DEF que, m
  <2>5. uid \in Users => AllKnown(d) /\ d.m_to_uid = uid
    <3> SUFFICES ASSUME uid \in Users PROVE AllKnown(d) /\ d.m_to_uid = uid
      OBVIOUS
    <3>1. page # "busy" /\ AllKnown(tc) /\ tc.m_to_uid = uid
      BY <1>1, NamesAssumption DEF Shown
    <3>2. m.type # \h90
      BY <1>1, <2>4, <3>1 DEF Joined
    <3> QED BY <2>2, <3>1, <3>2
  <2>6. Shown'
    <3>1. uid \in Partners \cup {None} /\ (page = "busy" => uid = None)
      BY <1>1 DEF Shown
    <3> QED BY <2>1, <2>3, <2>5, <3>1 DEF Shown
  <2>7. Linked(tc', out'.que[sock], record', owner'[sock])
    BY <2>1, <2>2, <2>4
  <2>8. CInv'
    BY <1>1, <2>3, <2>4, <2>6, <2>7, StaysJoined
  <2> QED BY <1>2, <2>8
<1> QED BY <1>4, <1>5


(* connect2Host, over a descriptor that is as good as new.                 *)
LEMMA Connect2HostStep ==
    ASSUME IInv, QInv, CInv, NEW f \in Fd, Connect2Host(f)
    PROVE  Next /\ CInv'
<1>1. /\ sock = None /\ Accept(f) /\ sock' = f /\ tc' = CleanUp(tc)
      /\ page' = page /\ uid' = uid /\ page = "busy" /\ Shown /\ tc \in ClientType
  BY DEF Connect2Host, ui, CInv, Kept
<1>2. Next
  BY <1>1 DEF Next
<1>3. out.que[f] = << >> /\ owner[f] = None
  BY <1>1 DEF Accept, IInv, ClosedIsClean
<1>4. /\ phase'[f] = "fresh" /\ owner'[f] = None /\ out'.que[f] = << >>
  <2>1. phase \in [Fd -> Phases]
    BY DEF IInv, TypeOK
  <2> QED BY <1>1, <1>3, <2>1 DEF Accept, memory
<1>5. Linked(tc', << >>, record', None)
  <2> DEFINE d == CleanUp(tc)
  <2>1. Linked(d, << >>, record', None)
    BY <1>1, CleanUpLinked
  <2> QED BY <1>1, <2>1
<1>6. Joined'
  BY <1>1, <1>4, <1>5 DEF Joined
<1>7. Shown'
  BY <1>1, AllIsNoOther, NamesAssumption DEF Shown
<1>8. Kept(tc', record')
  BY <1>5 DEF Linked, Sound
<1>9. f # None
  BY ConnectionsAssumption
<1> QED BY <1>1, <1>2, <1>6, <1>7, <1>8, <1>9 DEF CInv

(* The connection is lost.                                                 *)
LEMMA LostStep ==
    ASSUME IInv, QInv, CInv, Lost
    PROVE  Next /\ CInv'
<1>1. Next
  BY DEF Lost, CInv, Next
<1>2. Grows
  BY <1>1, NextStep, StepGrows
<1> QED BY <1>1, <1>2, DisconnectedCInv DEF Lost

(* The pages: nothing happens but in the client.                           *)
LEMMA PageCInv ==
    ASSUME IInv, CInv, page # "busy", UNCHANGED <<vars, sock, page>>,
           Sound(tc', out.que[sock], record), \A u : Known(tc', u) <=> Known(tc, u),
           uid' \in Partners \cup {None},
           uid' \in Users => AllKnown(tc) /\ tc'.m_to_uid = uid'
    PROVE  CInv'
<1>1. /\ sock \in Fd /\ Joined /\ Shown /\ phase[sock] = "in" /\ owner[sock] = Me
  BY DEF CInv, Joined
<1>2. /\ phase' = phase /\ owner' = owner /\ out' = out /\ record' = record
      /\ sock' = sock /\ page' = page
  BY DEF vars, memory, tables, client
<1>3. Linked(tc, out.que[sock], record, Me)
  BY <1>1 DEF Joined
<1>4. Linked(tc', out.que[sock], record, Me)
  <2> DEFINE d == tc'
             que == out.que[sock]
  <2>1. Sound(d, que, record) /\ \A u : Known(tc, u) => Known(d, u)
    OBVIOUS
  <2>2. Linked(tc, que, record, Me)
    BY <1>3
  <2> HIDE DEF d, que
  <2>3. Linked(d, que, record, Me)
    BY <2>1, <2>2, LinkedBy
  <2> QED BY <2>3 DEF d, que
<1>5. Shown'
  <2>1. AllKnown(tc) => AllKnown(tc')
    BY DEF AllKnown
  <2> QED BY <1>1, <1>2, <2>1 DEF Shown
<1> QED BY <1>1, <1>2, <1>4, <1>5, StaysJoined

(* setUid.                                                                 *)
LEMMA SetUidStep ==
    ASSUME IInv, CInv, NEW id \in Conversations, SetUid(id)
    PROVE  CInv'
<1>1. /\ page = "main" /\ uid' = id /\ tc' = [tc EXCEPT !.m_to_uid = id]
      /\ UNCHANGED <<vars, sock, page>>
  BY DEF SetUid
<1>2. Sound(tc, out.que[sock], record)
  BY <1>1 DEF CInv, Joined, Linked
<1>3. id \in Partners /\ Listed(tc.contacts, id)
  <2>1. PICK i \in DOMAIN tc.contacts : tc.contacts[i].uid = id
    BY DEF SetUid
  <2>2. tc.contacts \in Seq(ContactRow)
    BY <1>2 DEF Sound, Kept, ClientType
  <2>3. tc.contacts[i] \in ContactRow
    BY <2>1, <2>2
  <2> QED BY <2>1, <2>3 DEF ContactRow, Listed
<1>4. id \in Users => AllKnown(tc)
  <2>1. id \in Users => id \in Others
    BY <1>3, NamesAssumption DEF Partners
  <2> QED BY <1>2, <1>3, <2>1 DEF Sound
<1>5. /\ Sound(tc', out.que[sock], record) /\ tc'.m_to_uid = id
      /\ \A u : Known(tc', u) <=> Known(tc, u)
  BY <1>1, <1>2, <1>3, AddressedSound
<1> QED BY <1>1, <1>3, <1>4, <1>5, PageCInv

(* sendMessage.                                                            *)
LEMMA SendMessageStep ==
    ASSUME IInv, CInv, SendMessage
    PROVE  CInv'
<1> DEFINE id == tc.m_to_uid
           frame == [op |-> "textmsg", uid |-> id]
           sent == SendFrame(tc, frame)
           row == Row(TRUE, Me, 0)
           d == AddRecord(sent, id, row)
           que == out.que[sock]
<1>1. /\ page = "main" /\ uid' = uid /\ tc' = d
      /\ UNCHANGED <<vars, sock, page>>
  BY DEF SendMessage, TextFrame, ui
<1>2. Sound(tc, que, record) /\ Shown
  BY <1>1 DEF CInv, Joined, Linked
<1>3. id \in Partners /\ id \in Conversations /\ tc \in ClientType
  BY <1>2 DEF Sound, Kept, ClientType, Partners, Others, Conversations
<1>4. frame \in Frame \ AskFrames /\ \A u : frame \notin NameFrames(u)
  BY <1>3, FrameTypes
<1>5. row \in TextRow /\ RowFiled(row, id, record)
  BY DEF Row, TextRow, RowFiled
<1>6. d.m_to_uid = id
  <2>1. d.m_to_uid = sent.m_to_uid
    <3>1. sent = [tc EXCEPT !.up = Append(@, frame)]
      BY DEF SendFrame
    <3> QED BY <1>3, <3>1 DEF AddRecord, ClientType
  <2>2. sent.m_to_uid = tc.m_to_uid
    BY <1>3 DEF SendFrame, ClientType
  <2> QED BY <2>1, <2>2
<1> HIDE DEF frame, row, que
<1>7. Sound(sent, que, record) /\ \A u : Known(sent, u) <=> Known(tc, u)
  BY <1>2, <1>4, SendSound
<1> HIDE DEF sent, id
<1>8. Sound(d, que, record) /\ \A u : Known(d, u) <=> Known(sent, u)
  BY <1>3, <1>5, <1>7, AddSound
<1> HIDE DEF d
<1>9. \A u : Known(tc', u) <=> Known(tc, u)
  BY <1>1, <1>7, <1>8
<1>10. Sound(tc', out.que[sock], record)
  BY <1>1, <1>8 DEF que
<1>11. uid' \in Partners \cup {None} /\ (uid' \in Users => AllKnown(tc) /\ tc'.m_to_uid = uid')
  BY <1>1, <1>2, <1>6 DEF Shown, id
<1> QED BY <1>1, <1>9, <1>10, <1>11, PageCInv

(* changePassword.                                                         *)
LEMMA ChangePasswordStep ==
    ASSUME IInv, CInv, NEW old \in Pwd, NEW new \in Pwd, ChangePassword(old, new)
    PROVE  CInv'
<1> DEFINE frame == PasswordFrame(old, new)
           d == SendFrame(tc, frame)
           que == out.que[sock]
<1>1. /\ page = "password" /\ uid' = uid /\ tc' = d
      /\ UNCHANGED <<vars, sock, page>>
  BY DEF ChangePassword, ui
<1>2. Sound(tc, que, record) /\ Shown
  BY <1>1 DEF CInv, Joined, Linked
<1>3. frame \in Frame \ AskFrames /\ \A u : frame \notin NameFrames(u)
  BY FrameTypes
<1>4. d.m_to_uid = tc.m_to_uid
  BY <1>2 DEF SendFrame, Sound, Kept, ClientType
<1> HIDE DEF frame, que
<1>5. Sound(d, que, record) /\ \A u : Known(d, u) <=> Known(tc, u)
  BY <1>2, <1>3, SendSound
<1> HIDE DEF d
<1>6. \A u : Known(tc', u) <=> Known(tc, u)
  BY <1>1, <1>5
<1>7. Sound(tc', out.que[sock], record)
  BY <1>1, <1>5 DEF que
<1>8. uid' \in Partners \cup {None} /\ (uid' \in Users => AllKnown(tc) /\ tc'.m_to_uid = uid')
  BY <1>1, <1>2, <1>4 DEF Shown
<1> QED BY <1>1, <1>6, <1>7, <1>8, PageCInv


-----------------------------------------------------------------------------
(* What is owed to the client of Me.                                       *)

(* No table is longer than a history, and nobody writes to himself.        *)
Fits ==
    /\ Len(record) <= MaxRecords
    /\ \A rid \in DOMAIN record : record[rid].sendid # record[rid].recvid

(* Nothing is due to a session at the connection that is not on its way,   *)
(* and a client whose session has ended is to be told so.                  *)
Owing ==
    /\ phase[sock] = "fresh" => tc.up = << >> /\ \A u \in Others : ~Known(tc, u)
    /\ fd_to_uid[sock] = Me => Owed(tc, out.que[sock], record)
    /\ owner[sock] = Me /\ fd_to_uid[sock] = None => Ends(out.que[sock])

OInv == Fits /\ (sock # None => Owing)

LEMMA SavesOne ==
    IInv /\ [Next]_vars =>
        \/ record' = record
        \/ Len(record) < MaxRecords /\ \E row \in RecordRow : /\ record' = Append(record, row)
                                                             /\ row.sendid # row.recvid
<1> SUFFICES ASSUME IInv, [Next]_vars, record' # record
             PROVE  Len(record) < MaxRecords
                    /\ \E row \in RecordRow : /\ record' = Append(record, row)
                                              /\ row.sendid # row.recvid
  OBVIOUS
<1>1. SomeStep
  BY NextStep
<1>2. PICK f \in Fd, u \in Users, dst_uid \in Uids : Forwards(f, u, dst_uid)
  <2>1. ASSUME NEW f \in Fd, NEW u \in Users, LoginAccepted(f, u) PROVE FALSE
    BY <2>1 DEF LoginAccepted, tables
  <2>2. ASSUME NEW f \in Fd, Accept(f) PROVE FALSE
    BY <2>2 DEF Accept, tables
  <2> QED BY <1>1, <2>1, <2>2 DEF SomeStep, Still, Stops, Answers, TurnsDown, Closes, Takes,
                                  HandsOn
<1>3. \E row \in RecordRow : record' = Append(record, row) /\ row.sendid # row.recvid
  <2> DEFINE row == [sendid |-> u, recvid |-> dst_uid]
  <2>1. row \in RecordRow /\ record' = Append(record, row) /\ row.sendid # row.recvid
    BY <1>2 DEF RecordRow, Forwards, SaveAndForward, SaveMessage
  <2> QED BY <2>1
<1>4. \E g \in Fd : \E id \in Uids : ParseTextmsg(g, id)
  <2>1. Next
    BY DEF vars, tables
  <2>2. ASSUME NEW g \in Fd, Accept(g) \/ LoginFault(g) \/ LoginRefused(g) \/ LoginAborts(g)
                             \/ SendMsg(g) \/ LoseConn(g)
        PROVE  FALSE
    BY <2>2 DEF Accept, LoginFault, LoginRefused, LoginAborts, SendMsg, LoseConn, tables
  <2>3. ASSUME NEW g \in Fd, NEW v \in Users, LoginAccepted(g, v) PROVE FALSE
    BY <2>3 DEF LoginAccepted, tables
  <2>4. ASSUME NEW op, NEW g, NEW type, NEW sub, NEW id, NEW updated,
               Transfile(op, g, type, sub, id, updated)
        PROVE  FALSE
    BY <2>4 DEF Transfile, tables
  <2>5. ASSUME NEW g \in Fd, Requests(g) PROVE \E id \in Uids : ParseTextmsg(g, id)
    <3>1. ASSUME NEW id, ParseUsername(g, id) \/ ParseChatrecord(g, id) PROVE FALSE
      BY <3>1 DEF ParseUsername, ParseChatrecord, tables
    <3>2. ASSUME NEW old, NEW new, ParseChangePwd(g, old, new) PROVE FALSE
      BY <3>2 DEF ParseChangePwd, tables
    <3>3. ASSUME NEW type, ParseUnknown(g, type) PROVE FALSE
      BY <3>3 DEF ParseUnknown, tables
    <3> QED BY <2>4, <2>5, <3>1, <3>2, <3>3 DEF Requests, ParseTransfileAskRc,
               ParseTransfileRepSc, ParseTransfileData, ParseTransfileAck
  <2>6. ~Kill /\ ~Restart
    BY DEF Kill, Restart, tables
  <2> QED BY <2>1, <2>2, <2>3, <2>5, <2>6 DEF Next
<1>5. Len(record) < MaxRecords
  BY <1>4 DEF ParseTextmsg
<1> QED BY <1>3, <1>5

LEMMA FitsStep == IInv /\ Fits /\ [Next]_vars => Fits'
<1> SUFFICES ASSUME IInv, Fits, [Next]_vars PROVE Fits'
  OBVIOUS
<1>1. CASE record' = record
  BY <1>1 DEF Fits
<1>2. ASSUME NEW row \in RecordRow, record' = Append(record, row), row.sendid # row.recvid,
             Len(record) < MaxRecords
      PROVE  Fits'
  <2>1. record \in Seq(RecordRow) /\ MaxRecords \in Nat
    BY ConnectionsAssumption DEF IInv, TypeOK
  <2>2. /\ Len(record') = Len(record) + 1 /\ Len(record) \in Nat
        /\ record'[Len(record) + 1] = row
        /\ \A rid \in 1..Len(record) : record'[rid] = record[rid]
        /\ DOMAIN record' = 1..(Len(record) + 1) /\ DOMAIN record = 1..Len(record)
    BY <1>2, <2>1
  <2>3. \A rid \in DOMAIN record' : rid \in DOMAIN record \/ rid = Len(record) + 1
    BY <2>2
  <2> QED BY <1>2, <2>1, <2>2, <2>3 DEF Fits
<1> QED BY <1>1, <1>2, SavesOne

(* A step of another, or of the daemon.                                    *)
LEMMA AsideOwing ==
    ASSUME IInv, CInv, sock # None => Owing,
           sock # None => phase'[sock] = "closed" \/ Overhears(sock),
           IF Dropped THEN Disconnected ELSE UNCHANGED process,
           sock' # None
    PROVE  Owing'
<1>1. /\ sock' = sock /\ tc' = tc /\ sock # None /\ sock \in Fd /\ Owing
      /\ Overhears(sock)
  BY DEF Disconnected, Dropped, process, CInv
<1> DEFINE que == out.que[sock]
           quf == out'.que[sock]
<1>2. que \in Seq(Message) /\ record \in Seq(RecordRow) /\ tc \in ClientType
  BY <1>1, QueueType DEF IInv, TypeOK, CInv, Kept
<1>3. Extends(que, quf)
  <2>1. CASE quf = que
    BY <2>1 DEF Extends
  <2>2. CASE quf # que
    <3>1. PICK m \in Message : quf = Append(que, m)
      BY <1>1, <2>2 DEF Overhears
    <3> HIDE DEF que, quf
    <3> QED BY <1>2, <3>1, ExtendsPush
  <2> QED BY <2>1, <2>2
<1>4. phase'[sock] = phase[sock] /\ owner'[sock] = owner[sock]
      /\ SessionStays(sock) /\ TextsComplete(sock)
  BY <1>1 DEF Overhears
<1>5. ASSUME fd_to_uid'[sock] = Me PROVE Owed(tc, quf, record')
  <2>1. fd_to_uid[sock] = Me
    BY <1>4, <1>5, NamesAssumption, MeAssumption DEF SessionStays
  <2>2. Owed(tc, que, record)
    BY <1>1, <2>1 DEF Owing
  <2>3. CASE record' = record
    <3>1. Owed(tc, quf, record)
      BY <1>2, <1>3, <2>2, OwedExtends
    <3> QED BY <2>3, <3>1
  <2>4. CASE record' # record
    <3>1. PICK row \in RecordRow : ForwardedTo(sock, row)
      BY <1>4, <2>1, <2>4 DEF TextsComplete
    <3>2. /\ record' = Append(record, row) /\ row.sendid # Me
          /\ (ReadBy(row, Me) => Queued(quf, Len(record) + 1))
      BY <3>1 DEF ForwardedTo
    <3> HIDE DEF que, quf
    <3>3. Owed(tc, quf, Append(record, row))
      BY <1>2, <1>3, <2>2, <3>2, OwedSaved
    <3> QED BY <3>2, <3>3
  <2> QED BY <2>3, <2>4
<1>6. fd_to_uid'[sock] = None /\ owner[sock] = Me => Ends(quf)
  BY <1>1, <1>3, <1>4 DEF SessionStays, Owing, Extends
<1>7. Owing => (phase[sock] = "fresh" => tc.up = << >> /\ \A u \in Others : ~Known(tc, u))
  BY DEF Owing
<1> QED BY <1>1, <1>4, <1>5, <1>6, <1>7 DEF Owing

(* connect2Host.                                                           *)
LEMMA Connect2HostOwing ==
    ASSUME IInv, CInv, NEW f \in Fd, Connect2Host(f)
    PROVE  Owing'
<1>1. /\ Accept(f) /\ sock' = f /\ tc' = CleanUp(tc) /\ tc \in ClientType
  BY DEF Connect2Host, CInv, Kept
<1>2. /\ fd_to_uid'[f] = None /\ owner'[f] = None
  BY <1>1 DEF Accept, memory, IInv, ClosedIsClean
<1>3. tc'.up = << >>
  BY <1>1, CleanUpLinked
<1>4. \A u \in Others : ~Known(tc', u)
  <2>1. CleanUp(tc).map_contacts = [u \in Users |-> None]
    BY DEF CleanUp, NewClient
  <2> QED BY <1>1, <2>1, AllIsNoOther DEF Known
<1> QED BY <1>1, <1>2, <1>3, <1>4, NamesAssumption, MeAssumption DEF Owing

(* login.                                                                  *)
LEMMA LoginOwing ==
    ASSUME IInv, QInv, CInv, Owing, Login, sock' # None
    PROVE  Owing'
<1>1. /\ sock \in Fd /\ sock # None /\ sock' = sock /\ tc' = tc /\ tc \in ClientType
      /\ ~Dropped /\ phase \in [Fd -> Phases] /\ record \in Seq(RecordRow)
      /\ owner \in [Fd -> Users \cup {None}]
  BY DEF Login, Disconnected, process, CInv, Kept, IInv, TypeOK
<1>2. ~LoginAborts(sock)
  <2> SUFFICES ASSUME LoginAborts(sock) PROVE FALSE
    OBVIOUS
  <2>1. Stops
    BY DEF LoginAborts, Stops, Sites, tables
  <2> QED BY <1>1, <2>1, StopsAside DEF Dropped
<1>3. LoginRequest(sock) /\ phase' = [phase EXCEPT ![sock] = "asking"] /\ record' = record
  BY <1>2 DEF Login, LoginFault, LoginRefused, LoginAccepted, tables
<1>4. phase[sock] = "fresh" /\ phase'[sock] = "asking"
  BY <1>1, <1>3 DEF LoginRequest
<1>5. CASE LoginFault(sock) \/ LoginRefused(sock)
  <2>1. fd_to_uid' = fd_to_uid /\ owner' = owner
    BY <1>5 DEF LoginFault, LoginRefused
  <2>2. fd_to_uid[sock] = None
    BY <1>1, <1>4 DEF IInv, SessionIsOwned
  <2>3. owner[sock] = None
    BY <1>1, <1>4 DEF CInv, Joined
  <2> QED BY <1>1, <1>4, <2>1, <2>2, <2>3, NamesAssumption, MeAssumption DEF Owing
<1>6. CASE LoginAccepted(sock, Me)
  <2> DEFINE reply == LoginReply(Me)
             on == ListOn(Me, Online(uid_to_fd'))
             off == ListOff(Me, Online(uid_to_fd'))
             quf == out'.que[sock]
  <2>1. fd_to_uid'[sock] = Me
    <3>1. Remaining(Me) \in [Fd -> Users \cup {None}]
      BY <1>1, <1>6, LoginAcceptedMaps
    <3> QED BY <1>1, <1>6, <3>1 DEF LoginAccepted
  <2>2. quf = Append(Append(Append(out.que[sock], reply), on), off)
    BY <1>1, <1>6, LoginQueues
  <2>3. out.que[sock] = << >>
    BY <1>1, <1>4 DEF QInv, QueuesOrdered, QueueOrdered
  <2>4. reply.type = \h90
    BY DEF LoginReply, Plain
  <2> HIDE DEF reply, on, off
  <2>5. Admits(quf)
    <3>1. quf = Append(Append(Append(<< >>, reply), on), off)
      BY <2>2, <2>3
    <3>2. Len(quf) = 3 /\ quf[1] = reply
      BY <3>1
    <3> HIDE DEF quf
    <3>3. 1 \in 1..Len(quf)
      BY <3>2
    <3> QED BY <2>4, <3>2, <3>3 DEF Admits
  <2>6. tc.up = << >> /\ \A u \in Others : ~Known(tc, u)
    BY <1>4 DEF Owing
  <2> HIDE DEF quf
  <2>7. Owed(tc, quf, record)
    BY <1>1, <2>5, <2>6, OwedFresh
  <2>8. fd_to_uid'[sock] # None
    BY <2>1, NamesAssumption, MeAssumption
  <2> QED BY <1>1, <1>3, <1>4, <2>7, <2>8 DEF Owing, quf
<1> QED BY <1>2, <1>5, <1>6 DEF Login

(* A history that is no longer than it may be holds every row.             *)
LEMMA SerhAll ==
    ASSUME NEW rec \in Seq(RecordRow), NEW id, Len(rec) <= RecordCnt,
           NEW rid \in DOMAIN rec, Concerns(rec[rid], Me, id)
    PROVE  rid \in SerhMessage(rec, Me, id, RecordCnt)
<1> DEFINE n == Len(rec)
           rows == {r \in DOMAIN rec : Concerns(rec[r], Me, id)}
           later == {r \in rows : r > rid}
<1>1. DOMAIN rec = 1..n /\ n \in Nat /\ RecordCnt \in Nat /\ n <= RecordCnt
  BY LenProperties, ConnectionsAssumption
<1> HIDE DEF n
<1>2. rid \in 1..n /\ rid \in rows
  BY <1>1
<1>3. later \in SUBSET ((1..n) \ {rid})
  BY <1>1
<1> HIDE DEF rows, later
<1>4. IsFiniteSet(1..n) /\ Cardinality(1..n) = n
  BY <1>1, <1>2, FS_Interval
<1>5. IsFiniteSet((1..n) \ {rid}) /\ Cardinality((1..n) \ {rid}) = n - 1
  BY <1>2, <1>4, FS_RemoveElement
<1>6. Cardinality(later) \in Nat /\ Cardinality(later) <= n - 1
  <2> DEFINE others == (1..n) \ {rid}
  <2>1. IsFiniteSet(others) /\ Cardinality(others) = n - 1 /\ later \in SUBSET others
    BY <1>3, <1>5
  <2> HIDE DEF others
  <2>2. IsFiniteSet(later) /\ Cardinality(later) <= Cardinality(others)
    BY <2>1, FS_Subset
  <2> QED BY <2>1, <2>2, FS_CardinalityType
<1>7. Cardinality(later) < RecordCnt
  BY <1>1, <1>6
<1> QED BY <1>2, <1>7 DEF SerhMessage, rows, later

LEMMA HistoryComplete ==
    ASSUME ~DbFaults, NEW f \in Fd, NEW id \in Partners,
           NEW rec \in Seq(RecordRow), rec = record, Len(rec) <= RecordCnt,
           ChatrecordAnswer(f, Me, id)
    PROVE  \E m \in Message : /\ Respond(f, m)
                              /\ \A rid \in DOMAIN rec :
                                    Concerns(rec[rid], Me, id) => Carries(m, rid)
<1>1. id = ALL \/ CheckUid(id)
  BY AllIsNoOther DEF Partners, CheckUid
<1>2. Respond(f, History(SerhMessage(rec, Me, id, RecordCnt)))
  BY <1>1 DEF ChatrecordAnswer, QueryOk
<1> DEFINE rids == SerhMessage(rec, Me, id, RecordCnt)
           m == History(rids)
<1>3. rids \in SUBSET Nat
  BY DEF SerhMessage
<1>4. \A rid \in DOMAIN rec : Concerns(rec[rid], Me, id) => rid \in rids
  BY SerhAll
<1> HIDE DEF rids
<1>5. m \in Message /\ m.type = \h92 /\ m.sub = 0 /\ m.rids = rids
  BY <1>3, MessageTypes DEF History
<1>6. Respond(f, m)
  BY <1>2 DEF rids
<1> HIDE DEF m
<1>7. \A rid \in DOMAIN rec : Concerns(rec[rid], Me, id) => Carries(m, rid)
  BY <1>4, <1>5 DEF Carries
<1> QED BY <1>5, <1>6, <1>7

(* The server handles the oldest frame and answers it.                     *)
LEMMA AnsweredOwing ==
    ASSUME IInv, QInv, CInv, Owing, sock # None, tc.up # << >>,
           phase[sock] = "in", NEW m \in Message, Respond(sock, m),
           UNCHANGED <<fd_to_uid, client, record>>, sock' = sock, tc' = FrameGone(tc),
           fd_to_uid[sock] = Me =>
              \A rid \in DOMAIN record :
                 Mine(record[rid]) /\ Head(tc.up) = HistoryFrame(ConversationOf(record[rid]))
                    => Carries(m, rid)
    PROVE  Owing'
<1> DEFINE que == out.que[sock]
           quf == Append(que, m)
           d == FrameGone(tc)
<1>1. /\ sock \in Fd /\ tc \in ClientType /\ record \in Seq(RecordRow)
      /\ que \in Seq(Message)
  BY QueueType DEF CInv, Kept, IInv, TypeOK
<1>2. /\ out'.que[sock] = quf
      /\ phase' = phase /\ owner' = owner /\ fd_to_uid' = fd_to_uid /\ record' = record
  BY <1>1, RespondAt DEF client
<1> HIDE DEF que
<1>3. Extends(que, quf) /\ \A rid : Carries(m, rid) => Queued(quf, rid)
  BY <1>1, ExtendsPush
<1> HIDE DEF quf, d
<1>4. ASSUME fd_to_uid[sock] = Me PROVE Owed(d, quf, record)
  <2>1. Owed(tc, que, record)
    BY <1>4 DEF Owing, que
  <2>2. \A rid \in DOMAIN record :
           Mine(record[rid]) /\ Head(tc.up) = HistoryFrame(ConversationOf(record[rid]))
              => Queued(quf, rid)
    BY <1>3, <1>4
  <2> QED BY <1>1, <1>3, <2>1, <2>2, OwedHandled DEF d
<1>5. fd_to_uid[sock] = None /\ owner[sock] = Me => Ends(quf)
  BY <1>3 DEF Owing, Extends, que
<1> QED BY <1>2, <1>4, <1>5 DEF Owing, d

LEMMA RequestOwing ==
    ASSUME ~DbFaults, MaxRecords <= RecordCnt,
           IInv, QInv, CInv, Fits, Owing, RequestHandled, sock' # None
    PROVE  Owing'
<1> DEFINE frame == Head(tc.up)
           que == out.que[sock]
<1>1. /\ sock \in Fd /\ sock # None /\ Joined /\ tc.up # << >> /\ Handle(frame)
      /\ ~Dropped /\ sock' = sock /\ tc' = FrameGone(tc)
      /\ tc \in ClientType /\ record \in Seq(RecordRow) /\ que \in Seq(Message)
  BY QueueType DEF RequestHandled, Disconnected, FrameGone, CInv, Kept, IInv, TypeOK
<1>2. phase[sock] = "in"
  BY <1>1 DEF Handle, ParseUsername, ParseChatrecord, ParseTextmsg, ParseChangePwd, Request
<1>3. owner[sock] = Me /\ frame \in Frame
  <2>1. owner[sock] = Me
    BY <1>1, <1>2 DEF Joined
  <2>2. tc.up \in Seq(Frame)
    BY <1>1 DEF ClientType
  <2> QED BY <1>1, <2>1, <2>2, HeadTailProperties
<1> HIDE DEF frame, que
<1>4. ~Stops
  BY <1>1, StopsAside DEF Dropped
<1>5. ~(NotLoggedIn(sock) /\ UNCHANGED tables)
  BY <1>4 DEF NotLoggedIn, tables, Stops, Sites
<1>6. ASSUME NEW m \in Message, Respond(sock, m), UNCHANGED <<fd_to_uid, client, record>>,
             frame.op # "chatrecord"
      PROVE  Owing'
  <2>1. \A conv : Head(tc.up) # HistoryFrame(conv)
    BY <1>6 DEF HistoryFrame, frame
  <2> QED BY <1>1, <1>2, <1>6, <2>1, AnsweredOwing
<1>7. ASSUME frame.op = "username", ParseUsername(sock, frame.uid) PROVE Owing'
  <2>1. frame.uid \in Others
    BY <1>3, <1>7, FrameKinds
  <2>2. PICK m \in AnswerMessages : Respond(sock, m)
    BY SMTT(30), <1>1, <1>7, <2>1, UsernameAnswered
  <2>3. m \in Message /\ UNCHANGED <<fd_to_uid, client, record>>
    BY <1>7 DEF ParseUsername, tables, AnswerMessages
  <2> QED BY <1>6, <1>7, <2>2, <2>3
<1>8. ASSUME frame.op = "chatrecord", ParseChatrecord(sock, frame.uid) PROVE Owing'
  <2>1. frame.uid \in Partners
    BY <1>3, <1>8, FrameKinds
  <2>2. UNCHANGED tables
    BY <1>8 DEF ParseChatrecord
  <2>3. PICK my_uid \in Users :
           LoggedInAs(sock, my_uid) /\ ChatrecordAnswer(sock, my_uid, frame.uid)
    BY <1>5, <1>8, <2>2 DEF ParseChatrecord
  <2>4. UNCHANGED <<fd_to_uid, client, record>>
    BY <1>5, <1>8, <2>2 DEF ParseChatrecord, tables
  <2>5. my_uid = Me
    BY <1>1, <2>3, OwnSession, NamesAssumption DEF LoggedInAs
  <2>6. Len(record) <= RecordCnt
    <3>1. Len(record) \in Nat
      BY <1>1, LenProperties
    <3> QED BY <3>1, ConnectionsAssumption DEF Fits
  <2>7. PICK m \in Message : /\ Respond(sock, m)
                             /\ \A rid \in DOMAIN record :
                                   Concerns(record[rid], Me, frame.uid) => Carries(m, rid)
    BY <1>1, <2>1, <2>3, <2>5, <2>6, HistoryComplete
  <2>8. ASSUME NEW rid \in DOMAIN record, Mine(record[rid]),
               frame = HistoryFrame(ConversationOf(record[rid]))
        PROVE  Carries(m, rid)
    <3>1. record[rid] \in RecordRow
      BY <1>1
    <3>2. ConversationOf(record[rid]) = frame.uid
      BY <2>8 DEF HistoryFrame
    <3>3. Concerns(record[rid], Me, frame.uid)
      BY <2>1, <2>8, <3>1, <3>2, MineConcerns
    <3> QED BY <2>7, <3>3
  <2> QED BY <1>1, <1>2, <2>4, <2>7, <2>8, AnsweredOwing DEF frame
<1>9. ASSUME frame.op = "textmsg", ParseTextmsg(sock, frame.uid) PROVE Owing'
  <2>1. frame.uid \in Partners /\ frame.uid \in Uids \ {owner[sock]}
        /\ frame = [op |-> "textmsg", uid |-> frame.uid]
    BY <1>3, <1>9, FrameKinds, PartnersNamed DEF Frame
  <2>2. ASSUME NEW my_uid \in Users, Forwards(sock, my_uid, frame.uid) PROVE Owing'
    <3>1. my_uid = Me /\ fd_to_uid[sock] = Me /\ UNCHANGED <<fd_to_uid, client>>
      BY <1>1, <2>2, OwnSession, NamesAssumption DEF Forwards, LoggedInAs
    <3>2. sock \notin Readers(my_uid, frame.uid)
      BY <1>1, <2>1, <3>1, PartnersNamed DEF Readers, LoggedIn, ReadBy
    <3>3. PICK reply \in Message, text \in Message :
            \A g \in Fd :
               LET answered == IF g = sock THEN Append(out.que[g], reply) ELSE out.que[g]
               IN  out'.que[g] = IF g \in Readers(my_uid, frame.uid)
                                 THEN Append(answered, text) ELSE answered
      BY <1>1, <2>1, <2>2, ForwardQueues
    <3>4. out'.que[sock] = Append(que, reply)
      BY <1>1, <3>2, <3>3 DEF que
    <3> DEFINE row == [sendid |-> Me, recvid |-> frame.uid]
               quf == Append(que, reply)
    <3>5. row \in RecordRow /\ row.sendid = Me /\ row.recvid = frame.uid
          /\ record' = Append(record, row)
      BY <2>1, <2>2, <3>1 DEF Forwards, SaveAndForward, SaveMessage, RecordRow
    <3>6. Owed(tc, que, record)
      BY <3>1 DEF Owing, que
    <3> HIDE DEF row
    <3>7. Extends(que, quf)
      BY <1>1, ExtendsPush
    <3> HIDE DEF quf
    <3>8. Owed(FrameGone(tc), quf, Append(record, row))
      BY <1>1, <2>1, <3>5, <3>6, <3>7, OwedText DEF frame
    <3>9. phase'[sock] = "in" /\ fd_to_uid'[sock] = Me /\ Me # None
      BY <1>2, <3>1, NamesAssumption, MeAssumption DEF client
    <3> QED BY <1>1, <3>4, <3>5, <3>8, <3>9 DEF Owing, quf
  <2>3. ASSUME NEW m, OfType(\h93, m), Answers(sock, m) PROVE Owing'
    BY <1>6, <1>9, <2>3 DEF OfType, Answers
  <2> QED BY <1>1, <1>4, <1>9, <2>1, <2>2, <2>3, TextmsgStep
<1>10. ASSUME frame.op = "change_pwd", ParseChangePwd(sock, frame.old, frame.new)
       PROVE  Owing'
  <2>1. PICK sub \in {0, \hF0} : Respond(sock, Plain(\h95, sub))
    BY <1>5, <1>10 DEF ParseChangePwd
  <2>2. UNCHANGED <<fd_to_uid, client, record>>
    BY <1>5, <1>10 DEF ParseChangePwd
  <2>3. OfType(\h95, Plain(\h95, sub))
    BY HeaderTypes
  <2> QED BY <1>6, <1>10, <2>1, <2>2, <2>3 DEF OfType
<1> QED BY <1>1, <1>7, <1>8, <1>9, <1>10 DEF Handle

(* The client keeps what it has, and the queue is as it was.               *)
LEMMA OwedStill ==
    ASSUME NEW c \in ClientType, NEW que, NEW rec \in Seq(RecordRow), Owed(c, que, rec),
           NEW d \in ClientType, Keeps(c, d), \A u : Known(d, u) <=> Known(c, u)
    PROVE  Owed(d, que, rec)
<1>1. \A conv \in Partners : \A rid : Coming(c, que, conv, rid) => Coming(d, que, conv, rid)
  BY DEF Coming, Keeps
<1> QED BY <1>1, OwedKeeps

(* Who is chosen is listed, and so is not Me.                              *)
LEMMA AddressedTo ==
    ASSUME tc \in ClientType, NEW id \in Conversations, SetUid(id)
    PROVE  id \in Partners
<1>1. PICK i \in DOMAIN tc.contacts : tc.contacts[i].uid = id
  BY DEF SetUid
<1>2. tc.contacts \in Seq(ContactRow)
  BY DEF ClientType
<1>3. tc.contacts[i] \in ContactRow
  BY <1>1, <1>2
<1> QED BY <1>1, <1>3 DEF ContactRow

(* receiveHeader.                                                          *)
LEMMA ReceiveOwing ==
    ASSUME IInv, QInv, CInv, Owing, Receive, sock' # None
    PROVE  Owing'
<1> DEFINE que == out.que[sock]
           rest == Tail(que)
<1>1. PICK d : tc' = d /\ Reads(d, que)
  BY Received
<1>2. /\ sock \in Fd /\ que \in Seq(Message) /\ tc \in ClientType /\ record \in Seq(RecordRow)
  BY QueueType DEF Receive, CInv, Kept, IInv, TypeOK
<1>3. /\ que # << >> /\ ~Terminal(Head(que)) /\ owner[sock] = Me
      /\ phase'[sock] = "in" /\ out'.que[sock] = rest
      /\ sock' = sock /\ record' = record /\ fd_to_uid' = fd_to_uid
      /\ Taken(tc, d, que, record)
  BY <1>1 DEF Reads, Takes
<1> HIDE DEF que
<1>4. ASSUME fd_to_uid[sock] = Me PROVE Owed(d, rest, record)
  <2>1. Owed(tc, que, record)
    BY <1>4 DEF Owing, que
  <2>2. d \in ClientType
    BY <1>3 DEF Taken, Linked, Sound, Kept
  <2> QED BY <1>2, <1>3, <2>1, <2>2, OwedTaken
<1>5. ASSUME fd_to_uid[sock] = None PROVE Ends(rest)
  <2>1. PICK i \in 1..Len(que) : que[i].type = \hA0
    BY <1>3, <1>5 DEF Owing, Ends, que
  <2>2. /\ Head(que) = que[1] /\ Len(que) \in Nat /\ Len(rest) = Len(que) - 1
        /\ \A j \in 1..Len(rest) : rest[j] = que[j + 1]
    BY <1>2, <1>3, TailAt
  <2> HIDE DEF rest
  <2>3. i # 1
    BY <1>3, <2>1, <2>2 DEF Terminal
  <2>4. i - 1 \in 1..Len(rest) /\ (i - 1) + 1 = i
    BY <2>2, <2>3
  <2>5. rest[i - 1] = que[i]
    BY <2>2, <2>4
  <2> QED BY <2>1, <2>4, <2>5 DEF Ends
<1> QED BY <1>1, <1>3, <1>4, <1>5 DEF Owing

(* The pages.                                                              *)
LEMMA PageOwing ==
    ASSUME CInv, Owing, page # "busy", UNCHANGED <<vars, sock>>,
           Owed(tc, out.que[sock], record) => Owed(tc', out.que[sock], record)
    PROVE  Owing'
<1>1. /\ phase[sock] = "in" /\ phase' = phase /\ owner' = owner /\ out' = out
      /\ record' = record /\ fd_to_uid' = fd_to_uid /\ sock' = sock
  BY DEF CInv, Joined, vars, memory, tables, client
<1> QED BY <1>1 DEF Owing

LEMMA PagesOwing ==
    ASSUME IInv, CInv, Owing, page # "busy",
           \/ \E id \in Conversations : SetUid(id)
           \/ SendMessage
           \/ \E old, new \in Pwd : ChangePassword(old, new)
    PROVE  Owing'
<1> DEFINE que == out.que[sock]
<1>1. /\ tc \in ClientType /\ record \in Seq(RecordRow) /\ Sound(tc, que, record)
  BY DEF CInv, Joined, Linked, Kept, IInv, TypeOK
<1>2. UNCHANGED <<vars, sock>>
  BY DEF SetUid, SendMessage, ChangePassword
<1> HIDE DEF que
<1>3. ASSUME NEW id \in Conversations, SetUid(id), Owed(tc, que, record)
      PROVE  Owed(tc', que, record)
  <2> DEFINE d == [tc EXCEPT !.m_to_uid = id]
  <2>1. tc' = d
    BY <1>3 DEF SetUid
  <2>2. id \in Partners
    BY <1>1, <1>3, AddressedTo
  <2>3. d \in ClientType /\ d.up = tc.up /\ d.records = tc.records
        /\ d.map_contacts = tc.map_contacts
    BY <1>1, <2>2 DEF ClientType
  <2> HIDE DEF d
  <2>4. Keeps(tc, d) /\ \A u : Known(d, u) <=> Known(tc, u)
    BY <2>3 DEF Keeps, Shows, Asks, Known
  <2>5. Owed(d, que, record)
    BY <1>1, <1>3, <2>3, <2>4, OwedStill
  <2> QED BY <2>1, <2>5
<1>4. ASSUME NEW old \in Pwd, NEW new \in Pwd, ChangePassword(old, new),
             Owed(tc, que, record)
      PROVE  Owed(tc', que, record)
  <2> DEFINE frame == PasswordFrame(old, new)
             d == SendFrame(tc, frame)
  <2>1. tc' = d
    BY <1>4 DEF ChangePassword
  <2>2. frame \in Frame /\ frame.op # "textmsg"
    BY FrameTypes DEF PasswordFrame
  <2> HIDE DEF frame
  <2>4. tc.up \in Seq(Frame) /\ Append(tc.up, frame) \in Seq(Frame)
    BY <1>1, <2>2 DEF ClientType
  <2>3. /\ d \in ClientType /\ d.up = Append(tc.up, frame) /\ d.records = tc.records
        /\ d.map_contacts = tc.map_contacts
    BY <1>1, <2>4 DEF ClientType, SendFrame
  <2> HIDE DEF d
  <2>5. Keeps(tc, d) /\ \A u : Known(d, u) <=> Known(tc, u)
    BY <2>2, <2>3, <2>4, KeepsAsk DEF Known
  <2>6. Owed(d, que, record)
    BY <1>1, <1>4, <2>3, <2>5, OwedStill
  <2> QED BY <2>1, <2>6
<1>5. ASSUME SendMessage, Owed(tc, que, record) PROVE Owed(tc', que, record)
  <2> DEFINE id == tc.m_to_uid
             frame == [op |-> "textmsg", uid |-> id]
             sent == SendFrame(tc, frame)
             row == Row(TRUE, Me, 0)
             d == AddRecord(sent, id, row)
  <2>1. tc' = d
    BY <1>5 DEF SendMessage, TextFrame
  <2>2. id \in Partners /\ id \in Conversations
    BY <1>1 DEF ClientType, Partners, Others, Conversations
  <2>3. frame \in Frame \ AskFrames /\ \A u : frame \notin NameFrames(u)
    BY <2>2, FrameTypes
  <2>4. row \in TextRow /\ RowFiled(row, id, record) /\ row.txt = 0 /\ row.sentByMe
    BY DEF Row, TextRow, RowFiled
  <2>5. sent.up = Append(tc.up, frame) /\ sent.records = tc.records
        /\ sent.map_contacts = tc.map_contacts
    BY <1>1 DEF ClientType, SendFrame
  <2> HIDE DEF row, frame
  <2>6. Sound(sent, que, record)
    BY <1>1, <2>3, SendSound
  <2> HIDE DEF sent, id
  <2>7. /\ Sound(d, que, record) /\ \A u : Known(d, u) <=> Known(sent, u)
        /\ d.up = sent.up
        /\ d.records = [sent.records EXCEPT ![id] = <<row>> \o sent.records[id]]
    BY <2>2, <2>4, <2>6, AddSound
  <2> HIDE DEF d
  <2>8. d \in ClientType
    BY <2>7 DEF Sound, Kept
  <2>9. /\ \A u : Known(d, u) <=> Known(tc, u)
        /\ d.up = Append(tc.up, frame)
        /\ d.records = [tc.records EXCEPT ![id] = <<row>> \o tc.records[id]]
    BY <2>5, <2>7 DEF Known
  <2>10. Owed(d, que, record)
    BY <1>1, <1>5, <2>2, <2>4, <2>8, <2>9, OwedSent DEF frame
  <2> QED BY <2>1, <2>10
<1>6. Owed(tc, que, record) => Owed(tc', que, record)
  BY <1>3, <1>4, <1>5
<1> QED BY <1>2, <1>6, PageOwing DEF que

(* Of its own texts the client shows as many as the table holds.           *)
LEMMA OwnShown ==
    ASSUME NEW rec \in Seq(RecordRow), NEW rows \in Seq(TextRow), NEW conv,
           \A i \in DOMAIN rows : RowFiled(rows[i], conv, rec),
           NEW own \in SUBSET (DOMAIN rec), \A rid \in own : rec[rid].sendid = Me,
           NEW M \in SUBSET own, Cardinality(M) <= Cardinality(Added(rows)),
           \A rid \in own \ M : \E i \in DOMAIN rows : rows[i].txt = rid
    PROVE  Cardinality(own) <= Cardinality({i \in DOMAIN rows : rows[i].sentByMe})
<1> DEFINE n == Len(rec)
           k == Len(rows)
           S == own \ M
           sent == {i \in DOMAIN rows : rows[i].sentByMe}
           filled == {i \in sent : rows[i].txt # 0}
           f == [rid \in S |-> CHOOSE i \in DOMAIN rows : rows[i].txt = rid]
<1>1. DOMAIN rec = 1..n /\ n \in Nat /\ DOMAIN rows = 1..k /\ k \in Nat
      /\ \A i \in DOMAIN rows : rows[i] \in TextRow
  BY LenProperties
<1> HIDE DEF n, k
<1>2. IsFiniteSet(1..n) /\ IsFiniteSet(1..k)
  BY <1>1, FS_Interval
<1>3. sent \in SUBSET (1..k) /\ filled \in SUBSET (1..k) /\ Added(rows) \in SUBSET (1..k)
  BY <1>1 DEF Added, Places
<1>4. sent = Added(rows) \cup filled /\ Added(rows) \cap filled = {}
  BY <1>1 DEF Added, Places
<1>5. own = M \cup S /\ M \cap S = {} /\ S \in SUBSET (1..n) /\ M \in SUBSET (1..n)
  BY <1>1
<1>6. f \in Injection(S, filled)
  <2>1. ASSUME NEW rid \in S
        PROVE  f[rid] \in DOMAIN rows /\ rows[f[rid]].txt = rid /\ rid \in 1..n
               /\ rec[rid].sendid = Me
    BY <1>1
  <2>2. ASSUME NEW rid \in S PROVE f[rid] \in filled
    <3>1. rid # 0 /\ RowFiled(rows[f[rid]], conv, rec)
      BY <2>1, <1>1
    <3>2. rows[f[rid]].sentByMe
      BY <2>1, <3>1 DEF RowFiled
    <3> HIDE DEF f
    <3> QED BY <2>1, <3>1, <3>2
  <2> HIDE DEF filled, S
  <2>3. f \in [S -> filled]
    BY <2>2
  <2> HIDE DEF f
  <2>4. \A rid, other \in S : f[rid] = f[other] => rid = other
    BY <2>1
  <2> QED BY <2>3, <2>4, Fun_IsInj
<1> HIDE DEF f
<1>7. /\ IsFiniteSet(M) /\ IsFiniteSet(S) /\ IsFiniteSet(filled) /\ IsFiniteSet(Added(rows))
  BY <1>2, <1>3, <1>5, FS_Subset
<1> HIDE DEF sent, filled, S
<1>8. Cardinality(S) <= Cardinality(filled)
  BY <1>6, <1>7, FS_Injection
<1>9. /\ Cardinality(M) \in Nat /\ Cardinality(S) \in Nat
      /\ Cardinality(filled) \in Nat /\ Cardinality(Added(rows)) \in Nat
  BY <1>7, FS_CardinalityType
<1>10. Cardinality(own) = Cardinality(M) + Cardinality(S)
  <2>1. Cardinality(M \cup S) = Cardinality(M) + Cardinality(S) - Cardinality(M \cap S)
    BY <1>7, FS_Union
  <2>2. Cardinality(M \cap S) = 0
    BY <1>5, FS_EmptySet, Zenon
  <2>3. Cardinality(M \cup S) = Cardinality(M) + Cardinality(S)
    BY <1>9, <2>1, <2>2
  <2> QED BY <1>5, <2>3, Zenon
<1>11. Cardinality(sent) = Cardinality(Added(rows)) + Cardinality(filled)
  <2> DEFINE A == Added(rows)
  <2>1. IsFiniteSet(A) /\ Cardinality(A) \in Nat /\ A \cap filled = {} /\ sent = A \cup filled
    BY <1>4, <1>7, <1>9
  <2> HIDE DEF A
  <2>2. Cardinality(A \cup filled) = Cardinality(A) + Cardinality(filled) - Cardinality(A \cap filled)
    BY <1>7, <2>1, FS_Union
  <2>3. Cardinality(A \cap filled) = 0
    BY <2>1, FS_EmptySet, Zenon
  <2>4. Cardinality(A \cup filled) = Cardinality(A) + Cardinality(filled)
    BY <1>9, <2>1, <2>2, <2>3
  <2>5. Cardinality(sent) = Cardinality(A) + Cardinality(filled)
    BY <2>1, <2>4, Zenon
  <2> QED BY <2>5 DEF A
<1>12. Cardinality(own) <= Cardinality(sent)
  BY <1>8, <1>9, <1>10, <1>11
<1> QED BY <1>12 DEF sent

(* When nothing is under way, what is not shown is of Me.                  *)
LEMMA AllShown ==
    ASSUME NEW c \in ClientType, NEW rec \in Seq(RecordRow), Owed(c, << >>, rec),
           Filed(c, rec), AllKnown(c), c.up = << >>,
           \A rid \in DOMAIN rec : rec[rid].sendid # rec[rid].recvid
    PROVE  /\ \A rid \in DOMAIN rec :
                 ReadBy(rec[rid], Me) => Shows(c, ConversationOf(rec[rid]), rid)
           /\ \A conv \in Conversations :
                 Cardinality({rid \in DOMAIN rec :
                                rec[rid].sendid = Me /\ rec[rid].recvid = conv})
                   <= Cardinality({i \in DOMAIN c.records[conv] : c.records[conv][i].sentByMe})
<1>1. ASSUME NEW conv \in Partners, NEW rid, Coming(c, << >>, conv, rid)
      PROVE  Shows(c, conv, rid)
  <2>1. ~Asks(c, conv) /\ ~Queued(<< >>, rid) /\ ~Admits(<< >>)
    BY DEF Asks, Queued, Admits
  <2>2. conv # ALL => Known(c, conv)
    BY DEF Partners, AllKnown
  <2> QED BY <1>1, <2>1, <2>2 DEF Coming
<1>2. \A rid \in DOMAIN rec : rec[rid] \in RecordRow
  OBVIOUS
<1>3. ASSUME NEW rid \in DOMAIN rec, ReadBy(rec[rid], Me)
      PROVE  Shows(c, ConversationOf(rec[rid]), rid)
  <2> DEFINE row == rec[rid]
             conv == ConversationOf(row)
  <2>1. row \in RecordRow /\ row.sendid # row.recvid /\ ReadBy(row, Me)
    BY <1>2, <1>3
  <2> HIDE DEF row
  <2>2. row.sendid # Me /\ conv \in Partners
    BY <2>1, NamesAssumption, MeAssumption
       DEF ReadBy, ConversationOf, RecordRow, Partners, Others
  <2> HIDE DEF conv
  <2>3. rid \notin Missing(c, << >>, rec, conv)
    BY <2>2 DEF Owed, OwedIn, row
  <2>4. Coming(c, << >>, conv, rid)
    BY <2>1, <2>3 DEF Missing, Mine, row, conv
  <2>5. Shows(c, conv, rid)
    BY <1>1, <2>2, <2>4
  <2> QED BY <2>5 DEF conv, row
<1>4. ASSUME NEW conv \in Conversations
      PROVE  Cardinality({rid \in DOMAIN rec :
                            rec[rid].sendid = Me /\ rec[rid].recvid = conv})
               <= Cardinality({i \in DOMAIN c.records[conv] : c.records[conv][i].sentByMe})
  <2> DEFINE own == {rid \in DOMAIN rec : rec[rid].sendid = Me /\ rec[rid].recvid = conv}
             rows == c.records[conv]
             M == Missing(c, << >>, rec, conv)
  <2>1. rows \in Seq(TextRow) /\ \A i \in DOMAIN rows : RowFiled(rows[i], conv, rec)
    BY DEF ClientType, Filed
  <2>2. CASE conv = Me
    <3>1. own = {}
      BY <2>2
    <3> DEFINE sent == {i \in DOMAIN rows : rows[i].sentByMe}
    <3>2. Cardinality(own) = 0
      BY <3>1, FS_EmptySet, Zenon
    <3>3. Cardinality(sent) \in Nat
      <4>1. DOMAIN rows = 1..Len(rows) /\ Len(rows) \in Nat
        BY <2>1, LenProperties
      <4>2. sent \in SUBSET (1..Len(rows))
        BY <4>1
      <4> QED BY <4>1, <4>2, RankType
    <3> HIDE DEF own, sent
    <3>4. Cardinality(own) <= Cardinality(sent)
      BY <3>2, <3>3
    <3> QED BY <3>4 DEF own, sent
  <2>3. CASE conv \in Partners
    <3>1. OwedIn(c, << >>, rec, conv)
      BY <2>3 DEF Owed
    <3>2. M \in SUBSET own
      BY <3>1 DEF OwedIn, Missing, ConversationOf
    <3>3. \A rid \in own \ M : Shows(c, conv, rid)
      <4> SUFFICES ASSUME NEW rid \in own, rid \notin M PROVE Shows(c, conv, rid)
        OBVIOUS
      <4>1. Mine(rec[rid]) /\ ConversationOf(rec[rid]) = conv
        BY DEF Mine, ConversationOf
      <4>2. Coming(c, << >>, conv, rid)
        BY <4>1 DEF Missing
      <4> QED BY <1>1, <2>3, <4>2
    <3>4. Cardinality(M) <= Cardinality(Added(rows))
      <4>1. /\ Cardinality(M) \in Nat /\ Cardinality(TextsTo(c.up, conv)) \in Nat
            /\ Cardinality(Added(rows)) \in Nat
        BY <2>3, OwedTypes
      <4> QED BY <3>1, <4>1 DEF OwedIn
    <3> HIDE DEF M, rows
    <3>5. \A rid \in own \ M : \E i \in DOMAIN rows : rows[i].txt = rid
      BY <3>3 DEF Shows, rows
    <3>6. own \in SUBSET (DOMAIN rec) /\ \A rid \in own : rec[rid].sendid = Me
      OBVIOUS
    <3> HIDE DEF own
    <3>7. Cardinality(own) <= Cardinality({i \in DOMAIN rows : rows[i].sentByMe})
      BY <2>1, <3>2, <3>4, <3>5, <3>6, OwnShown
    <3> QED BY <3>7 DEF own, rows
  <2>4. conv = Me \/ conv \in Partners
    BY DEF Conversations, Partners, Others
  <2> QED BY <2>2, <2>3, <2>4
<1> QED BY <1>3, <1>4


-----------------------------------------------------------------------------
(* The client and its server together.                                     *)

LEMMA InitCInv == ClientInit => Init /\ CInv
<1> SUFFICES ASSUME ClientInit PROVE CInv
  BY DEF ClientInit
<1>1. /\ sock = None /\ tc = NewClient /\ page = "busy" /\ uid = None
  BY DEF ClientInit
<1>2. tc \in ClientType
  <2>1. /\ << >> \in Seq(Partners) /\ << >> \in Seq(Frame) /\ << >> \in Seq(ContactRow)
        /\ << >> \in Seq(TextRow) /\ ALL \in Partners
    BY DEF Partners
  <2>2. [u \in Users |-> None] \in [Users -> Entry \cup {None}]
    OBVIOUS
  <2>3. [c \in Conversations |-> << >>] \in [Conversations -> Seq(TextRow)]
    BY <2>1
  <2> QED BY <1>1, <2>1, <2>2, <2>3 DEF ClientType, NewClient
<1>3. /\ tc.contacts = << >> /\ tc.up = << >>
      /\ \A u \in Users : tc.map_contacts[u] = None
      /\ \A c \in Conversations : tc.records[c] = << >>
  BY <1>1 DEF NewClient
<1>4. RowsInOrder(tc.contacts) /\ \A u : ~Listed(tc.contacts, u)
  BY <1>2, <1>3 DEF RowsInOrder, Listed, ClientType
<1>5. Kept(tc, record)
  BY <1>2, <1>3, <1>4 DEF Kept, NamesRight, Known, Filed
<1>6. Shown
  BY <1>1, NamesAssumption, AllIsNoOther DEF Shown
<1> QED BY <1>1, <1>3, <1>5, <1>6 DEF CInv

LEMMA NextCInv ==
    IInv /\ QInv /\ CInv /\ [ClientNext]_<<vars, process>> => [Next]_vars /\ CInv'
<1> SUFFICES ASSUME IInv, QInv, CInv, [ClientNext]_<<vars, process>>
             PROVE  [Next]_vars /\ CInv'
  OBVIOUS
<1>1. CASE UNCHANGED <<vars, process>>
  <2>1. /\ sock' = sock /\ tc' = tc /\ page' = page /\ uid' = uid /\ UNCHANGED vars
        /\ phase' = phase /\ owner' = owner /\ out' = out /\ record' = record
    BY <1>1 DEF vars, memory, tables, client, process, ui
  <2>2. Shown' <=> Shown
    BY <2>1 DEF Shown
  <2>3. Joined' <=> Joined
    BY <2>1 DEF Joined
  <2> QED BY <2>1, <2>2, <2>3 DEF CInv
<1>2. ASSUME NEW f \in Fd, Connect2Host(f) PROVE Next /\ CInv'
  BY <1>2, Connect2HostStep
<1>3. ASSUME NEW f \in Fd, Elsewhere(f) PROVE Next /\ CInv'
  BY <1>3, ElsewhereStep
<1>4. CASE Login
  BY <1>4, LoginStep
<1>5. CASE RequestHandled
  BY <1>5, RequestHandledStep
<1>6. CASE Receive
  BY <1>6, ReceiveStep
<1>7. CASE Lost
  BY <1>7, LostStep
<1>8. CASE Daemon
  BY <1>8, DaemonStep
<1>9. ASSUME NEW id \in Conversations, SetUid(id) PROVE UNCHANGED vars /\ CInv'
  BY <1>9, SetUidStep DEF SetUid
<1>10. CASE SendMessage
  BY <1>10, SendMessageStep DEF SendMessage
<1>11. ASSUME NEW old \in Pwd, NEW new \in Pwd, ChangePassword(old, new)
       PROVE  UNCHANGED vars /\ CInv'
  BY <1>11, ChangePasswordStep DEF ChangePassword
<1> QED
  BY <1>1, <1>2, <1>3, <1>4, <1>5, <1>6, <1>7, <1>8, <1>9, <1>10, <1>11 DEF ClientNext

LEMMA InitOInv == ClientInit => OInv
<1> SUFFICES ASSUME ClientInit PROVE OInv
  OBVIOUS
<1>1. record = << >> /\ sock = None
  BY DEF ClientInit, Init
<1>2. Len(record) = 0 /\ DOMAIN record = {} /\ MaxRecords \in Nat
  BY <1>1, ConnectionsAssumption
<1> QED BY <1>1, <1>2 DEF OInv, Fits

LEMMA NextOInv ==
    ASSUME ~DbFaults, MaxRecords <= RecordCnt
    PROVE  IInv /\ QInv /\ CInv /\ OInv /\ [ClientNext]_<<vars, process>> => OInv'
<1> SUFFICES ASSUME IInv, QInv, CInv, OInv, [ClientNext]_<<vars, process>>
             PROVE  OInv'
  OBVIOUS
<1>1. [Next]_vars
  BY NextCInv
<1>2. Fits' /\ Fits
  BY <1>1, FitsStep DEF OInv
<1> SUFFICES ASSUME sock' # None PROVE Owing'
  BY <1>2 DEF OInv
<1>3. sock # None => Owing
  BY DEF OInv
<1>4. CASE UNCHANGED <<vars, process>>
  <2>1. /\ sock' = sock /\ tc' = tc /\ phase' = phase /\ owner' = owner /\ out' = out
        /\ record' = record /\ fd_to_uid' = fd_to_uid
    BY <1>4 DEF vars, memory, tables, client, process
  <2>2. Owing
    BY <1>3, <2>1
  <2> QED BY <2>1, <2>2 DEF Owing
<1>5. ASSUME NEW f \in Fd, Connect2Host(f) PROVE Owing'
  BY <1>5, Connect2HostOwing
<1>6. ASSUME NEW f \in Fd, Elsewhere(f) PROVE Owing'
  <2>1. IF Dropped THEN Disconnected ELSE UNCHANGED process
    BY <1>6 DEF Elsewhere
  <2> QED BY <1>3, <1>6, <2>1, ElsewhereAside, AsideOwing
<1>7. CASE Login
  <2>1. Owing
    BY <1>3, <1>7 DEF Login
  <2> QED BY <1>7, <2>1, LoginOwing
<1>8. CASE RequestHandled
  <2>1. Owing
    BY <1>3, <1>8 DEF RequestHandled
  <2> QED BY <1>2, <1>8, <2>1, RequestOwing
<1>9. CASE Receive
  <2>1. Owing
    BY <1>3, <1>9 DEF Receive
  <2> QED BY <1>9, <2>1, ReceiveOwing
<1>10. CASE Lost
  BY <1>10 DEF Lost, Disconnected
<1>11. CASE Daemon
  <2>1. IF Dropped THEN Disconnected ELSE UNCHANGED process
    BY <1>11 DEF Daemon
  <2> QED BY <1>3, <1>11, <2>1, DaemonAside, AsideOwing
<1>12. CASE \/ \E id \in Conversations : SetUid(id)
            \/ SendMessage
            \/ \E old, new \in Pwd : ChangePassword(old, new)
  <2>1. page # "busy" /\ sock' = sock
    BY <1>12 DEF SetUid, SendMessage, ChangePassword
  <2>2. Owing
    BY <1>3, <2>1
  <2> QED BY <1>12, <2>1, <2>2, PagesOwing
<1> QED BY <1>4, <1>5, <1>6, <1>7, <1>8, <1>9, <1>10, <1>11, <1>12 DEF ClientNext

(* The client, its user and the server take no step that the server and    *)
(* its free clients would not: TcpClient is one of the clients that        *)
(* Connections.cpp is written for, and all that is proved of the server    *)
(* holds of it with this client.                                           *)
THEOREM ClientIsAClient == ClientSpec => Spec
<1>1. ClientInit => Init /\ IInv /\ QInv /\ CInv
  BY InitCInv, InitIInv, InitQInv
<1>2. IInv /\ QInv /\ CInv /\ [ClientNext]_<<vars, process>>
         => [Next]_vars /\ IInv' /\ QInv' /\ CInv'
  BY NextCInv, NextIInv, NextQInv
<1> QED BY <1>1, <1>2, PTL DEF Spec, ClientSpec

LEMMA SpecCInv == ClientSpec => []CInv
<1>1. ClientInit => IInv /\ QInv /\ CInv
  BY InitCInv, InitIInv, InitQInv
<1>2. IInv /\ QInv /\ CInv /\ [ClientNext]_<<vars, process>> => IInv' /\ QInv' /\ CInv'
  BY NextCInv, NextIInv, NextQInv
<1> QED BY <1>1, <1>2, PTL DEF ClientSpec

LEMMA SpecOInv ==
    ASSUME ~DbFaults, MaxRecords <= RecordCnt
    PROVE  ClientSpec => [](IInv /\ CInv /\ OInv)
<1>1. ClientInit => IInv /\ QInv /\ CInv /\ OInv
  BY InitCInv, InitIInv, InitQInv, InitOInv
<1>2. IInv /\ QInv /\ CInv /\ OInv /\ [ClientNext]_<<vars, process>>
         => IInv' /\ QInv' /\ CInv' /\ OInv'
  BY NextCInv, NextIInv, NextQInv, NextOInv
<1> QED BY <1>1, <1>2, PTL DEF ClientSpec

(* TcpClient::m_queue_uid: an answer 0x91 or 0x92 carries no uid and is    *)
(* matched to its request by the order alone; however requests, answers,   *)
(* notices and reconnections interleave, it is about the uid at the head.  *)
THEOREM AnswersAreMatched == ClientSpec => []AnswersMatch
<1>1. CInv => AnswersMatch
  BY WiredAnswers DEF CInv, Joined, Linked, Sound
<1> QED BY <1>1, SpecCInv, PTL

(* parseReceiveMessageInfos and parseGetChatHistory: each text is filed in *)
(* the conversation it was saved for, on its author's side and under no    *)
(* other name, also over reconnections.                                    *)
THEOREM TextsAreFiled == ClientSpec => []FiledRight
<1>1. CInv => FiledRight
  BY DEF CInv, Kept, Filed, RowFiled, FiledRight
<1> QED BY <1>1, SpecCInv, PTL

(* setUid and sendMessage: what is written on a contact's page goes to     *)
(* that contact, though getUserName and getChatHistory move m_to_uid.      *)
THEOREM PrivateTexts == ClientSpec => []PrivateStaysPrivate
<1>1. CInv => PrivateStaysPrivate
  BY DEF CInv, Shown, PrivateStaysPrivate
<1> QED BY <1>1, SpecCInv, PTL

(* fetchUserStates, parseGetUserName and ContactsModel: nobody is listed   *)
(* twice or under another's name, and when nothing is under way everybody  *)
(* is listed.                                                              *)
THEOREM ContactsAreListedOnce == ClientSpec => []ContactsOnce
<1>1. ASSUME CInv, Quiet PROVE {tc.contacts[i].uid : i \in DOMAIN tc.contacts} = Conversations \ {Me}
  <2> DEFINE rows == tc.contacts
  <2>1. sock \in Fd /\ Joined /\ page = "main" /\ out.que[sock] = << >> /\ tc.up = << >>
    BY <1>1 DEF CInv, Quiet
  <2>2. Sound(tc, << >>, record) /\ Awaited(tc, << >>)
    BY <2>1 DEF Joined, Linked
  <2>3. \A u \in Others : Known(tc, u)
    BY <2>2 DEF Awaited
  <2>4. ASSUME NEW u \in Others PROVE Listed(rows, u)
    <3>1. NamesIn(tc.m_queue_uid, << >>, u) = {} /\ NamesAsked(<< >>, u) = {}
      BY DEF NamesIn, AnswersIn, NamesAsked, Places
    <3>2. OneName(Known(tc, u), Listed(rows, u), NamesIn(tc.m_queue_uid, << >>, u),
                  NamesAsked(tc.up, u))
      BY <2>2 DEF Sound, Accounted
    <3>3. Known(tc, u)
      BY <2>3
    <3> HIDE DEF rows
    <3> QED BY <2>1, <3>1, <3>2, <3>3 DEF OneName
  <2>5. /\ rows \in Seq(ContactRow) /\ rows # << >>
        /\ \A i \in DOMAIN rows : rows[i].uid = ALL <=> i = 1
    BY <2>2 DEF Sound, Kept, RowsInOrder
  <2> HIDE DEF rows
  <2>6. 1 \in DOMAIN rows /\ \A i \in DOMAIN rows : rows[i] \in ContactRow
    BY <2>5
  <2>7. \A i \in DOMAIN rows : rows[i].uid \in Partners
    BY <2>6 DEF ContactRow
  <2>8. ASSUME NEW u \in Partners PROVE \E i \in DOMAIN rows : rows[i].uid = u
    BY <2>4, <2>5, <2>6 DEF Partners, Listed
  <2>9. Conversations \ {Me} = Partners
    BY NamesAssumption, MeAssumption DEF Conversations, Partners, Others
  <2> QED BY <2>7, <2>8, <2>9 DEF rows
<1>2. CInv => ContactsOnce
  BY <1>1 DEF ContactsOnce, CInv, Kept, RowsInOrder
<1> QED BY <1>2, SpecCInv, PTL

(* push_textmsg, serh_message and getChatHistory: no text falls between    *)
(* the history a client asks for and the texts forwarded to it, whatever   *)
(* is saved while it logs in, loses its session or asks, as long as the    *)
(* queries do not fail and a history holds what the table does.            *)
THEOREM NothingIsMissed ==
    ASSUME ~DbFaults, RecordCnt >= MaxRecords
    PROVE  ClientSpec => []NothingMissed
<1>1. MaxRecords <= RecordCnt
  BY ConnectionsAssumption
<1>2. ASSUME IInv, CInv, OInv, Quiet
      PROVE  /\ \A rid \in DOMAIN record :
                   ReadBy(record[rid], Me) => Shows(tc, ConversationOf(record[rid]), rid)
             /\ \A conv \in Conversations :
                   Cardinality({rid \in DOMAIN record :
                                  record[rid].sendid = Me /\ record[rid].recvid = conv})
                     <= Cardinality({i \in DOMAIN tc.records[conv] :
                                       tc.records[conv][i].sentByMe})
  <2>1. /\ sock \in Fd /\ sock # None /\ Joined /\ page = "main" /\ out.que[sock] = << >>
        /\ tc.up = << >> /\ tc \in ClientType /\ Filed(tc, record) /\ Fits /\ Owing
    BY <1>2 DEF CInv, Quiet, OInv, Kept
  <2>2. owner[sock] = Me /\ Awaited(tc, << >>)
    BY <2>1 DEF Joined, Linked
  <2>3. AllKnown(tc)
    BY <2>2 DEF Awaited, AllKnown
  <2>4. ~Ends(<< >>)
    BY DEF Ends
  <2>5. fd_to_uid[sock] = Me
    BY <1>2, <2>1, <2>2, <2>4, OwnSession DEF Owing
  <2>6. Owed(tc, << >>, record) /\ record \in Seq(RecordRow)
    BY <1>2, <2>1, <2>5 DEF Owing, IInv, TypeOK
  <2> QED BY <2>1, <2>3, <2>6, AllShown DEF Fits
<1>3. IInv /\ CInv /\ OInv => NothingMissed
  BY <1>2 DEF NothingMissed, Shows
<1> QED BY <1>1, <1>3, SpecOInv, PTL
=============================================================================
