------------------------- MODULE FileTransferProofs -------------------------
(***************************************************************************)
(* Files from end to end, for any number of senders and clients, parts and *)
(* files of any size below the width of the counts.                        *)
(***************************************************************************)
EXTENDS FileTransfer, SequenceTheorems, TLAPS

-----------------------------------------------------------------------------
(* The frames there are: those of the files sent so far.                   *)
PartSize(siz, nth) == IF nth * PartMax <= siz THEN PartMax ELSE siz % PartMax

Frame(szs) ==
    {Shutdown}
    \cup {Offer(id, szs[id]) : id \in 1..Len(szs)}
    \cup {Text(id) : id \in 1..Len(szs)}
    \cup UNION {{Part(id, nth, PartSize(szs[id], nth)) : nth \in 1..PartCount(szs[id])} :
                   id \in 1..Len(szs)}

Types ==
    /\ sizes \in Seq(Sizes) /\ Len(sizes) <= MaxFiles
    /\ up \in [Senders -> Seq(Frame(sizes))]
    /\ session \in Clients \cup {None}
    /\ down \in [Clients -> Seq(Frame(sizes))]
    /\ file \in [Clients -> [open : BOOLEAN, name : Ids \cup {None},
                             cnt : Nat, size : 0..(Width - 1)]]
    /\ disk \in [Clients -> [Ids -> Seq(Frame(sizes))]]
    /\ failed \in [Clients -> SUBSET {"written", "counted"}]
    /\ log \in [Clients -> Seq(Frame(sizes))]

-----------------------------------------------------------------------------
(* A file is offered once, and its offer is in one place.                  *)
Offers(q)   == {id \in Ids : \E i \in DOMAIN q : q[i].type = \hA7 /\ q[i].id = id}
Distinct(q) ==
    \A i, j \in DOMAIN q :
        q[i].type = \hA7 /\ q[j].type = \hA7 /\ q[i].id = q[j].id => i = j

OfferedOnce ==
    /\ \A s \in Senders : Distinct(up[s])
    /\ \A c \in Clients : Distinct(down[c])
    /\ \A s, t \in Senders : s # t => Offers(up[s]) \cap Offers(up[t]) = {}
    /\ \A s \in Senders, c \in Clients :
          Offers(up[s]) \cap (Offers(down[c]) \cup Offers(log[c])) = {}
    /\ \A c \in Clients : Offers(down[c]) \cap Offers(log[c]) = {}

-----------------------------------------------------------------------------
(* The bytes of the first parts of a file.                                 *)
Upto(siz, nth) == IF nth * PartMax <= siz THEN nth * PartMax ELSE siz

(* The frames of q up to place n end with the first k of frames.           *)
Ends(q, n, frames, k) == k <= n /\ \A i \in 1..k : q[(n - k) + i] = frames[i]

(* The last j frames that came to a client are the first j of a file.      *)
Came(c, id, j) == Ends(log[c], Len(log[c]), FramesOf(id), j)

(* What its m_file is then, and what is on its disk.                       *)
Written(c, id, j) ==
    /\ file[c].name = id /\ file[c].size = sizes[id]
    /\ file[c].cnt = Upto(sizes[id], j - 1)
    /\ file[c].open <=> file[c].cnt < sizes[id] \/ j = 1
    /\ Len(disk[c][id]) = j - 1
    /\ \A i \in 1..(j - 1) : disk[c][id][i] = Parts(id, sizes[id])[i]

Landing ==
    \A c \in Clients : \A id \in 1..Len(sizes) : \A j \in 1..(PartCount(sizes[id]) + 1) :
        Came(c, id, j) => Written(c, id, j)

(* Where every part followed the one before it, all that precede it came.  *)
Mixed(c) == \E n \in DOMAIN log[c] : log[c][n].type = \hA9 /\ ~Follows(c, n)

InStep(c) ==
    log[c] # << >> =>
        \A id \in 1..Len(sizes) : \A nth \in 1..PartCount(sizes[id]) :
            log[c][Len(log[c])] = Part(id, nth, PartSize(sizes[id], nth)) =>
                Came(c, id, nth + 1)

Orderly == \A c \in Clients : ~Mixed(c) => InStep(c) /\ failed[c] = {}

(* WholeWhenNamed, by the places of the frames before the text.            *)
Kept ==
    \A c \in Clients : \A id \in 1..Len(sizes) : \A n \in DOMAIN log[c] :
        /\ log[c][n] = Text(id) /\ sizes[id] > 0
        /\ Ends(log[c], n - 1, FramesOf(id), PartCount(sizes[id]) + 1)
        => /\ disk[c][id] = Parts(id, sizes[id])
           /\ file[c].name = id => ~file[c].open

-----------------------------------------------------------------------------
(* The inductive invariant.                                                *)
FInv == Types /\ OfferedOnce /\ Orderly /\ Landing /\ Kept

-----------------------------------------------------------------------------
(* The parts of a file.                                                    *)

LEMMA Constants ==
    /\ PartMax \in Nat /\ PartMax >= 1 /\ Width \in Nat /\ Width >= 1 /\ MaxFiles \in Nat
    /\ \A siz \in Sizes : siz \in Nat /\ siz < Width
BY FileTransferAssumption

LEMMA DivMod ==
    ASSUME NEW a \in Nat, NEW b \in Nat \ {0}
    PROVE  a \div b \in Nat /\ b * (a \div b) <= a /\ a < b * (a \div b) + b
OBVIOUS

LEMMA ModIs ==
    ASSUME NEW b \in Nat \ {0}, NEW k \in Nat, NEW r \in 0..(b - 1)
    PROVE  (k * b + r) % b = r
OBVIOUS

(* Part nth begins where nth - 1 whole parts end; the last one holds what  *)
(* is left.                                                                *)
LEMMA PartArithmetic ==
    ASSUME NEW siz \in Nat
    PROVE  /\ PartCount(siz) \in Nat /\ siz <= PartCount(siz) * PartMax
           /\ siz > 0 => PartCount(siz) >= 1
           /\ \A nth \in 1..PartCount(siz) :
                 /\ (nth - 1) * PartMax < siz /\ (nth - 1) * PartMax \in Nat
                 /\ nth * PartMax \in Nat
                 /\ PartSize(siz, nth) \in Nat /\ PartSize(siz, nth) >= 1
                 /\ (nth - 1) * PartMax + PartSize(siz, nth) = Upto(siz, nth)
<1> DEFINE d == PartCount(siz)
           P == PartMax
<1>1. P \in Nat \ {0} /\ siz + P - 1 \in Nat
  BY Constants
<1>2. d \in Nat /\ P * d <= siz + P - 1 /\ siz + P - 1 < P * d + P
  BY <1>1, DivMod DEF PartCount
<1> HIDE DEF d, P
<1>3. siz <= d * P
  <2>1. d * P \in Nat /\ d * P = P * d
    BY <1>1, <1>2
  <2> QED BY <1>1, <1>2, <2>1
<1>4. siz > 0 => d >= 1
  <2>1. d = 0 => d * P = 0
    BY <1>1
  <2> QED BY <1>2, <1>3, <2>1
<1>5. ASSUME NEW nth \in 1..d
      PROVE  /\ (nth - 1) * P < siz /\ (nth - 1) * P \in Nat /\ nth * P \in Nat
             /\ PartSize(siz, nth) \in Nat /\ PartSize(siz, nth) >= 1
             /\ (nth - 1) * P + PartSize(siz, nth) = Upto(siz, nth)
  <2>1. nth * P <= d * P /\ nth * P \in Nat /\ d * P \in Nat /\ d * P = P * d
    BY <1>1, <1>2
  <2>2. (nth - 1) * P = nth * P - P /\ (nth - 1) * P \in Nat /\ nth - 1 \in Nat
    BY <1>1, <1>2
  <2>3. (nth - 1) * P < siz
    BY <1>1, <1>2, <2>1, <2>2
  <2>4. CASE nth * P <= siz
    BY <1>1, <2>1, <2>2, <2>3, <2>4 DEF PartSize, Upto, P
  <2>5. CASE nth * P > siz
    <3> DEFINE r == siz - (nth - 1) * P
    <3>1. r \in 0..(P - 1) /\ siz = (nth - 1) * P + r /\ r >= 1
      BY <1>1, <2>1, <2>2, <2>3, <2>5
    <3> HIDE DEF r
    <3>2. ((nth - 1) * P + r) % P = r
      BY <1>1, <2>2, <3>1, ModIs
    <3>3. siz % P = r
      BY <3>1, <3>2
    <3>4. PartSize(siz, nth) = r /\ Upto(siz, nth) = siz
      BY <2>1, <2>5, <3>3 DEF PartSize, Upto, P
    <3> QED BY <2>1, <2>2, <2>3, <3>1, <3>4
  <2> QED BY <2>1, <2>4, <2>5
<1> QED BY <1>2, <1>3, <1>4, <1>5 DEF d, P

-----------------------------------------------------------------------------
(* The frames.                                                             *)
LEMMA Fields ==
    ASSUME NEW id, NEW nth, NEW siz
    PROVE  /\ Offer(id, siz).type = \hA7 /\ Offer(id, siz).id = id /\ Offer(id, siz).siz = siz
           /\ Part(id, nth, siz).type = \hA9 /\ Part(id, nth, siz).id = id
           /\ Part(id, nth, siz).nth = nth /\ Part(id, nth, siz).siz = siz
           /\ Text(id).type = \hA3 /\ Text(id).id = id
           /\ Shutdown.type = \hA0
BY DEF Offer, Part, Text, Shutdown

LEMMA Kinds ==
    ASSUME NEW szs, NEW m \in Frame(szs)
    PROVE  /\ m.type \in {\hA0, \hA3, \hA7, \hA9}
           /\ m.type # \hA0 => m.id \in 1..Len(szs)
           /\ m.type = \hA0 => m = Shutdown
           /\ m.type = \hA3 => m = Text(m.id)
           /\ m.type = \hA7 => m = Offer(m.id, szs[m.id]) /\ m.siz = szs[m.id]
           /\ m.type = \hA9 => /\ m.nth \in 1..PartCount(szs[m.id])
                               /\ m = Part(m.id, m.nth, m.siz)
                               /\ m.siz = PartSize(szs[m.id], m.nth)
<1>1. CASE m = Shutdown
  BY <1>1, Fields
<1>2. ASSUME NEW id \in 1..Len(szs), m = Offer(id, szs[id])
      PROVE  m.type = \hA7 /\ m.id = id /\ m.siz = szs[id]
  BY <1>2, Fields
<1>3. ASSUME NEW id \in 1..Len(szs), m = Text(id)
      PROVE  m.type = \hA3 /\ m.id = id
  BY <1>3, Fields
<1>4. ASSUME NEW id \in 1..Len(szs), NEW nth \in 1..PartCount(szs[id]),
             m = Part(id, nth, PartSize(szs[id], nth))
      PROVE  m.type = \hA9 /\ m.id = id /\ m.nth = nth /\ m.siz = PartSize(szs[id], nth)
  BY <1>4, Fields
<1>5. \/ m = Shutdown
      \/ \E id \in 1..Len(szs) : m = Offer(id, szs[id])
      \/ \E id \in 1..Len(szs) : m = Text(id)
      \/ \E id \in 1..Len(szs) : \E nth \in 1..PartCount(szs[id]) :
            m = Part(id, nth, PartSize(szs[id], nth))
  BY DEF Frame
<1>6. CASE \E id \in 1..Len(szs) : m = Offer(id, szs[id])
  BY <1>2, <1>6
<1>7. CASE \E id \in 1..Len(szs) : m = Text(id)
  BY <1>3, <1>7
<1>8. CASE \E id \in 1..Len(szs) : \E nth \in 1..PartCount(szs[id]) :
              m = Part(id, nth, PartSize(szs[id], nth))
  <2>1. PICK id \in 1..Len(szs) : \E nth \in 1..PartCount(szs[id]) :
              m = Part(id, nth, PartSize(szs[id], nth))
    BY <1>8
  <2>2. PICK nth \in 1..PartCount(szs[id]) : m = Part(id, nth, PartSize(szs[id], nth))
    BY <2>1
  <2>3. m.type = \hA9 /\ m.id = id /\ m.nth = nth /\ m.siz = PartSize(szs[id], nth)
    BY <1>4, <2>2
  <2> QED BY <2>2, <2>3
<1> QED BY <1>1, <1>5, <1>6, <1>7, <1>8

LEMMA OfferIsFrame ==
    ASSUME NEW szs, NEW id \in 1..Len(szs)
    PROVE  /\ Offer(id, szs[id]) \in Frame(szs) /\ Text(id) \in Frame(szs)
           /\ \A nth \in 1..PartCount(szs[id]) :
                 Part(id, nth, PartSize(szs[id], nth)) \in Frame(szs)
BY DEF Frame

LEMMA ShutdownIsFrame == \A szs : Shutdown \in Frame(szs)
BY DEF Frame

LEMMA FunctionIsSeq ==
    ASSUME NEW S, NEW n \in Nat, NEW s \in [1..n -> S]
    PROVE  s \in Seq(S) /\ Len(s) = n /\ DOMAIN s = 1..n
<1>1. s \in Seq(S)
  BY SeqDef
<1>2. Len(s) \in Nat /\ DOMAIN s = 1..Len(s) /\ DOMAIN s = 1..n
  BY <1>1, LenProperties
<1> QED BY <1>1, <1>2

(* The frames of a file, in their order.                                   *)
Frames(id, siz) == <<Offer(id, siz)>> \o Parts(id, siz)

LEMMA FramesAt ==
    ASSUME NEW id, NEW siz \in Nat
    PROVE  /\ Len(Parts(id, siz)) = PartCount(siz)
           /\ DOMAIN Parts(id, siz) = 1..PartCount(siz)
           /\ \A k \in 1..PartCount(siz) : Parts(id, siz)[k] = Part(id, k, PartSize(siz, k))
           /\ Len(Frames(id, siz)) = PartCount(siz) + 1
           /\ Frames(id, siz)[1] = Offer(id, siz)
           /\ \A k \in 1..PartCount(siz) :
                 Frames(id, siz)[k + 1] = Part(id, k, PartSize(siz, k))
           /\ \A S : Offer(id, siz) \in S
                     /\ (\A k \in 1..PartCount(siz) : Part(id, k, PartSize(siz, k)) \in S)
                     => Parts(id, siz) \in Seq(S) /\ Frames(id, siz) \in Seq(S)
<1> DEFINE d == PartCount(siz)
           parts == Parts(id, siz)
           one == <<Offer(id, siz)>>
<1>1. d \in Nat
  BY PartArithmetic
<1>2. parts = [k \in 1..d |-> Part(id, k, PartSize(siz, k))]
  BY DEF Parts, PartSize
<1> HIDE DEF parts, d
<1>3. ASSUME NEW S, Offer(id, siz) \in S, \A k \in 1..d : Part(id, k, PartSize(siz, k)) \in S
      PROVE  /\ parts \in Seq(S) /\ Len(parts) = d /\ DOMAIN parts = 1..d
             /\ Frames(id, siz) \in Seq(S) /\ Len(Frames(id, siz)) = d + 1
             /\ Frames(id, siz)[1] = Offer(id, siz)
             /\ \A k \in 1..d : Frames(id, siz)[k + 1] = parts[k]
  <2>1. parts \in [1..d -> S]
    BY <1>2, <1>3
  <2>2. parts \in Seq(S)
    BY <1>1, <2>1, FunctionIsSeq
  <2>3. Len(parts) = d /\ DOMAIN parts = 1..d
    BY <1>1, <2>1, FunctionIsSeq
  <2>4. one \in Seq(S) /\ Len(one) = 1 /\ one[1] = Offer(id, siz)
    BY <1>3
  <2> HIDE DEF one
  <2> DEFINE both == one \o parts
  <2>5. /\ both \in Seq(S) /\ Len(both) = 1 + d
        /\ \A i \in 1..(1 + d) : both[i] = IF i <= 1 THEN one[i] ELSE parts[i - 1]
    <3>1. /\ both \in Seq(S) /\ Len(both) = Len(one) + Len(parts)
          /\ \A i \in 1..(Len(one) + Len(parts)) :
                both[i] = IF i <= Len(one) THEN one[i] ELSE parts[i - Len(one)]
      BY <2>2, <2>4, ConcatProperties
    <3> HIDE DEF both
    <3> QED BY <2>3, <2>4, <3>1
  <2>6. Frames(id, siz) = both
    BY DEF Frames, one, parts
  <2> HIDE DEF both
  <2>7. ASSUME NEW k \in 1..d PROVE both[k + 1] = parts[k]
    <3>1. k + 1 \in 1..(1 + d) /\ ~(k + 1 <= 1) /\ (k + 1) - 1 = k
      BY <1>1
    <3> QED BY <2>5, <3>1
  <2>8. both[1] = Offer(id, siz)
    <3>1. 1 \in 1..(1 + d) /\ 1 <= 1
      BY <1>1
    <3> QED BY <2>4, <2>5, <3>1
  <2>9. 1 + d = d + 1
    BY <1>1
  <2> QED BY <2>2, <2>3, <2>5, <2>6, <2>7, <2>8, <2>9
<1> DEFINE S == {Offer(id, siz)} \cup {Part(id, k, PartSize(siz, k)) : k \in 1..d}
<1>4. /\ Len(parts) = d /\ DOMAIN parts = 1..d
      /\ Len(Frames(id, siz)) = d + 1 /\ Frames(id, siz)[1] = Offer(id, siz)
      /\ \A k \in 1..d : Frames(id, siz)[k + 1] = parts[k]
  <2>1. Offer(id, siz) \in S /\ \A k \in 1..d : Part(id, k, PartSize(siz, k)) \in S
    OBVIOUS
  <2> HIDE DEF S
  <2> QED BY <1>3, <2>1
<1>5. \A k \in 1..d : parts[k] = Part(id, k, PartSize(siz, k))
  BY <1>2
<1> QED BY <1>3, <1>4, <1>5 DEF parts, d

-----------------------------------------------------------------------------
(* Queues of frames.                                                       *)

LEMMA SeqGrows ==
    ASSUME NEW S, NEW T, S \subseteq T, NEW q \in Seq(S)
    PROVE  q \in Seq(T)
<1>1. Len(q) \in Nat /\ q \in [1..Len(q) -> S]
  BY LenProperties
<1>2. q \in [1..Len(q) -> T]
  BY <1>1
<1> QED BY <1>1, <1>2, SeqDef

LEMMA FrameGrows ==
    ASSUME NEW szs \in Seq(Sizes), NEW siz \in Sizes
    PROVE  /\ Append(szs, siz) \in Seq(Sizes) /\ Len(Append(szs, siz)) = Len(szs) + 1
           /\ \A id \in 1..Len(szs) : Append(szs, siz)[id] = szs[id]
           /\ Append(szs, siz)[Len(szs) + 1] = siz
           /\ Frame(szs) \subseteq Frame(Append(szs, siz))
<1> DEFINE more == Append(szs, siz)
<1>1. /\ Len(szs) \in Nat /\ more \in Seq(Sizes) /\ Len(more) = Len(szs) + 1
      /\ \A id \in 1..Len(szs) : more[id] = szs[id]
      /\ more[Len(szs) + 1] = siz
  BY AppendProperties, LenProperties
<1> HIDE DEF more
<1>2. ASSUME NEW m \in Frame(szs) PROVE m \in Frame(more)
  <2>1. \A id \in 1..Len(szs) : id \in 1..Len(more) /\ more[id] = szs[id]
    BY <1>1
  <2>2. CASE m.type = \hA0
    BY <2>2, Kinds, ShutdownIsFrame
  <2>3. CASE m.type = \hA3
    <3>1. m.id \in 1..Len(szs) /\ m = Text(m.id)
      BY <2>3, Kinds
    <3> QED BY <2>1, <3>1, OfferIsFrame
  <2>4. CASE m.type = \hA7
    <3>1. m.id \in 1..Len(szs) /\ m = Offer(m.id, szs[m.id])
      BY <2>4, Kinds
    <3> QED BY <2>1, <3>1, OfferIsFrame
  <2>5. CASE m.type = \hA9
    <3> DEFINE id == m.id
               nth == m.nth
    <3>1. /\ id \in 1..Len(szs) /\ nth \in 1..PartCount(szs[id])
          /\ m = Part(id, nth, PartSize(szs[id], nth))
      BY <2>5, Kinds
    <3> HIDE DEF id, nth
    <3>2. id \in 1..Len(more) /\ more[id] = szs[id]
      BY <2>1, <3>1
    <3>3. Part(id, nth, PartSize(more[id], nth)) \in Frame(more)
      BY <3>1, <3>2, OfferIsFrame
    <3> QED BY <3>1, <3>2, <3>3
  <2> QED BY <2>2, <2>3, <2>4, <2>5, Kinds
<1> QED BY <1>1, <1>2 DEF more

LEMMA QueueDomain ==
    ASSUME NEW S, NEW q \in Seq(S)
    PROVE  /\ DOMAIN q = 1..Len(q) /\ Len(q) \in Nat
           /\ \A i \in DOMAIN q : q[i] \in S
BY LenProperties, ElementOfSeq

(* The first frame of a queue is taken.                                    *)
LEMMA TailOffers ==
    ASSUME NEW S, NEW q \in Seq(S), q # << >>
    PROVE  /\ Tail(q) \in Seq(S) /\ Head(q) \in S /\ Head(q) = q[1]
           /\ Offers(Tail(q)) \subseteq Offers(q)
           /\ Distinct(q) => Distinct(Tail(q))
           /\ Head(q).type = \hA7 /\ Head(q).id \in Ids =>
                 /\ Head(q).id \in Offers(q)
                 /\ Distinct(q) => Head(q).id \notin Offers(Tail(q))
<1> DEFINE t == Tail(q)
           l == Len(q)
<1>1. /\ l \in Nat /\ l >= 1 /\ DOMAIN q = 1..l /\ Head(q) = q[1] /\ Head(q) \in S
      /\ t \in Seq(S) /\ Len(t) = l - 1 /\ DOMAIN t = 1..(l - 1)
      /\ \A i \in 1..(l - 1) : t[i] = q[i + 1]
  BY HeadTailProperties, LenProperties, EmptySeq
<1> HIDE DEF t, l
<1>2. ASSUME NEW i \in DOMAIN t
      PROVE  i + 1 \in DOMAIN q /\ t[i] = q[i + 1] /\ i + 1 # 1 /\ i \in Int
  BY <1>1
<1>3. Offers(t) \subseteq Offers(q)
  BY <1>2 DEF Offers
<1>4. ASSUME Distinct(q) PROVE Distinct(t)
  <2>1. ASSUME NEW i \in DOMAIN t, NEW j \in DOMAIN t,
               t[i].type = \hA7 /\ t[j].type = \hA7 /\ t[i].id = t[j].id
        PROVE  i = j
    <3>1. /\ i + 1 \in DOMAIN q /\ t[i] = q[i + 1] /\ i \in Int
          /\ j + 1 \in DOMAIN q /\ t[j] = q[j + 1] /\ j \in Int
      BY <1>2
    <3>2. i + 1 = j + 1
      BY <1>4, <2>1, <3>1 DEF Distinct
    <3> QED BY <3>1, <3>2
  <2> QED BY <2>1 DEF Distinct
<1>5. 1 \in DOMAIN q
  BY <1>1
<1>6. ASSUME Head(q).type = \hA7, Head(q).id \in Ids
      PROVE  /\ Head(q).id \in Offers(q)
             /\ Distinct(q) => Head(q).id \notin Offers(t)
  <2>1. Head(q).id \in Offers(q)
    BY <1>1, <1>5, <1>6 DEF Offers
  <2>2. ASSUME Distinct(q), Head(q).id \in Offers(t) PROVE FALSE
    <3>1. PICK i \in DOMAIN t : t[i].type = \hA7 /\ t[i].id = Head(q).id
      BY <2>2 DEF Offers
    <3>2. i + 1 \in DOMAIN q /\ t[i] = q[i + 1] /\ i + 1 # 1
      BY <1>2
    <3>3. /\ q[1].type = \hA7 /\ q[1].id \in Ids
          /\ q[i + 1].type = \hA7 /\ q[i + 1].id = q[1].id
      BY <1>1, <1>6, <3>1, <3>2
    <3> QED BY <1>5, <2>2, <3>2, <3>3 DEF Distinct
  <2> QED BY <2>1, <2>2
<1> QED BY <1>1, <1>3, <1>4, <1>6 DEF t

(* Frames are queued behind others.                                        *)
LEMMA ConcatOffers ==
    ASSUME NEW S, NEW q \in Seq(S), NEW r \in Seq(S)
    PROVE  /\ q \o r \in Seq(S)
           /\ Offers(q \o r) = Offers(q) \cup Offers(r)
           /\ Distinct(q) /\ Distinct(r) /\ Offers(q) \cap Offers(r) = {}
              /\ (\A m \in S : m.type = \hA7 => m.id \in Ids)
              => Distinct(q \o r)
<1> DEFINE both == q \o r
           l == Len(q)
           n == Len(r)
<1>1. /\ l \in Nat /\ n \in Nat /\ DOMAIN q = 1..l /\ DOMAIN r = 1..n
      /\ both \in Seq(S) /\ DOMAIN both = 1..(l + n)
      /\ \A i \in 1..(l + n) : both[i] = IF i <= l THEN q[i] ELSE r[i - l]
  BY ConcatProperties, LenProperties
<1>2. \A i \in DOMAIN q : q[i] \in S
  BY ElementOfSeq, <1>1
<1> HIDE DEF both, l, n
<1>3. ASSUME NEW i \in DOMAIN both
      PROVE  /\ i \in Int
             /\ (i \in DOMAIN q /\ both[i] = q[i]) \/ (i - l \in DOMAIN r /\ both[i] = r[i - l])
  BY <1>1
<1>4. \A i \in DOMAIN q : i \in DOMAIN both /\ both[i] = q[i]
  BY <1>1
<1>5. ASSUME NEW i \in DOMAIN r PROVE l + i \in DOMAIN both /\ both[l + i] = r[i]
  <2>1. l + i \in 1..(l + n) /\ ~(l + i <= l) /\ (l + i) - l = i
    BY <1>1
  <2> QED BY <1>1, <2>1
<1>6. Offers(both) = Offers(q) \cup Offers(r)
  <2>1. Offers(both) \subseteq Offers(q) \cup Offers(r)
    BY <1>3 DEF Offers
  <2>2. Offers(q) \subseteq Offers(both)
    BY <1>4 DEF Offers
  <2>3. Offers(r) \subseteq Offers(both)
    BY <1>5 DEF Offers
  <2> QED BY <2>1, <2>2, <2>3
<1>7. ASSUME Distinct(q), Distinct(r), Offers(q) \cap Offers(r) = {},
             \A m \in S : m.type = \hA7 => m.id \in Ids
      PROVE  Distinct(both)
  <2>1. ASSUME NEW i \in DOMAIN both, NEW j \in DOMAIN both,
               both[i].type = \hA7, both[j].type = \hA7, both[i].id = both[j].id
        PROVE  i = j
    <3>1. \A a \in DOMAIN q, b \in DOMAIN r :
             q[a].type = \hA7 /\ r[b].type = \hA7 => q[a].id # r[b].id
      <4> SUFFICES ASSUME NEW a \in DOMAIN q, NEW b \in DOMAIN r,
                          q[a].type = \hA7, r[b].type = \hA7, q[a].id = r[b].id
                   PROVE  FALSE
        OBVIOUS
      <4>1. q[a].id \in Ids
        BY <1>2, <1>7
      <4> QED BY <1>7, <4>1 DEF Offers
    <3>2. CASE i \in DOMAIN q /\ both[i] = q[i]
      BY <1>3, <1>7, <2>1, <3>1, <3>2 DEF Distinct
    <3>3. CASE i - l \in DOMAIN r /\ both[i] = r[i - l]
      <4>1. CASE j \in DOMAIN q /\ both[j] = q[j]
        BY <2>1, <3>1, <3>3, <4>1
      <4>2. CASE j - l \in DOMAIN r /\ both[j] = r[j - l]
        <5>1. i - l = j - l
          BY <1>7, <2>1, <3>3, <4>2 DEF Distinct
        <5> QED BY <1>1, <1>3, <5>1
      <4> QED BY <1>3, <4>1, <4>2
    <3> QED BY <1>3, <3>2, <3>3
  <2> QED BY <2>1 DEF Distinct
<1> QED BY <1>1, <1>6, <1>7 DEF both

(* One frame is.                                                           *)
LEMMA AppendOffers ==
    ASSUME NEW S, NEW q \in Seq(S), NEW m \in S,
           \A x \in S : x.type = \hA7 => x.id \in Ids
    PROVE  /\ Append(q, m) \in Seq(S)
           /\ m.type = \hA7 => Offers(Append(q, m)) = Offers(q) \cup {m.id}
           /\ m.type # \hA7 => Offers(Append(q, m)) = Offers(q)
           /\ Distinct(q) /\ (m.type = \hA7 => m.id \notin Offers(q)) => Distinct(Append(q, m))
<1> DEFINE one == <<m>>
<1>1. /\ one \in Seq(S) /\ Len(one) = 1 /\ one[1] = m /\ DOMAIN one = {1}
  OBVIOUS
<1>2. Append(q, m) = q \o one
  <2>1. /\ Append(q, m) \in Seq(S) /\ Len(Append(q, m)) = Len(q) + 1
        /\ \A i \in 1..Len(q) : Append(q, m)[i] = q[i]
        /\ Append(q, m)[Len(q) + 1] = m
        /\ Len(q) \in Nat
    BY AppendProperties, LenProperties
  <2> HIDE DEF one
  <2>2. /\ q \o one \in Seq(S) /\ Len(q \o one) = Len(q) + 1
        /\ \A i \in 1..(Len(q) + 1) : (q \o one)[i] = IF i <= Len(q) THEN q[i] ELSE one[i - Len(q)]
    <3>1. /\ q \o one \in Seq(S) /\ Len(q \o one) = Len(q) + Len(one)
          /\ \A i \in 1..(Len(q) + Len(one)) :
                (q \o one)[i] = IF i <= Len(q) THEN q[i] ELSE one[i - Len(q)]
      BY <1>1, ConcatProperties
    <3> QED BY <1>1, <2>1, <3>1
  <2>3. \A i \in 1..(Len(q) + 1) : Append(q, m)[i] = (q \o one)[i]
    BY <1>1, <2>1, <2>2
  <2> QED BY <2>1, <2>2, <2>3, SeqEqual
<1> HIDE DEF one
<1>3. m.type = \hA7 => Offers(one) = {m.id}
  BY <1>1 DEF Offers
<1>4. m.type # \hA7 => Offers(one) = {}
  BY <1>1 DEF Offers
<1>5. Distinct(one)
  BY <1>1 DEF Distinct
<1>6. /\ q \o one \in Seq(S)
      /\ Offers(q \o one) = Offers(q) \cup Offers(one)
      /\ Distinct(q) /\ Offers(q) \cap Offers(one) = {} => Distinct(q \o one)
  BY <1>1, <1>5, ConcatOffers
<1>7. Distinct(q) /\ (m.type = \hA7 => m.id \notin Offers(q)) => Distinct(q \o one)
  <2>1. CASE m.type = \hA7
    BY <1>3, <1>6, <2>1
  <2>2. CASE m.type # \hA7
    BY <1>4, <1>6, <2>2
  <2> QED BY <2>1, <2>2, Zenon
<1> QED BY <1>2, <1>3, <1>4, <1>6, <1>7

-----------------------------------------------------------------------------
(* The queues, step by step.                                               *)

LEMMA TypeFacts ==
    ASSUME Types
    PROVE  /\ Len(sizes) \in Nat /\ Len(sizes) <= MaxFiles /\ DOMAIN sizes = 1..Len(sizes)
           /\ 1..Len(sizes) \subseteq Ids
           /\ \A id \in 1..Len(sizes) : sizes[id] \in Nat /\ sizes[id] < Width
           /\ \A m \in Frame(sizes) : m.type = \hA7 => m.id \in Ids /\ m.id \in 1..Len(sizes)
<1>1. Len(sizes) \in Nat /\ Len(sizes) <= MaxFiles /\ DOMAIN sizes = 1..Len(sizes)
  BY LenProperties DEF Types
<1>2. 1..Len(sizes) \subseteq Ids
  BY <1>1, Constants DEF Ids
<1>3. ASSUME NEW id \in 1..Len(sizes) PROVE sizes[id] \in Nat /\ sizes[id] < Width
  <2>1. sizes[id] \in Sizes
    BY ElementOfSeq DEF Types
  <2> QED BY <2>1, Constants
<1>4. \A m \in Frame(sizes) : m.type = \hA7 => m.id \in 1..Len(sizes)
  BY Kinds
<1> QED BY <1>1, <1>2, <1>3, <1>4

LEMMA OldOffers ==
    ASSUME Types, NEW q \in Seq(Frame(sizes))
    PROVE  Offers(q) \subseteq 1..Len(sizes)
BY TypeFacts, QueueDomain DEF Offers

(* sendFile: what it puts behind the sender's queue.                       *)
LEMMA SendQueue ==
    ASSUME Types, OfferedOnce, NEW s \in Senders, NEW siz \in Sizes, SendFile(s, siz)
    PROVE  /\ sizes' \in Seq(Sizes) /\ Len(sizes') = Len(sizes) + 1 /\ Len(sizes') <= MaxFiles
           /\ \A id \in 1..Len(sizes) : sizes'[id] = sizes[id]
           /\ Frame(sizes) \subseteq Frame(sizes')
           /\ up'[s] \in Seq(Frame(sizes'))
           /\ Offers(up'[s]) = Offers(up[s]) \cup {Len(sizes) + 1}
           /\ Distinct(up'[s])
<1> DEFINE id == Len(sizes) + 1
           F  == Frame(sizes')
<1>1. /\ sizes \in Seq(Sizes) /\ sizes' = Append(sizes, siz) /\ id <= MaxFiles
      /\ up \in [Senders -> Seq(Frame(sizes))]
      /\ up'[s] = up[s] \o <<Offer(id, siz)>> \o Parts(id, siz) \o <<Text(id)>>
  BY DEF SendFile, Types
<1>2. /\ sizes' \in Seq(Sizes) /\ Len(sizes') = id
      /\ \A k \in 1..Len(sizes) : sizes'[k] = sizes[k]
      /\ sizes'[id] = siz /\ Frame(sizes) \subseteq F
  BY <1>1, FrameGrows
<1>3. id \in Nat /\ id \in 1..Len(sizes') /\ id \in Ids /\ siz \in Nat /\ id \notin 1..Len(sizes)
  BY <1>1, <1>2, TypeFacts, Constants DEF Ids
<1>4. \A m \in F : m.type = \hA7 => m.id \in Ids
  <2>1. \A m \in F : m.type = \hA7 => m.id \in 1..Len(sizes')
    BY Kinds
  <2>2. 1..Len(sizes') \subseteq Ids
    BY <1>1, <1>2, <1>3, Constants DEF Ids
  <2> HIDE DEF F
  <2> QED BY <2>1, <2>2
<1>5. /\ Offer(id, siz) \in F /\ Text(id) \in F
      /\ \A nth \in 1..PartCount(siz) : Part(id, nth, PartSize(siz, nth)) \in F
  BY <1>2, <1>3, OfferIsFrame
<1> DEFINE q0    == up[s]
           first == <<Offer(id, siz)>>
           parts == Parts(id, siz)
           last  == <<Text(id)>>
           q1    == q0 \o first
           q2    == q1 \o parts
           q3    == q2 \o last
<1>6. parts \in Seq(F)
  BY <1>3, <1>5, FramesAt
<1> HIDE DEF F
<1>7. first \in Seq(F) /\ Offers(first) = {id} /\ Distinct(first)
  <2>1. first \in Seq(F) /\ DOMAIN first = {1} /\ first[1].type = \hA7 /\ first[1].id = id
    BY <1>5, Fields
  <2> HIDE DEF first
  <2> QED BY <1>3, <2>1 DEF Offers, Distinct
<1>8. last \in Seq(F) /\ Offers(last) = {} /\ Distinct(last)
  <2>1. last \in Seq(F) /\ DOMAIN last = {1} /\ last[1].type # \hA7
    BY <1>5, Fields
  <2> HIDE DEF last
  <2> QED BY <2>1 DEF Offers, Distinct
<1>9. Offers(parts) = {} /\ Distinct(parts)
  <2>1. \A k \in DOMAIN parts : parts[k] = Part(id, k, PartSize(siz, k))
    BY <1>3, FramesAt
  <2> HIDE DEF parts
  <2>2. \A k \in DOMAIN parts : parts[k].type # \hA7
    BY <2>1, Fields
  <2> QED BY <2>2 DEF Offers, Distinct
<1>10. q0 \in Seq(F) /\ id \notin Offers(q0) /\ Distinct(q0)
  <2>1. q0 \in Seq(Frame(sizes))
    BY <1>1
  <2> QED BY <1>2, <1>3, <2>1, SeqGrows, OldOffers DEF OfferedOnce
<1>11. up'[s] = q3
  BY <1>1
<1> HIDE DEF q0, first, parts, last
<1>12. q1 \in Seq(F) /\ Offers(q1) = Offers(q0) \cup {id} /\ Distinct(q1)
  BY <1>4, <1>7, <1>10, ConcatOffers
<1> HIDE DEF q1
<1>13. q2 \in Seq(F) /\ Offers(q2) = Offers(q1) /\ Distinct(q2)
  BY <1>4, <1>6, <1>9, <1>12, ConcatOffers
<1> HIDE DEF q2
<1>14. q3 \in Seq(F) /\ Offers(q3) = Offers(q2) /\ Distinct(q3)
  <2>1. Offers(q2) \cap Offers(last) = {} /\ Offers(q2) \cup Offers(last) = Offers(q2)
    BY <1>8
  <2>2. q2 \in Seq(F) /\ last \in Seq(F) /\ Distinct(q2) /\ Distinct(last)
    BY <1>8, <1>13
  <2>3. /\ q3 \in Seq(F) /\ Offers(q3) = Offers(q2) \cup Offers(last)
        /\ Distinct(q3)
    BY <1>4, <2>1, <2>2, ConcatOffers
  <2> QED BY <2>1, <2>3
<1> HIDE DEF q3
<1> QED BY <1>1, <1>2, <1>11, <1>12, <1>13, <1>14 DEF F, q0

LEMMA SendFileQueues ==
    ASSUME Types, OfferedOnce, NEW s \in Senders, NEW siz \in Sizes, SendFile(s, siz)
    PROVE  Types' /\ OfferedOnce'
<1>1. /\ UNCHANGED <<session, down, file, disk, failed, log>>
      /\ up' = [up EXCEPT ![s] = up'[s]]
      /\ \A t \in Senders \ {s} : up'[t] = up[t]
      /\ up \in [Senders -> Seq(Frame(sizes))]
  BY DEF SendFile, received, Types
<1>2. /\ sizes' \in Seq(Sizes) /\ Len(sizes') <= MaxFiles
      /\ Frame(sizes) \subseteq Frame(sizes')
      /\ up'[s] \in Seq(Frame(sizes'))
      /\ Offers(up'[s]) = Offers(up[s]) \cup {Len(sizes) + 1}
      /\ Distinct(up'[s])
  BY SendQueue
<1>3. \A q \in Seq(Frame(sizes)) : q \in Seq(Frame(sizes'))
  BY <1>2, SeqGrows
<1>4. Types'
  <2>1. up' \in [Senders -> Seq(Frame(sizes'))]
    BY <1>1, <1>2, <1>3
  <2>2. /\ down' \in [Clients -> Seq(Frame(sizes'))] /\ log' \in [Clients -> Seq(Frame(sizes'))]
        /\ disk' \in [Clients -> [Ids -> Seq(Frame(sizes'))]]
    BY <1>1, <1>3 DEF Types
  <2> QED BY <1>1, <1>2, <2>1, <2>2 DEF Types
<1>5. /\ \A t \in Senders : Len(sizes) + 1 \notin Offers(up[t])
      /\ \A c \in Clients : Len(sizes) + 1 \notin Offers(down[c]) \cup Offers(log[c])
  <2>1. Len(sizes) + 1 \notin 1..Len(sizes)
    BY TypeFacts
  <2>2. \A q \in Seq(Frame(sizes)) : Len(sizes) + 1 \notin Offers(q)
    BY <2>1, OldOffers
  <2> QED BY <2>2 DEF Types
<1>6. \A t \in Senders : Distinct(up'[t])
  BY <1>1, <1>2 DEF OfferedOnce
<1>7. ASSUME NEW t \in Senders, NEW v \in Senders, t # v
      PROVE  Offers(up'[t]) \cap Offers(up'[v]) = {}
  <2>1. Offers(up[t]) \cap Offers(up[v]) = {}
    BY <1>7 DEF OfferedOnce
  <2>2. CASE t = s
    BY <1>1, <1>2, <1>5, <1>7, <2>1, <2>2
  <2>3. CASE v = s
    BY <1>1, <1>2, <1>5, <1>7, <2>1, <2>3
  <2>4. CASE t # s /\ v # s
    BY <1>1, <2>1, <2>4
  <2> QED BY <2>2, <2>3, <2>4
<1>8. ASSUME NEW t \in Senders, NEW c \in Clients
      PROVE  Offers(up'[t]) \cap (Offers(down[c]) \cup Offers(log[c])) = {}
  <2>1. Offers(up[t]) \cap (Offers(down[c]) \cup Offers(log[c])) = {}
    BY DEF OfferedOnce
  <2>2. CASE t = s
    BY <1>2, <1>5, <2>1, <2>2
  <2>3. CASE t # s
    BY <1>1, <2>1, <2>3
  <2> QED BY <2>2, <2>3
<1>9. OfferedOnce'
  BY <1>1, <1>6, <1>7, <1>8 DEF OfferedOnce
<1> QED BY <1>4, <1>9

(* The steps that only drop frames, or queue one that offers nothing.      *)
LEMMA QueuesShrink ==
    ASSUME Types, OfferedOnce, UNCHANGED <<sizes, received>>,
           session' \in Clients \cup {None},
           up' \in [Senders -> Seq(Frame(sizes))], down' \in [Clients -> Seq(Frame(sizes))],
           \A s \in Senders : Distinct(up'[s]) /\ Offers(up'[s]) \subseteq Offers(up[s]),
           \A c \in Clients : Distinct(down'[c]) /\ Offers(down'[c]) \subseteq Offers(down[c])
    PROVE  Types' /\ OfferedOnce'
<1>1. UNCHANGED <<sizes, file, disk, failed, log>>
  BY DEF received
<1>2. Types'
  BY <1>1 DEF Types
<1>3. /\ \A s, t \in Senders : s # t => Offers(up'[s]) \cap Offers(up'[t]) = {}
      /\ \A s \in Senders, c \in Clients :
            Offers(up'[s]) \cap (Offers(down'[c]) \cup Offers(log[c])) = {}
      /\ \A c \in Clients : Offers(down'[c]) \cap Offers(log[c]) = {}
  BY Zenon DEF OfferedOnce
<1> QED BY <1>1, <1>2, <1>3 DEF OfferedOnce

LEMMA NoOffers ==
    Distinct(<< >>) /\ Offers(<< >>) = {}
BY DEF Distinct, Offers

LEMMA SenderLostQueues ==
    ASSUME Types, OfferedOnce, NEW s \in Senders, SenderLost(s)
    PROVE  Types' /\ OfferedOnce'
<1>1. /\ UNCHANGED <<sizes, session, down, received>>
      /\ up' = [up EXCEPT ![s] = << >>] /\ up \in [Senders -> Seq(Frame(sizes))]
      /\ down \in [Clients -> Seq(Frame(sizes))] /\ session \in Clients \cup {None}
  BY DEF SenderLost, Types
<1>2. << >> \in Seq(Frame(sizes))
  BY EmptySeq
<1>3. ASSUME NEW t \in Senders
      PROVE  Distinct(up'[t]) /\ Offers(up'[t]) \subseteq Offers(up[t])
  <2>1. CASE t = s
    BY <1>1, <2>1, NoOffers
  <2>2. CASE t # s
    BY <1>1, <2>2 DEF OfferedOnce
  <2> QED BY <2>1, <2>2
<1>4. \A c \in Clients : Distinct(down'[c]) /\ Offers(down'[c]) \subseteq Offers(down[c])
  BY <1>1 DEF OfferedOnce
<1> QED BY <1>1, <1>2, <1>3, <1>4, QueuesShrink

LEMMA ReceiverOfflineQueues ==
    ASSUME Types, OfferedOnce, NEW s \in Senders, ReceiverOffline(s)
    PROVE  Types' /\ OfferedOnce'
<1>1. /\ UNCHANGED <<sizes, session, received>> /\ up[s] # << >>
      /\ \/ up' = [up EXCEPT ![s] = Tail(@)] /\ UNCHANGED down
         \/ up' = [t \in Senders |-> << >>] /\ down' = [c \in Clients |-> << >>]
      /\ up \in [Senders -> Seq(Frame(sizes))]
      /\ down \in [Clients -> Seq(Frame(sizes))] /\ session \in Clients \cup {None}
  BY DEF ReceiverOffline, Types
<1>2. CASE up' = [up EXCEPT ![s] = Tail(@)] /\ UNCHANGED down
  <2>1. Tail(up[s]) \in Seq(Frame(sizes)) /\ Distinct(Tail(up[s]))
        /\ Offers(Tail(up[s])) \subseteq Offers(up[s])
    <3>1. up[s] \in Seq(Frame(sizes)) /\ Distinct(up[s])
      BY <1>1 DEF OfferedOnce
    <3> QED BY <1>1, <3>1, TailOffers
  <2>2. ASSUME NEW t \in Senders
        PROVE  Distinct(up'[t]) /\ Offers(up'[t]) \subseteq Offers(up[t])
    <3>1. CASE t = s
      BY <1>1, <1>2, <2>1, <3>1
    <3>2. CASE t # s
      BY <1>1, <1>2, <3>2 DEF OfferedOnce
    <3> QED BY <3>1, <3>2
  <2>3. \A c \in Clients : Distinct(down'[c]) /\ Offers(down'[c]) \subseteq Offers(down[c])
    BY <1>2 DEF OfferedOnce
  <2>4. /\ up' \in [Senders -> Seq(Frame(sizes))] /\ down' \in [Clients -> Seq(Frame(sizes))]
        /\ session' \in Clients \cup {None} /\ UNCHANGED <<sizes, received>>
    BY <1>1, <1>2, <2>1
  <2> QED BY <2>2, <2>3, <2>4, QueuesShrink
<1>3. CASE up' = [t \in Senders |-> << >>] /\ down' = [c \in Clients |-> << >>]
  <2>1. /\ \A t \in Senders : Distinct(up'[t]) /\ Offers(up'[t]) \subseteq Offers(up[t])
        /\ \A c \in Clients : Distinct(down'[c]) /\ Offers(down'[c]) \subseteq Offers(down[c])
    BY <1>3, NoOffers
  <2>2. << >> \in Seq(Frame(sizes))
    BY EmptySeq
  <2>3. up' \in [Senders -> Seq(Frame(sizes))] /\ down' \in [Clients -> Seq(Frame(sizes))]
    BY <1>3, <2>2
  <2> QED BY <1>1, <2>1, <2>3, QueuesShrink
<1> QED BY <1>1, <1>2, <1>3

LEMMA TakeSessionQueues ==
    ASSUME Types, OfferedOnce, NEW c \in Clients, TakeSession(c)
    PROVE  Types' /\ OfferedOnce'
<1>1. /\ UNCHANGED <<sizes, up, received>> /\ session' = c
      /\ down' = [d \in Clients |->
                    IF d = session THEN Append(down[d], Shutdown) ELSE down[d]]
      /\ up \in [Senders -> Seq(Frame(sizes))]
      /\ down \in [Clients -> Seq(Frame(sizes))]
  BY DEF TakeSession, sent, Types
<1>2. /\ Shutdown \in Frame(sizes) /\ Shutdown.type # \hA7
      /\ \A m \in Frame(sizes) : m.type = \hA7 => m.id \in Ids
  BY ShutdownIsFrame, Fields, TypeFacts
<1>3. ASSUME NEW d \in Clients
      PROVE  /\ Distinct(down'[d]) /\ Offers(down'[d]) \subseteq Offers(down[d])
             /\ down'[d] \in Seq(Frame(sizes))
  <2>1. Distinct(down[d]) /\ down[d] \in Seq(Frame(sizes))
    BY <1>1 DEF OfferedOnce
  <2>2. /\ Append(down[d], Shutdown) \in Seq(Frame(sizes))
        /\ Offers(Append(down[d], Shutdown)) = Offers(down[d])
        /\ Distinct(Append(down[d], Shutdown))
    BY <1>2, <2>1, AppendOffers
  <2>3. down'[d] = IF d = session THEN Append(down[d], Shutdown) ELSE down[d]
    BY <1>1
  <2> QED BY <2>1, <2>2, <2>3
<1>4. /\ down' \in [Clients -> Seq(Frame(sizes))] /\ up' \in [Senders -> Seq(Frame(sizes))]
      /\ session' \in Clients \cup {None}
  BY <1>1, <1>3
<1>5. \A s \in Senders : Distinct(up'[s]) /\ Offers(up'[s]) \subseteq Offers(up[s])
  BY <1>1 DEF OfferedOnce
<1> QED BY <1>1, <1>3, <1>4, <1>5, QueuesShrink

LEMMA ReceiverLostQueues ==
    ASSUME Types, OfferedOnce, NEW c \in Clients, ReceiverLost(c)
    PROVE  Types' /\ OfferedOnce'
<1>1. /\ UNCHANGED <<sizes, up, received>> /\ session' \in {None, session}
      /\ down' = [down EXCEPT ![c] = << >>]
      /\ up \in [Senders -> Seq(Frame(sizes))]
      /\ down \in [Clients -> Seq(Frame(sizes))] /\ session \in Clients \cup {None}
  BY DEF ReceiverLost, sent, Types
<1>2. << >> \in Seq(Frame(sizes))
  BY EmptySeq
<1>3. ASSUME NEW d \in Clients
      PROVE  Distinct(down'[d]) /\ Offers(down'[d]) \subseteq Offers(down[d])
  <2>1. CASE d = c
    BY <1>1, <2>1, NoOffers
  <2>2. CASE d # c
    BY <1>1, <2>2 DEF OfferedOnce
  <2> QED BY <2>1, <2>2
<1>4. \A s \in Senders : Distinct(up'[s]) /\ Offers(up'[s]) \subseteq Offers(up[s])
  BY <1>1 DEF OfferedOnce
<1>5. /\ down' \in [Clients -> Seq(Frame(sizes))] /\ up' \in [Senders -> Seq(Frame(sizes))]
      /\ session' \in Clients \cup {None}
  BY <1>1, <1>2
<1> QED BY <1>1, <1>3, <1>4, <1>5, QueuesShrink

(* The server moves a frame from a sender's queue to the receiver's.       *)
LEMMA ForwardQueues ==
    ASSUME Types, OfferedOnce, NEW s \in Senders, Forward(s)
    PROVE  Types' /\ OfferedOnce'
<1> DEFINE m == Head(up[s])
           X == IF m.type = \hA7 THEN {m.id} ELSE {}
           F == Frame(sizes)
<1>1. /\ UNCHANGED <<sizes, session, received>> /\ up[s] # << >>
      /\ session \in Clients
      /\ up' = [up EXCEPT ![s] = Tail(@)]
      /\ down' = [down EXCEPT ![session] = Append(@, m)]
      /\ up \in [Senders -> Seq(F)] /\ down \in [Clients -> Seq(F)]
  BY DEF Forward, Types
<1>2. UNCHANGED <<file, disk, failed, log>>
  BY <1>1 DEF received
<1>3. \A x \in F : x.type = \hA7 => x.id \in Ids
  BY TypeFacts
<1>4. /\ \A t \in Senders : up[t] \in Seq(F) /\ Distinct(up[t])
      /\ \A c \in Clients : down[c] \in Seq(F) /\ Distinct(down[c])
  BY <1>1 DEF OfferedOnce
<1> HIDE DEF m, F
<1>5. /\ Tail(up[s]) \in Seq(F) /\ Distinct(Tail(up[s]))
      /\ Offers(Tail(up[s])) \subseteq Offers(up[s])
      /\ m \in F /\ X \subseteq Offers(up[s]) /\ X \cap Offers(Tail(up[s])) = {}
  <2>1. /\ Tail(up[s]) \in Seq(F) /\ m \in F /\ Distinct(Tail(up[s]))
        /\ Offers(Tail(up[s])) \subseteq Offers(up[s])
        /\ m.type = \hA7 /\ m.id \in Ids =>
              m.id \in Offers(up[s]) /\ m.id \notin Offers(Tail(up[s]))
    BY <1>1, <1>4, TailOffers DEF m
  <2>2. m.type = \hA7 => m.id \in Ids
    BY <1>3, <2>1
  <2> QED BY <2>1, <2>2
<1>6. ASSUME NEW t \in Senders
      PROVE  /\ Offers(up'[t]) \subseteq Offers(up[t]) /\ Distinct(up'[t])
             /\ up'[t] \in Seq(F) /\ X \cap Offers(up'[t]) = {}
  <2>1. CASE t = s
    <3>1. up'[t] = Tail(up[s])
      BY <1>1, <2>1
    <3> QED BY <1>5, <2>1, <3>1
  <2>2. CASE t # s
    <3>1. up'[t] = up[t]
      BY <1>1, <2>2
    <3>2. Offers(up[t]) \cap Offers(up[s]) = {}
      BY <2>2 DEF OfferedOnce
    <3> QED BY <1>4, <1>5, <3>1, <3>2
  <2> QED BY <2>1, <2>2
<1>7. X \cap (Offers(down[session]) \cup Offers(log[session])) = {}
  <2>1. Offers(up[s]) \cap (Offers(down[session]) \cup Offers(log[session])) = {}
    BY <1>1 DEF OfferedOnce
  <2> QED BY <1>5, <2>1
<1>8. /\ Append(down[session], m) \in Seq(F)
      /\ Offers(Append(down[session], m)) = Offers(down[session]) \cup X
      /\ Distinct(Append(down[session], m))
  <2>1. m.type = \hA7 => m.id \notin Offers(down[session])
    BY <1>7
  <2>2. /\ Append(down[session], m) \in Seq(F)
        /\ m.type = \hA7 => Offers(Append(down[session], m)) = Offers(down[session]) \cup {m.id}
        /\ m.type # \hA7 => Offers(Append(down[session], m)) = Offers(down[session])
        /\ Distinct(Append(down[session], m))
    BY <1>1, <1>3, <1>4, <1>5, <2>1, AppendOffers
  <2> QED BY <2>2
<1> HIDE DEF X
<1>9. ASSUME NEW c \in Clients
      PROVE  /\ Offers(down'[c]) \subseteq Offers(down[c]) \cup X
             /\ Distinct(down'[c]) /\ down'[c] \in Seq(F)
             /\ Offers(down'[c]) \cap Offers(log[c]) = {}
  <2>1. Offers(down[c]) \cap Offers(log[c]) = {}
    BY DEF OfferedOnce
  <2>2. CASE c = session
    <3>1. down'[c] = Append(down[session], m)
      BY <1>1, <2>2
    <3> QED BY <1>7, <1>8, <2>1, <2>2, <3>1
  <2>3. CASE c # session
    <3>1. down'[c] = down[c]
      BY <1>1, <2>3
    <3> QED BY <1>4, <2>1, <3>1
  <2> QED BY <2>2, <2>3
<1>10. \A t, v \in Senders : t # v => Offers(up'[t]) \cap Offers(up'[v]) = {}
  BY <1>6 DEF OfferedOnce
<1>11. ASSUME NEW t \in Senders, NEW c \in Clients
       PROVE  Offers(up'[t]) \cap (Offers(down'[c]) \cup Offers(log[c])) = {}
  <2>1. Offers(up[t]) \cap (Offers(down[c]) \cup Offers(log[c])) = {}
    BY DEF OfferedOnce
  <2> QED BY <1>6, <1>9, <2>1
<1>12. Types'
  <2>1. up' \in [Senders -> Seq(F)] /\ down' \in [Clients -> Seq(F)]
    BY <1>1, <1>6, <1>9
  <2> QED BY <1>1, <1>2, <2>1 DEF Types, F
<1>13. OfferedOnce'
  BY <1>2, <1>6, <1>9, <1>10, <1>11 DEF OfferedOnce
<1> QED BY <1>12, <1>13

(* A client takes the first frame of its queue.                            *)
LEMMA ReceiveOffers ==
    ASSUME Types, OfferedOnce, NEW c \in Clients, Receive(c)
    PROVE  /\ OfferedOnce'
           /\ down' \in [Clients -> Seq(Frame(sizes))] /\ log' \in [Clients -> Seq(Frame(sizes))]
           /\ Head(down[c]) \in Frame(sizes)
<1> DEFINE m == Head(down[c])
           X == IF m.type = \hA7 THEN {m.id} ELSE {}
           F == Frame(sizes)
<1>1. /\ UNCHANGED <<sizes, up, session>> /\ down[c] # << >>
      /\ down' = [down EXCEPT ![c] = Tail(@)]
      /\ \/ m.type = \hA0 /\ log' = log
         \/ m.type # \hA0 /\ log' = [log EXCEPT ![c] = Append(@, m)]
      /\ up \in [Senders -> Seq(F)] /\ down \in [Clients -> Seq(F)] /\ log \in [Clients -> Seq(F)]
  BY DEF Receive, Types, sent, received
<1>2. \A x \in F : x.type = \hA7 => x.id \in Ids
  BY TypeFacts
<1>3. \A d \in Clients : down[d] \in Seq(F) /\ Distinct(down[d]) /\ log[d] \in Seq(F)
  BY <1>1 DEF OfferedOnce
<1> HIDE DEF m, F
<1>4. /\ Tail(down[c]) \in Seq(F) /\ Distinct(Tail(down[c]))
      /\ Offers(Tail(down[c])) \subseteq Offers(down[c])
      /\ m \in F /\ X \subseteq Offers(down[c]) /\ X \cap Offers(Tail(down[c])) = {}
  <2>1. /\ Tail(down[c]) \in Seq(F) /\ m \in F /\ Distinct(Tail(down[c]))
        /\ Offers(Tail(down[c])) \subseteq Offers(down[c])
        /\ m.type = \hA7 /\ m.id \in Ids =>
              m.id \in Offers(down[c]) /\ m.id \notin Offers(Tail(down[c]))
    BY <1>1, <1>3, TailOffers DEF m
  <2>2. m.type = \hA7 => m.id \in Ids
    BY <1>2, <2>1
  <2> QED BY <2>1, <2>2
<1>5. /\ Append(log[c], m) \in Seq(F)
      /\ Offers(Append(log[c], m)) = Offers(log[c]) \cup X
  BY <1>2, <1>3, <1>4, AppendOffers
<1> HIDE DEF X
<1>6. ASSUME NEW d \in Clients
      PROVE  /\ Offers(down'[d]) \subseteq Offers(down[d]) /\ Distinct(down'[d])
             /\ down'[d] \in Seq(F) /\ log'[d] \in Seq(F)
             /\ Offers(log'[d]) \subseteq Offers(log[d]) \cup Offers(down[d])
             /\ Offers(down'[d]) \cap Offers(log'[d]) = {}
  <2>1. Offers(down[d]) \cap Offers(log[d]) = {}
    BY DEF OfferedOnce
  <2>2. CASE d = c
    <3>1. down'[d] = Tail(down[c]) /\ log'[d] \in {log[c], Append(log[c], m)}
      BY <1>1, <2>2
    <3>2. CASE log'[d] = log[c]
      BY <1>3, <1>4, <2>1, <2>2, <3>1, <3>2
    <3>3. CASE log'[d] = Append(log[c], m)
      BY <1>3, <1>4, <1>5, <2>1, <2>2, <3>1, <3>3
    <3> QED BY <3>1, <3>2, <3>3
  <2>3. CASE d # c
    <3>1. down'[d] = down[d] /\ log'[d] = log[d]
      BY <1>1, <2>3
    <3> QED BY <1>3, <2>1, <3>1
  <2> QED BY <2>2, <2>3
<1>7. ASSUME NEW t \in Senders, NEW d \in Clients
      PROVE  Offers(up[t]) \cap (Offers(down'[d]) \cup Offers(log'[d])) = {}
  <2>1. Offers(up[t]) \cap (Offers(down[d]) \cup Offers(log[d])) = {}
    BY DEF OfferedOnce
  <2> QED BY <1>6, <2>1
<1>8. OfferedOnce'
  BY <1>1, <1>6, <1>7 DEF OfferedOnce
<1>9. down' \in [Clients -> Seq(F)] /\ log' \in [Clients -> Seq(F)]
  BY <1>1, <1>6
<1> QED BY <1>4, <1>8, <1>9 DEF m, F

-----------------------------------------------------------------------------
(* What a client does with a frame.                                        *)
LEMMA ReceiveStep ==
    ASSUME Types, NEW c \in Clients, Receive(c), NEW m, m = Head(down[c]), m \in Frame(sizes)
    PROVE  /\ UNCHANGED sizes
           /\ DOMAIN file = Clients /\ DOMAIN disk = Clients
           /\ DOMAIN failed = Clients /\ DOMAIN log = Clients
           /\ \/ m.type = \hA0 /\ UNCHANGED <<file, disk, failed, log>>
              \/ /\ m.type # \hA0
                 /\ log' = [log EXCEPT ![c] = Append(@, m)]
                 /\ \/ m.type = \hA7 /\ ParseFileRequest(c, m)
                    \/ m.type = \hA9 /\ ParseFilePartRequest(c, m)
                    \/ m.type = \hA3 /\ UNCHANGED <<file, disk, failed>>
BY DEF Receive, sent, received, Types

LEMMA ReceiveAny ==
    ASSUME Types, NEW c \in Clients, Receive(c), NEW m, m = Head(down[c]), m \in Frame(sizes)
    PROVE  /\ UNCHANGED sizes
           /\ \A d \in Clients \ {c} :
                 /\ file'[d] = file[d] /\ disk'[d] = disk[d]
                 /\ failed'[d] = failed[d] /\ log'[d] = log[d]
           /\ m.type # \hA0 => log'[c] = Append(log[c], m)
           /\ m.type = \hA0 => log'[c] = log[c]
           /\ m.type \in {\hA0, \hA3} =>
                 file'[c] = file[c] /\ disk'[c] = disk[c] /\ failed'[c] = failed[c]
<1>1. CASE m.type = \hA0
  BY <1>1, ReceiveStep
<1>2. CASE m.type = \hA3
  BY <1>2, ReceiveStep
<1>3. CASE m.type = \hA7
  <2>1. ParseFileRequest(c, m) /\ log' = [log EXCEPT ![c] = Append(@, m)]
    BY <1>3, ReceiveStep
  <2> QED BY SMTT(30), <1>3, <2>1, ReceiveStep DEF ParseFileRequest
<1>4. CASE m.type = \hA9
  <2>1. ParseFilePartRequest(c, m) /\ log' = [log EXCEPT ![c] = Append(@, m)]
    BY <1>4, ReceiveStep
  <2>2. ASSUME NEW d \in Clients \ {c}
        PROVE  file'[d] = file[d] /\ disk'[d] = disk[d] /\ failed'[d] = failed[d]
    <3>1. DOMAIN file = Clients /\ DOMAIN disk = Clients /\ DOMAIN failed = Clients
      BY ReceiveStep
    <3>2. file'[d] = file[d]
      BY <2>1, <3>1 DEF ParseFilePartRequest
    <3>3. disk'[d] = disk[d]
      BY <2>1, <3>1 DEF ParseFilePartRequest
    <3>4. failed'[d] = failed[d]
      BY <2>1, <3>1 DEF ParseFilePartRequest
    <3> QED BY <3>2, <3>3, <3>4
  <2> QED BY <1>4, <2>1, <2>2, ReceiveStep
<1> QED BY <1>1, <1>2, <1>3, <1>4, Kinds

LEMMA ReceiveOffer ==
    ASSUME Types, NEW c \in Clients, Receive(c), NEW m, m = Head(down[c]), m \in Frame(sizes),
           m.type = \hA7
    PROVE  /\ file'[c] = Opened(file[c], m) /\ failed'[c] = failed[c]
           /\ disk'[c] = [disk[c] EXCEPT ![m.id] = << >>]
<1>1. ParseFileRequest(c, m) /\ DOMAIN file = Clients /\ DOMAIN disk = Clients
  BY ReceiveStep
<1> QED BY <1>1 DEF ParseFileRequest

LEMMA ReceivePart ==
    ASSUME Types, NEW c \in Clients, Receive(c), NEW m, m = Head(down[c]), m \in Frame(sizes),
           m.type = \hA9
    PROVE  LET fl  == file[c]
               cnt == Counted(fl, m)
               op  == fl.open /\ ~Complete(fl, cnt)
           IN  /\ file'[c] = [fl EXCEPT !.cnt = cnt, !.open = op]
               /\ disk'[c] = IF fl.open THEN [disk[c] EXCEPT ![fl.name] = Append(@, m)]
                             ELSE disk[c]
               /\ failed'[c] = failed[c]
                     \cup (IF fl.open THEN {} ELSE {"written"})
                     \cup (IF Complete(fl, cnt) /\ cnt # fl.size THEN {"counted"} ELSE {})
<1>1. /\ ParseFilePartRequest(c, m)
      /\ DOMAIN file = Clients /\ DOMAIN disk = Clients /\ DOMAIN failed = Clients
  BY ReceiveStep
<1> QED BY <1>1 DEF ParseFilePartRequest

(* A part leaves alone a file that is not the one it is written to.        *)
LEMMA PartSpares ==
    ASSUME Types, NEW c \in Clients, Receive(c), Head(down[c]) \in Frame(sizes),
           Head(down[c]).type = \hA9, NEW id \in Ids
    PROVE  (file[c].name = id => ~file[c].open) =>
               disk'[c][id] = disk[c][id] /\ (file'[c].name = id => ~file'[c].open)
<1> DEFINE m   == Head(down[c])
           fl  == file[c]
           cnt == Counted(fl, m)
           op  == fl.open /\ ~Complete(fl, cnt)
<1>1. /\ file'[c] = [fl EXCEPT !.cnt = cnt, !.open = op]
      /\ disk'[c] = IF fl.open THEN [disk[c] EXCEPT ![fl.name] = Append(@, m)]
                    ELSE disk[c]
      /\ failed'[c] = failed[c]
            \cup (IF fl.open THEN {} ELSE {"written"})
            \cup (IF Complete(fl, cnt) /\ cnt # fl.size THEN {"counted"} ELSE {})
  BY ReceivePart, Zenon
<1>2. /\ fl \in [open : BOOLEAN, name : Ids \cup {None}, cnt : Nat, size : 0..(Width - 1)]
      /\ disk[c] \in [Ids -> Seq(Frame(sizes))]
  BY DEF Types
<1> HIDE DEF cnt
<1>3. op => fl.open
  OBVIOUS
<1> SUFFICES ASSUME fl.name = id => ~fl.open
             PROVE  disk'[c][id] = disk[c][id] /\ (file'[c].name = id => ~file'[c].open)
  OBVIOUS
<1> HIDE DEF op, fl
<1>4. file'[c].name = fl.name /\ file'[c].open = op
  BY <1>1, <1>2
<1>5. disk'[c][id] = disk[c][id]
  BY <1>1, <1>2, <1>3
<1> QED BY <1>3, <1>4, <1>5

LEMMA ReceiveTypes ==
    ASSUME Types, OfferedOnce, NEW c \in Clients, Receive(c)
    PROVE  Types'
<1> DEFINE m  == Head(down[c])
           F  == Frame(sizes)
           fl == file[c]
           R  == [open : BOOLEAN, name : Ids \cup {None}, cnt : Nat, size : 0..(Width - 1)]
<1>1. /\ down' \in [Clients -> Seq(F)] /\ log' \in [Clients -> Seq(F)] /\ m \in F
      /\ UNCHANGED <<sizes, up, session>>
  <2>1. UNCHANGED <<sizes, up, session>>
    BY DEF Receive, sent
  <2> QED BY <2>1, ReceiveOffers
<1>2. /\ file \in [Clients -> R] /\ disk \in [Clients -> [Ids -> Seq(F)]]
      /\ failed \in [Clients -> SUBSET {"written", "counted"}]
      /\ fl \in R /\ disk[c] \in [Ids -> Seq(F)]
      /\ failed[c] \in SUBSET {"written", "counted"}
  BY DEF Types
<1>3. m.type # \hA0 => m.id \in 1..Len(sizes) /\ m.id \in Ids
  BY <1>1, Kinds, TypeFacts
<1> HIDE DEF m, F
<1>4. /\ file'[c] \in R /\ disk'[c] \in [Ids -> Seq(F)]
      /\ failed'[c] \in SUBSET {"written", "counted"}
  <2>1. CASE m.type \in {\hA0, \hA3}
    <3>1. file'[c] = file[c] /\ disk'[c] = disk[c] /\ failed'[c] = failed[c]
      BY <1>1, <2>1, ReceiveAny DEF m, F
    <3> QED BY <1>2, <3>1
  <2>2. CASE m.type = \hA7
    <3>1. /\ file'[c] = Opened(fl, m) /\ failed'[c] = failed[c]
          /\ disk'[c] = [disk[c] EXCEPT ![m.id] = << >>]
      BY <1>1, <2>2, ReceiveOffer DEF m, F
    <3>2. m.siz \in 0..(Width - 1)
      <4>1. m.id \in 1..Len(sizes) /\ m.siz = sizes[m.id]
        BY <1>1, <2>2, Kinds DEF F
      <4>2. sizes[m.id] \in Nat /\ sizes[m.id] < Width
        BY <4>1, TypeFacts
      <4> QED BY <4>1, <4>2, Constants
    <3>3. << >> \in Seq(F)
      BY EmptySeq
    <3>4. Opened(fl, m) \in R
      BY <1>3, <2>2, <3>2 DEF Opened
    <3>5. disk'[c] \in [Ids -> Seq(F)]
      BY <1>2, <3>1, <3>3
    <3> QED BY <1>2, <3>1, <3>4, <3>5
  <2>3. CASE m.type = \hA9
    <3> DEFINE cnt == Counted(fl, m)
               op  == fl.open /\ ~Complete(fl, cnt)
    <3>1. /\ file'[c] = [fl EXCEPT !.cnt = cnt, !.open = op]
          /\ disk'[c] = IF fl.open THEN [disk[c] EXCEPT ![fl.name] = Append(@, m)]
                        ELSE disk[c]
          /\ failed'[c] = failed[c]
                \cup (IF fl.open THEN {} ELSE {"written"})
                \cup (IF Complete(fl, cnt) /\ cnt # fl.size THEN {"counted"} ELSE {})
      BY <1>1, <2>3, ReceivePart, ZenonT(30) DEF m, F
    <3>2. m.siz \in Nat
      <4>1. /\ m.id \in 1..Len(sizes) /\ m.nth \in 1..PartCount(sizes[m.id])
            /\ m.siz = PartSize(sizes[m.id], m.nth)
        BY <1>1, <2>3, Kinds DEF F
      <4>2. sizes[m.id] \in Nat
        BY <4>1, TypeFacts
      <4> DEFINE siz == sizes[m.id]
                 nth == m.nth
      <4>3. siz \in Nat /\ nth \in 1..PartCount(siz) /\ m.siz = PartSize(siz, nth)
        BY <4>1, <4>2
      <4> HIDE DEF siz, nth
      <4> QED BY <4>3, PartArithmetic
    <3>3. cnt \in Nat
      <4>1. fl.cnt \in Nat /\ Width \in Nat \ {0} /\ Width - 1 \in Nat
        BY <1>2, Constants
      <4> QED BY <3>2, <4>1 DEF Counted
    <3>4. op \in BOOLEAN
      BY <1>2, Zenon
    <3> HIDE DEF cnt, op
    <3>5. file'[c] \in R
      BY <1>2, <3>1, <3>3, <3>4
    <3>6. \A q \in Seq(F) : Append(q, m) \in Seq(F)
      BY <1>1, AppendProperties
    <3>7. disk'[c] \in [Ids -> Seq(F)]
      <4>1. CASE fl.open /\ fl.name \in Ids
        <5>1. Append(disk[c][fl.name], m) \in Seq(F)
          BY <1>2, <3>6, <4>1
        <5> QED BY <1>2, <3>1, <4>1, <5>1
      <4>2. CASE fl.open /\ fl.name \notin Ids
        <5>1. disk[c] \in [Ids -> Seq(F)] /\ disk'[c] = [disk[c] EXCEPT ![fl.name] = Append(@, m)]
          BY <1>2, <3>1, <4>2
        <5>2. disk'[c] = disk[c]
          BY <4>2, <5>1
        <5> QED BY <5>1, <5>2
      <4>3. CASE ~fl.open
        BY <1>2, <3>1, <4>3
      <4> QED BY <4>1, <4>2, <4>3
    <3> QED BY <1>2, <3>1, <3>5, <3>7
  <2>4. m.type \in {\hA0, \hA3, \hA7, \hA9}
    BY <1>1, Kinds DEF F
  <2> QED BY <2>1, <2>2, <2>3, <2>4
<1>5. /\ DOMAIN file' = Clients /\ DOMAIN disk' = Clients /\ DOMAIN failed' = Clients
      /\ file' = [file EXCEPT ![c] = file'[c]] /\ disk' = [disk EXCEPT ![c] = disk'[c]]
      /\ failed' = [failed EXCEPT ![c] = failed'[c]]
  BY <1>2 DEF Receive, ParseFileRequest, ParseFilePartRequest, received
<1> HIDE DEF R, fl
<1>6. /\ file' \in [Clients -> R] /\ disk' \in [Clients -> [Ids -> Seq(F)]]
      /\ failed' \in [Clients -> SUBSET {"written", "counted"}]
  BY <1>2, <1>4, <1>5
<1> QED BY <1>1, <1>6 DEF Types, F, R

-----------------------------------------------------------------------------
(* What the clients received is about the files that were sent: sending    *)
(* another changes nothing of it.                                          *)
LEMMA ReceivedKept ==
    ASSUME Types, Orderly, Landing, Kept, UNCHANGED received,
           Len(sizes) <= Len(sizes'), Len(sizes') \in Nat,
           \A id \in 1..Len(sizes) : sizes'[id] = sizes[id],
           \A id \in 1..Len(sizes') : sizes'[id] \in Nat
    PROVE  (Orderly /\ Landing /\ Kept)'
<1>1. UNCHANGED <<file, disk, failed, log>>
  BY DEF received
<1>2. ASSUME NEW c \in Clients, NEW id \in 1..Len(sizes'), NEW n \in DOMAIN log[c],
             log[c][n].type # \hA0, log[c][n].id = id
      PROVE  id \in 1..Len(sizes) /\ sizes'[id] = sizes[id]
  <2>1. log[c] \in Seq(Frame(sizes))
    BY DEF Types
  <2>2. log[c][n] \in Frame(sizes)
    BY <2>1, QueueDomain
  <2> QED BY <1>2, <2>2, Kinds
<1>3. \A id \in 1..Len(sizes) : FramesOf(id)' = FramesOf(id)
  BY DEF FramesOf
<1>4. \A c \in Clients : DOMAIN log[c] = 1..Len(log[c]) /\ Len(log[c]) \in Nat
  BY QueueDomain DEF Types
<1>5. Orderly'
  <2> SUFFICES ASSUME NEW c \in Clients, ~Mixed(c)' PROVE InStep(c)' /\ failed'[c] = {}
    BY DEF Orderly
  <2>1. ~Mixed(c)
    BY <1>1 DEF Mixed, Follows
  <2>2. InStep(c) /\ failed'[c] = {}
    BY <1>1, <2>1 DEF Orderly
  <2>3. ASSUME log[c] # << >>, NEW id \in 1..Len(sizes'),
               NEW nth \in 1..PartCount(sizes'[id]),
               log[c][Len(log[c])] = Part(id, nth, PartSize(sizes'[id], nth))
        PROVE  Came(c, id, nth + 1)'
    <3>1. Len(log[c]) \in DOMAIN log[c]
      <4>1. log[c] \in Seq(Frame(sizes))
        BY DEF Types
      <4> QED BY <1>4, <2>3, <4>1, EmptySeq
    <3>2. log[c][Len(log[c])].type # \hA0 /\ log[c][Len(log[c])].id = id
      BY <2>3, Fields
    <3>3. id \in 1..Len(sizes) /\ sizes'[id] = sizes[id]
      BY <1>2, <3>1, <3>2
    <3>4. Came(c, id, nth + 1)
      BY <2>2, <2>3, <3>3 DEF InStep
    <3> QED BY <1>1, <1>3, <3>3, <3>4 DEF Came, Ends
  <2> QED BY <1>1, <2>2, <2>3 DEF InStep
<1>6. Landing'
  <2> SUFFICES ASSUME NEW c \in Clients, NEW id \in 1..Len(sizes'),
                      NEW j \in 1..(PartCount(sizes'[id]) + 1), Came(c, id, j)'
               PROVE  Written(c, id, j)'
    BY DEF Landing
  <2>1. id \in 1..Len(sizes) /\ sizes'[id] = sizes[id]
    <3>1. FramesOf(id)' = Frames(id, sizes'[id])
      BY DEF FramesOf, Frames
    <3> DEFINE siz == sizes'[id]
    <3>2. Frames(id, siz)[1] = Offer(id, siz) /\ PartCount(siz) \in Nat
      <4>1. siz \in Nat
        OBVIOUS
      <4> HIDE DEF siz
      <4> QED BY <4>1, FramesAt, PartArithmetic
    <3> DEFINE n == (Len(log[c]) - j) + 1
    <3>3. n \in DOMAIN log[c] /\ log[c][n] = Offer(id, siz)
      <4>1. j <= Len(log[c]) /\ \A i \in 1..j : log[c][(Len(log[c]) - j) + i] = FramesOf(id)'[i]
        BY <1>1 DEF Came, Ends
      <4>2. j \in Nat /\ 1 \in 1..j /\ FramesOf(id)'[1] = Offer(id, siz)
        BY <3>1, <3>2
      <4>3. n \in 1..Len(log[c])
        BY <1>4, <4>1, <4>2
      <4> HIDE DEF n
      <4> QED BY <1>4, <4>1, <4>2, <4>3 DEF n
    <3> HIDE DEF n, siz
    <3>4. log[c][n].type # \hA0 /\ log[c][n].id = id
      BY <3>3 DEF Offer
    <3> QED BY <1>2, <3>3, <3>4
  <2>2. Came(c, id, j)
    BY <1>1, <1>3, <2>1 DEF Came
  <2>3. Written(c, id, j)
    BY <2>1, <2>2 DEF Landing
  <2> QED BY <1>1, <2>1, <2>3 DEF Written
<1>7. Kept'
  <2>1. ASSUME NEW c \in Clients, NEW id \in 1..Len(sizes'), NEW n \in DOMAIN log[c],
               log[c][n] = Text(id), sizes'[id] > 0,
               Ends(log[c], n - 1, FramesOf(id), PartCount(sizes[id]) + 1)'
        PROVE  disk[c][id] = Parts(id, sizes'[id]) /\ (file[c].name = id => ~file[c].open)
    <3>1. id \in 1..Len(sizes) /\ sizes'[id] = sizes[id]
      <4>1. log[c][n].type # \hA0 /\ log[c][n].id = id
        BY <2>1 DEF Text
      <4> QED BY <1>2, <4>1
    <3>2. Ends(log[c], n - 1, FramesOf(id), PartCount(sizes[id]) + 1)
      BY <1>1, <1>3, <2>1, <3>1 DEF Ends
    <3> QED BY <2>1, <3>1, <3>2 DEF Kept
  <2> QED BY <1>1, <2>1 DEF Kept, Ends
<1> QED BY <1>5, <1>6, <1>7

-----------------------------------------------------------------------------
(* A frame more.                                                           *)
LEMMA EndsAppend ==
    ASSUME NEW S, NEW q \in Seq(S), NEW m \in S, NEW frames, NEW j \in Nat, j >= 1
    PROVE  Ends(Append(q, m), Len(Append(q, m)), frames, j)
              <=> m = frames[j] /\ Ends(q, Len(q), frames, j - 1)
<1> DEFINE r == Append(q, m)
           l == Len(q)
<1>1. /\ l \in Nat /\ Len(r) = l + 1
      /\ \A i \in 1..l : r[i] = q[i]
      /\ r[l + 1] = m
  BY AppendProperties, LenProperties
<1> HIDE DEF r, l
<1>2. ASSUME Ends(r, l + 1, frames, j) PROVE m = frames[j] /\ Ends(q, l, frames, j - 1)
  <2>1. j <= l + 1 /\ \A i \in 1..j : r[((l + 1) - j) + i] = frames[i]
    BY <1>2 DEF Ends
  <2>2. m = frames[j]
    <3>1. j \in 1..j /\ ((l + 1) - j) + j = l + 1
      BY <1>1
    <3>2. r[((l + 1) - j) + j] = frames[j]
      BY <2>1, <3>1
    <3> QED BY <1>1, <3>1, <3>2
  <2>3. ASSUME NEW i \in 1..(j - 1) PROVE q[(l - (j - 1)) + i] = frames[i]
    <3>1. i \in 1..j /\ ((l + 1) - j) + i = (l - (j - 1)) + i /\ (l - (j - 1)) + i \in 1..l
      BY <1>1, <2>1
    <3>2. r[((l + 1) - j) + i] = frames[i]
      BY <2>1, <3>1
    <3> QED BY <1>1, <3>1, <3>2
  <2> QED BY <1>1, <2>1, <2>2, <2>3 DEF Ends
<1>3. ASSUME m = frames[j], Ends(q, l, frames, j - 1) PROVE Ends(r, l + 1, frames, j)
  <2>1. j - 1 <= l /\ \A i \in 1..(j - 1) : q[(l - (j - 1)) + i] = frames[i]
    BY <1>3 DEF Ends
  <2>2. ASSUME NEW i \in 1..j PROVE r[((l + 1) - j) + i] = frames[i]
    <3>1. CASE i = j
      <4>1. ((l + 1) - j) + i = l + 1
        BY <1>1, <3>1
      <4> QED BY <1>1, <1>3, <3>1, <4>1
    <3>2. CASE i # j
      <4>1. i \in 1..(j - 1) /\ ((l + 1) - j) + i = (l - (j - 1)) + i
            /\ (l - (j - 1)) + i \in 1..l
        BY <1>1, <2>1, <3>2
      <4>2. q[(l - (j - 1)) + i] = frames[i]
        BY <2>1, <4>1
      <4> QED BY <1>1, <4>1, <4>2
    <3> QED BY <3>1, <3>2
  <2> QED BY <1>1, <2>1, <2>2 DEF Ends
<1> QED BY <1>1, <1>2, <1>3 DEF r, l

LEMMA EndsBefore ==
    ASSUME NEW S, NEW q \in Seq(S), NEW m \in S, NEW frames, NEW k \in Nat,
           NEW n \in 0..Len(q)
    PROVE  Ends(Append(q, m), n, frames, k) <=> Ends(q, n, frames, k)
<1> DEFINE r == Append(q, m)
           l == Len(q)
<1>1. l \in Nat /\ \A i \in 1..l : r[i] = q[i]
  BY AppendProperties, LenProperties
<1>2. n \in 0..l
  OBVIOUS
<1> HIDE DEF r, l
<1>3. \A i \in 1..k : k <= n => (n - k) + i \in 1..l
  BY <1>1, <1>2
<1>4. \A i \in 1..k : k <= n => r[(n - k) + i] = q[(n - k) + i]
  BY <1>1, <1>3
<1>5. Ends(r, n, frames, k) <=> Ends(q, n, frames, k)
  BY <1>4 DEF Ends
<1> QED BY <1>5 DEF r

(* The next part of a file that came in one piece so far.                  *)
LEMMA PartLands ==
    ASSUME Types, NEW c \in Clients, Receive(c), NEW m, m = Head(down[c]), m \in Frame(sizes),
           NEW id \in 1..Len(sizes), NEW nth \in 1..PartCount(sizes[id]),
           m = Part(id, nth, PartSize(sizes[id], nth)), Written(c, id, nth)
    PROVE  Written(c, id, nth + 1)' /\ failed'[c] = failed[c]
<1> DEFINE siz == sizes[id]
           fl  == file[c]
           cnt == Counted(fl, m)
           op  == fl.open /\ ~Complete(fl, cnt)
           done == disk[c][id]
<1>1. /\ siz \in Nat /\ siz < Width /\ UNCHANGED sizes /\ nth \in Nat /\ nth >= 1
      /\ id \in Ids
  <2>1. siz \in Nat /\ siz < Width /\ id \in Ids
    BY TypeFacts
  <2>2. PartCount(siz) \in Nat
    BY <2>1, PartArithmetic
  <2>3. UNCHANGED sizes
    BY DEF Receive, sent
  <2> QED BY <2>1, <2>2, <2>3
<1>2. m.type = \hA9 /\ m.siz = PartSize(siz, nth)
  BY Fields
<1>3. /\ file'[c] = [fl EXCEPT !.cnt = cnt, !.open = op]
      /\ disk'[c] = IF fl.open THEN [disk[c] EXCEPT ![fl.name] = Append(@, m)]
                    ELSE disk[c]
      /\ failed'[c] = failed[c]
            \cup (IF fl.open THEN {} ELSE {"written"})
            \cup (IF Complete(fl, cnt) /\ cnt # fl.size THEN {"counted"} ELSE {})
  BY <1>2, ReceivePart, Zenon
<1> HIDE DEF op
<1>4. /\ fl \in [open : BOOLEAN, name : Ids \cup {None}, cnt : Nat, size : 0..(Width - 1)]
      /\ disk[c] \in [Ids -> Seq(Frame(sizes))] /\ done \in Seq(Frame(sizes))
  BY <1>1 DEF Types
<1>5. /\ (nth - 1) * PartMax < siz /\ (nth - 1) * PartMax \in Nat
      /\ PartSize(siz, nth) \in Nat
      /\ (nth - 1) * PartMax + PartSize(siz, nth) = Upto(siz, nth)
      /\ nth * PartMax \in Nat
  BY <1>1, PartArithmetic
<1>6. Upto(siz, nth) <= siz /\ Upto(siz, nth) \in Nat
  BY <1>1, <1>5 DEF Upto
<1>7. /\ fl.name = id /\ fl.size = siz /\ fl.cnt = (nth - 1) * PartMax
      /\ (fl.open <=> fl.cnt < siz \/ nth = 1)
      /\ Len(done) = nth - 1 /\ \A i \in 1..(nth - 1) : done[i] = Parts(id, siz)[i]
  BY <1>1, <1>5 DEF Written, Upto
<1>8. fl.open
  BY <1>5, <1>7
<1> HIDE DEF siz, fl, done
<1>9. cnt = Upto(siz, nth)
  <2>1. cnt = ((nth - 1) * PartMax + PartSize(siz, nth)) % Width
    BY <1>2, <1>7, <1>8 DEF Counted
  <2>2. cnt = Upto(siz, nth) % Width
    BY <1>5, <2>1
  <2>3. Upto(siz, nth) \in 0..(Width - 1) /\ Width \in Nat \ {0}
    BY <1>1, <1>6, Constants
  <2> QED BY <2>2, <2>3
<1> HIDE DEF cnt
<1>10. failed'[c] = failed[c]
  BY <1>1, <1>3, <1>6, <1>7, <1>8, <1>9 DEF Complete
<1>11. /\ file'[c].name = id /\ file'[c].size = siz /\ file'[c].cnt = Upto(siz, nth)
       /\ file'[c].open <=> Upto(siz, nth) < siz
  <2>1. Complete(fl, cnt) <=> ~(Upto(siz, nth) < siz)
    BY <1>1, <1>6, <1>7, <1>9 DEF Complete
  <2>2. file'[c].open = op
    BY <1>3, <1>4
  <2>3. file'[c].name = fl.name /\ file'[c].size = fl.size /\ file'[c].cnt = cnt
    BY <1>3, <1>4
  <2> QED BY <1>7, <1>8, <1>9, <2>1, <2>2, <2>3 DEF op
<1>12. disk'[c][id] = Append(done, m)
  BY <1>1, <1>3, <1>4, <1>7, <1>8 DEF done
<1>13. /\ Len(disk'[c][id]) = nth
       /\ \A i \in 1..nth : disk'[c][id][i] = Parts(id, siz)[i]
  <2>1. /\ Len(Append(done, m)) = Len(done) + 1
        /\ \A i \in 1..Len(done) : Append(done, m)[i] = done[i]
        /\ Append(done, m)[Len(done) + 1] = m
    BY <1>4, AppendProperties
  <2>2. Parts(id, siz)[nth] = m
    BY <1>1, FramesAt DEF siz
  <2> HIDE DEF siz, done
  <2>3. ASSUME NEW i \in 1..nth PROVE Append(done, m)[i] = Parts(id, siz)[i]
    <3>1. CASE i = nth
      BY <1>1, <1>7, <2>1, <2>2, <3>1
    <3>2. CASE i # nth
      <4>1. i \in 1..(nth - 1) /\ i \in 1..Len(done)
        BY <1>1, <1>7, <3>2
      <4> QED BY <1>7, <2>1, <4>1
    <3> QED BY <3>1, <3>2
  <2> QED BY <1>1, <1>7, <1>12, <2>1, <2>3
<1> QED BY <1>1, <1>10, <1>11, <1>13 DEF Written, siz

(* The frames of a file, by what they are.                                 *)
LEMMA FileFrames ==
    ASSUME Types, NEW id \in 1..Len(sizes)
    PROVE  /\ sizes[id] \in Nat /\ PartCount(sizes[id]) \in Nat
           /\ FramesOf(id)[1] = Offer(id, sizes[id])
           /\ \A k \in 1..PartCount(sizes[id]) :
                 FramesOf(id)[k + 1] = Part(id, k, PartSize(sizes[id], k))
<1> DEFINE siz == sizes[id]
<1>1. siz \in Nat /\ FramesOf(id) = Frames(id, siz)
  BY TypeFacts DEF FramesOf, Frames
<1> HIDE DEF siz
<1>2. PartCount(siz) \in Nat
  BY <1>1, PartArithmetic
<1> DEFINE frames == FramesOf(id)
<1>3. /\ Frames(id, siz)[1] = Offer(id, siz)
      /\ \A k \in 1..PartCount(siz) :
            Frames(id, siz)[k + 1] = Part(id, k, PartSize(siz, k))
  BY <1>1, FramesAt
<1>4. /\ frames[1] = Offer(id, siz)
      /\ \A k \in 1..PartCount(siz) : frames[k + 1] = Part(id, k, PartSize(siz, k))
  BY <1>1, <1>3
<1> HIDE DEF frames
<1> QED BY <1>1, <1>2, <1>4 DEF siz, frames

LEMMA ReceiveLands ==
    ASSUME Types, Landing, NEW c \in Clients, Receive(c),
           NEW m, m = Head(down[c]), m \in Frame(sizes)
    PROVE  Landing'
<1>1. /\ UNCHANGED sizes
      /\ \A d \in Clients \ {c} :
            file'[d] = file[d] /\ disk'[d] = disk[d] /\ log'[d] = log[d]
  BY ReceiveAny
<1>2. \A id \in 1..Len(sizes) : FramesOf(id)' = FramesOf(id)
  BY <1>1 DEF FramesOf
<1>3. log[c] \in Seq(Frame(sizes))
  BY DEF Types
<1> SUFFICES ASSUME NEW d \in Clients, NEW id \in 1..Len(sizes),
                    NEW j \in 1..(PartCount(sizes[id]) + 1), Came(d, id, j)'
             PROVE  Written(d, id, j)'
  BY <1>1 DEF Landing
<1>4. CASE d # c
  <2>1. Came(d, id, j)
    BY <1>1, <1>2, <1>4 DEF Came, Ends
  <2>2. Written(d, id, j)
    BY <2>1 DEF Landing
  <2> QED BY <1>1, <1>4, <2>2 DEF Written
<1>5. CASE d = c /\ m.type = \hA0
  <2>1. log'[c] = log[c] /\ file'[c] = file[c] /\ disk'[c] = disk[c]
    BY <1>5, ReceiveAny
  <2>2. Came(d, id, j)
    BY <1>2, <1>5, <2>1 DEF Came, Ends
  <2>3. Written(d, id, j)
    BY <2>2 DEF Landing
  <2> QED BY <1>1, <1>5, <2>1, <2>3 DEF Written
<1>6. CASE d = c /\ m.type # \hA0
  <2>1. /\ sizes[id] \in Nat /\ PartCount(sizes[id]) \in Nat
        /\ FramesOf(id)[1] = Offer(id, sizes[id])
        /\ \A k \in 1..PartCount(sizes[id]) :
              FramesOf(id)[k + 1] = Part(id, k, PartSize(sizes[id], k))
    BY FileFrames
  <2>2. j \in Nat /\ j >= 1
    BY <2>1
  <2>3. log'[c] = Append(log[c], m)
    BY <1>6, ReceiveAny
  <2>4. Ends(Append(log[c], m), Len(Append(log[c], m)), FramesOf(id), j)
    BY <1>2, <1>6, <2>3 DEF Came, Ends
  <2>5. m = FramesOf(id)[j] /\ Ends(log[c], Len(log[c]), FramesOf(id), j - 1)
    <3> DEFINE q      == log[c]
               frames == FramesOf(id)
               F      == Frame(sizes)
    <3>1. /\ q \in Seq(F) /\ m \in F
          /\ Ends(Append(q, m), Len(Append(q, m)), frames, j)
      BY <1>3, <2>4
    <3> HIDE DEF q, frames, F
    <3>2. m = frames[j] /\ Ends(q, Len(q), frames, j - 1)
      BY <2>2, <3>1, EndsAppend
    <3> QED BY <3>2 DEF q, frames
  <2>6. CASE j = 1
    <3>1. m = Offer(id, sizes[id]) /\ m.type = \hA7 /\ m.id = id /\ m.siz = sizes[id]
      BY <2>1, <2>5, <2>6 DEF Offer
    <3>2. /\ file'[c] = Opened(file[c], m)
          /\ disk'[c] = [disk[c] EXCEPT ![m.id] = << >>]
      BY <3>1, ReceiveOffer
    <3>3. /\ file'[c].open /\ file'[c].name = id
          /\ file'[c].cnt = 0 /\ file'[c].size = sizes[id]
      BY <3>1, <3>2 DEF Opened
    <3>4. disk'[c][id] = << >>
      <4>1. id \in Ids /\ disk[c] \in [Ids -> Seq(Frame(sizes))]
        BY TypeFacts DEF Types
      <4> QED BY <3>1, <3>2, <4>1
    <3>5. Upto(sizes[id], 0) = 0
      <4>1. 0 * PartMax = 0
        BY Constants
      <4> QED BY <2>1, <4>1 DEF Upto
    <3> QED BY <1>1, <1>6, <2>6, <3>3, <3>4, <3>5 DEF Written
  <2>7. CASE j # 1
    <3> DEFINE nth == j - 1
    <3>1. nth \in 1..PartCount(sizes[id]) /\ nth + 1 = j
      BY <2>1, <2>2, <2>7
    <3>2. nth \in 1..(PartCount(sizes[id]) + 1)
      BY <2>1, <3>1
    <3>3. Came(c, id, nth)
      BY <2>5 DEF Came
    <3> HIDE DEF nth
    <3>4. Written(c, id, nth)
      BY <3>2, <3>3 DEF Landing
    <3>5. m = Part(id, nth, PartSize(sizes[id], nth))
      BY <2>1, <2>5, <3>1
    <3>6. Written(c, id, nth + 1)'
      BY <3>1, <3>4, <3>5, PartLands
    <3> QED BY <1>6, <3>1, <3>6
  <2> QED BY <2>6, <2>7
<1> QED BY <1>4, <1>5, <1>6

LEMMA ReceiveOrderly ==
    ASSUME Types, Orderly, Landing, NEW c \in Clients, Receive(c),
           NEW m, m = Head(down[c]), m \in Frame(sizes)
    PROVE  Orderly'
<1> DEFINE q == log[c]
           l == Len(q)
           F == Frame(sizes)
<1>1. /\ UNCHANGED sizes
      /\ \A d \in Clients \ {c} : failed'[d] = failed[d] /\ log'[d] = log[d]
      /\ m.type = \hA0 => log'[c] = log[c] /\ failed'[c] = failed[c]
      /\ m.type # \hA0 => log'[c] = Append(log[c], m)
      /\ m.type \notin {\hA0, \hA9} => failed'[c] = failed[c]
  <2>1. m.type \in {\hA0, \hA3, \hA7, \hA9}
    BY Kinds
  <2>2. m.type = \hA7 => failed'[c] = failed[c]
    BY ReceiveOffer
  <2> QED BY <2>1, <2>2, ReceiveAny
<1>2. \A id \in 1..Len(sizes) : FramesOf(id)' = FramesOf(id)
  BY <1>1 DEF FramesOf
<1>3. /\ q \in Seq(F) /\ l \in Nat /\ DOMAIN q = 1..l /\ \A n \in 1..l : q[n] \in F
  BY QueueDomain DEF Types
<1> SUFFICES ASSUME NEW d \in Clients, ~Mixed(d)' PROVE InStep(d)' /\ failed'[d] = {}
  BY DEF Orderly
<1>4. CASE log'[d] = log[d] /\ failed'[d] = failed[d]
  <2>1. ~Mixed(d)
    BY <1>4 DEF Mixed, Follows
  <2>2. InStep(d) /\ failed[d] = {}
    BY <2>1 DEF Orderly
  <2> QED BY <1>1, <1>2, <1>4, <2>2 DEF InStep, Came, Ends
<1>5. CASE d = c /\ m.type # \hA0
  <2> DEFINE r == log'[c]
  <2>1. /\ r = Append(q, m) /\ Len(r) = l + 1 /\ DOMAIN r = 1..(l + 1)
        /\ \A n \in 1..l : r[n] = q[n]
        /\ r[l + 1] = m
    <3>1. r = Append(q, m)
      BY <1>1, <1>5
    <3>2. Append(q, m) \in Seq(F)
      BY <1>3, AppendProperties
    <3> QED BY <1>3, <3>1, <3>2, AppendProperties, LenProperties
  <2>2. \A n \in 1..(l + 1) : r[n].type = \hA9 =>
           /\ n > 1 /\ r[n - 1].id = r[n].id
           /\ IF r[n].nth = 1 THEN r[n - 1].type = \hA7
              ELSE r[n - 1].type = \hA9 /\ r[n - 1].nth = r[n].nth - 1
    <3>1. \A n \in DOMAIN log'[d] : ~(log'[d][n].type = \hA9 /\ ~Follows(d, n)')
      BY DEF Mixed
    <3>2. \A n \in DOMAIN r : r[n].type = \hA9 => Follows(c, n)'
      BY <1>5, <3>1
    <3> QED BY <2>1, <3>2 DEF Follows
  <2> HIDE DEF r, q, l, F
  <2>3. ~Mixed(c)
    <3> SUFFICES ASSUME NEW n \in 1..l, q[n].type = \hA9 PROVE Follows(c, n)
      BY <1>3 DEF Mixed, q
    <3>1. n \in 1..(l + 1) /\ r[n] = q[n]
      BY <1>3, <2>1
    <3>2. n > 1 => r[n - 1] = q[n - 1]
      <4>1. n > 1 => n - 1 \in 1..l
        BY <1>3
      <4> QED BY <2>1, <4>1
    <3> QED BY <2>2, <3>1, <3>2 DEF Follows, q
  <2>4. InStep(c) /\ failed[c] = {}
    BY <2>3 DEF Orderly
  <2>5. ASSUME NEW id \in 1..Len(sizes), NEW nth \in 1..PartCount(sizes[id]),
               m = Part(id, nth, PartSize(sizes[id], nth))
        PROVE  Came(c, id, nth)
    <3>1. m.type = \hA9 /\ m.id = id /\ m.nth = nth
      BY <2>5 DEF Part
    <3>2. l + 1 \in 1..(l + 1) /\ (l + 1) - 1 = l
      BY <1>3
    <3>3. /\ l >= 1 /\ r[l].id = id
          /\ IF nth = 1 THEN r[l].type = \hA7 ELSE r[l].type = \hA9 /\ r[l].nth = nth - 1
      BY <1>3, <2>1, <2>2, <3>1, <3>2
    <3> DEFINE last == q[l]
    <3>4. last \in F /\ r[l] = last /\ q # << >>
      <4>1. l \in 1..l
        BY <1>3, <3>3
      <4>2. q = << >> => l = 0
        BY DEF l
      <4> QED BY <1>3, <2>1, <3>3, <4>1, <4>2
    <3> HIDE DEF last
    <3>5. /\ sizes[id] \in Nat /\ PartCount(sizes[id]) \in Nat
          /\ FramesOf(id)[1] = Offer(id, sizes[id])
      BY FileFrames
    <3>6. CASE nth = 1
      <4>1. last = Offer(id, sizes[id])
        BY <3>3, <3>4, <3>6, Kinds DEF F
      <4>2. q[(l - 1) + 1] = FramesOf(id)[1]
        BY <1>3, <3>5, <4>1 DEF last
      <4>3. Ends(q, l, FramesOf(id), 1)
        BY <3>3, <4>2 DEF Ends
      <4> QED BY <3>6, <4>3 DEF Came, q, l
    <3>7. CASE nth # 1
      <4> DEFINE prev == nth - 1
      <4>1. prev \in 1..PartCount(sizes[id]) /\ prev + 1 = nth
        BY <3>5, <3>7
      <4>2. last.type = \hA9 /\ last.id = id /\ last.nth = prev
        BY <3>3, <3>4, <3>7
      <4> HIDE DEF prev
      <4>3. last = Part(id, prev, PartSize(sizes[id], prev))
        BY <3>4, <4>2, Kinds DEF F
      <4>4. Came(c, id, prev + 1)
        BY <2>4, <3>4, <4>1, <4>3 DEF InStep, last, q, l
      <4> QED BY <4>1, <4>4
    <3> QED BY <3>6, <3>7
  <2>6. InStep(c)'
    <3> SUFFICES ASSUME NEW id \in 1..Len(sizes), NEW nth \in 1..PartCount(sizes[id]),
                        m = Part(id, nth, PartSize(sizes[id], nth))
                 PROVE  Came(c, id, nth + 1)'
      BY <1>1, <2>1 DEF InStep, r
    <3> DEFINE frames == FramesOf(id)
               j      == nth + 1
    <3>1. /\ PartCount(sizes[id]) \in Nat /\ frames[j] = m
      BY FileFrames
    <3>2. j \in Nat /\ j >= 1 /\ j - 1 = nth
      BY <3>1
    <3>3. Ends(q, l, frames, nth)
      BY <2>5 DEF Came, q, l
    <3> HIDE DEF frames, j
    <3>4. Ends(q, Len(q), frames, j - 1)
      BY <3>2, <3>3 DEF l
    <3>5. Ends(Append(q, m), Len(Append(q, m)), frames, j)
      BY <1>3, <3>1, <3>2, <3>4, EndsAppend DEF F
    <3>6. Ends(r, Len(r), frames, j)
      BY <2>1, <3>5
    <3> QED BY <1>2, <3>6 DEF Came, Ends, frames, j, r
  <2>7. failed'[c] = {}
    <3>1. CASE m.type = \hA9
      <4> DEFINE id == m.id
                 nth == m.nth
      <4>1. /\ id \in 1..Len(sizes) /\ nth \in 1..PartCount(sizes[id])
            /\ m = Part(id, nth, PartSize(sizes[id], nth))
        BY <3>1, Kinds
      <4> HIDE DEF id, nth
      <4>2. Came(c, id, nth)
        BY <2>5, <4>1
      <4>3. nth \in 1..(PartCount(sizes[id]) + 1)
        <5>1. PartCount(sizes[id]) \in Nat
          BY <4>1, FileFrames
        <5> QED BY <4>1, <5>1
      <4>4. Written(c, id, nth)
        BY <4>1, <4>2, <4>3 DEF Landing
      <4> QED BY <2>4, <4>1, <4>4, PartLands
    <3>2. CASE m.type # \hA9
      BY <1>1, <1>5, <2>4, <3>2
    <3> QED BY <3>1, <3>2
  <2> QED BY <1>5, <2>6, <2>7
<1> QED BY <1>1, <1>4, <1>5

(* What came in one piece is not touched again: its offer came, and does   *)
(* not come again; and a part is written to another file, or to none.      *)
LEMMA ReceiveKept ==
    ASSUME Types, OfferedOnce, Landing, Kept, NEW c \in Clients, Receive(c),
           NEW m, m = Head(down[c]), m \in Frame(sizes)
    PROVE  Kept'
<1> DEFINE q == log[c]
           l == Len(q)
           F == Frame(sizes)
<1>1. /\ UNCHANGED sizes
      /\ \A d \in Clients \ {c} :
            file'[d] = file[d] /\ disk'[d] = disk[d] /\ log'[d] = log[d]
      /\ m.type \in {\hA0, \hA3} => file'[c] = file[c] /\ disk'[c] = disk[c]
      /\ m.type = \hA0 => log'[c] = log[c]
      /\ m.type # \hA0 => log'[c] = Append(log[c], m)
  BY ReceiveAny
<1>2. \A id \in 1..Len(sizes) : FramesOf(id)' = FramesOf(id)
  BY <1>1 DEF FramesOf
<1>3. /\ q \in Seq(F) /\ l \in Nat /\ DOMAIN q = 1..l /\ \A n \in 1..l : q[n] \in F
  BY QueueDomain DEF Types
<1> SUFFICES ASSUME NEW d \in Clients, NEW id \in 1..Len(sizes), NEW n \in DOMAIN log'[d],
                    log'[d][n] = Text(id), sizes[id] > 0,
                    Ends(log'[d], n - 1, FramesOf(id), PartCount(sizes[id]) + 1)
             PROVE  /\ disk'[d][id] = Parts(id, sizes[id])
                    /\ file'[d].name = id => ~file'[d].open
  BY <1>1, <1>2 DEF Kept, Ends
<1>4. CASE log'[d] = log[d] /\ disk'[d] = disk[d] /\ file'[d] = file[d]
  BY <1>4 DEF Kept
<1> DEFINE siz == sizes[id]
           k   == PartCount(siz) + 1
<1>5. /\ siz \in Nat /\ k \in Nat /\ k >= 1 /\ siz > 0
      /\ FramesOf(id)[1] = Offer(id, siz)
      /\ id \in Ids /\ PartCount(siz) >= 1 /\ PartCount(siz) * PartMax >= siz
      /\ PartCount(siz) \in Nat /\ PartCount(siz) * PartMax \in Nat
  <2>1. siz \in Nat /\ PartCount(siz) \in Nat /\ FramesOf(id)[1] = Offer(id, siz)
    BY FileFrames
  <2>2. siz > 0 /\ id \in Ids
    BY TypeFacts
  <2> HIDE DEF siz
  <2>3. PartCount(siz) >= 1 /\ siz <= PartCount(siz) * PartMax
    BY <2>1, <2>2, PartArithmetic
  <2> QED BY <2>1, <2>2, <2>3, Constants
<1>6. CASE d = c /\ m.type # \hA0
  <2> DEFINE r == log'[c]
  <2>1. /\ r = Append(q, m) /\ Len(r) = l + 1 /\ DOMAIN r = 1..(l + 1)
        /\ \A i \in 1..l : r[i] = q[i]
        /\ r[l + 1] = m
    <3>1. r = Append(q, m)
      BY <1>1, <1>6
    <3>2. Append(q, m) \in Seq(F)
      BY <1>3, AppendProperties
    <3> QED BY <1>3, <3>1, <3>2, AppendProperties, LenProperties
  <2>2. /\ n \in 1..(l + 1) /\ r[n] = Text(id) /\ n - 1 \in 0..l /\ n - 1 \in Nat
        /\ Ends(r, n - 1, FramesOf(id), k)
    BY <1>3, <1>6, <2>1
  <2> HIDE DEF r, q, l, F, siz, k
  <2> DEFINE b == n - 1
             frames == FramesOf(id)
  <2>3. Ends(q, b, frames, k)
    <3>1. b \in 0..Len(q) /\ Ends(Append(q, m), b, frames, k)
      BY <2>1, <2>2 DEF l
    <3> HIDE DEF b, frames
    <3> QED BY <1>3, <1>5, <3>1, EndsBefore DEF F
  <2>4. CASE n = l + 1
    <3>1. m = Text(id) /\ m.type = \hA3 /\ b = l
      BY <1>3, <2>1, <2>2, <2>4 DEF Text
    <3>2. file'[c] = file[c] /\ disk'[c] = disk[c]
      BY <1>1, <3>1
    <3>3. Came(c, id, k)
      BY <2>3, <3>1 DEF Came, q, l
    <3>4. k \in 1..(PartCount(sizes[id]) + 1)
      BY <1>5 DEF k, siz
    <3>5. Written(c, id, k)
      BY <3>3, <3>4 DEF Landing
    <3>6. k - 1 = PartCount(siz) /\ k # 1 /\ Upto(siz, PartCount(siz)) = siz
      BY <1>5 DEF k, Upto
    <3>7. /\ Len(disk[c][id]) = PartCount(siz)
          /\ \A i \in 1..PartCount(siz) : disk[c][id][i] = Parts(id, siz)[i]
          /\ ~file[c].open
      BY <1>5, <3>5, <3>6 DEF Written, siz
    <3>8. /\ disk[c][id] \in Seq(F)
          /\ Parts(id, siz) \in Seq(F) /\ Len(Parts(id, siz)) = PartCount(siz)
      <4>1. disk[c][id] \in Seq(F)
        BY <1>5 DEF Types, F
      <4>2. /\ Offer(id, siz) \in F
            /\ \A nth \in 1..PartCount(siz) : Part(id, nth, PartSize(siz, nth)) \in F
        BY OfferIsFrame DEF F, siz
      <4> QED BY <1>5, <4>1, <4>2, FramesAt
    <3>9. disk[c][id] = Parts(id, siz)
      BY <3>7, <3>8, SeqEqual
    <3> QED BY <1>6, <3>2, <3>7, <3>9 DEF siz
  <2>5. CASE n # l + 1
    <3>1. n \in 1..l /\ q[n] = Text(id)
      BY <1>3, <2>1, <2>2, <2>5
    <3>2. disk[c][id] = Parts(id, siz) /\ (file[c].name = id => ~file[c].open)
      BY <1>3, <1>5, <2>3, <3>1 DEF Kept, q, k, siz, b, frames
    <3>3. id \in Offers(q)
      <4> DEFINE i == (b - k) + 1
      <4>1. i \in 1..l /\ q[i] = Offer(id, siz)
        <5>1. k <= b /\ \A a \in 1..k : q[(b - k) + a] = frames[a]
          BY <2>3 DEF Ends
        <5>2. 1 \in 1..k /\ b \in 0..l
          BY <1>5, <2>2
        <5>3. q[(b - k) + 1] = frames[1]
          BY <5>1, <5>2
        <5> HIDE DEF b
        <5>4. (b - k) + 1 \in 1..l
          BY <1>3, <1>5, <5>1, <5>2
        <5> QED BY <1>5, <5>3, <5>4
      <4> HIDE DEF i
      <4>2. q[i].type = \hA7 /\ q[i].id = id
        BY <4>1 DEF Offer
      <4> QED BY <1>3, <1>5, <4>1, <4>2 DEF Offers
    <3>4. m.type = \hA7 => m.id # id
      <4> SUFFICES ASSUME m.type = \hA7 PROVE m.id # id
        OBVIOUS
      <4>1. down[c] \in Seq(F) /\ down[c] # << >>
        BY DEF Types, Receive, F
      <4>2. m.id \in Ids
        BY TypeFacts
      <4>3. m.id \in Offers(down[c])
        BY <4>1, <4>2, TailOffers
      <4>4. Offers(down[c]) \cap Offers(q) = {}
        BY DEF OfferedOnce, q
      <4> QED BY <3>3, <4>3, <4>4
    <3>5. disk[c] \in [Ids -> Seq(F)]
      BY DEF Types, F
    <3>6. CASE m.type = \hA3
      BY <1>1, <1>6, <3>2, <3>6 DEF siz
    <3>7. CASE m.type = \hA7
      <4>1. /\ file'[c] = Opened(file[c], m)
            /\ disk'[c] = [disk[c] EXCEPT ![m.id] = << >>]
        BY <3>7, ReceiveOffer
      <4>2. disk'[c][id] = disk[c][id] /\ file'[c].name # id
        BY <1>5, <3>4, <3>5, <3>7, <4>1 DEF Opened
      <4> QED BY <1>6, <3>2, <4>2 DEF siz
    <3>8. CASE m.type = \hA9
      <4>1. disk'[c][id] = disk[c][id] /\ (file'[c].name = id => ~file'[c].open)
        BY <1>5, <3>2, <3>8, PartSpares
      <4> QED BY <1>6, <3>2, <4>1 DEF siz
    <3> QED BY <1>6, <3>6, <3>7, <3>8, Kinds
  <2> QED BY <2>4, <2>5
<1> QED BY <1>1, <1>4, <1>6

-----------------------------------------------------------------------------
(* The invariant, step by step.                                            *)
LEMMA InitFInv == Init => FInv
<1> SUFFICES ASSUME Init PROVE FInv
  OBVIOUS
<1>1. /\ sizes = << >> /\ up = [s \in Senders |-> << >>] /\ session = None
      /\ down = [c \in Clients |-> << >>] /\ file \in [Clients -> Untouched]
      /\ disk = [c \in Clients |-> [id \in Ids |-> << >>]]
      /\ failed = [c \in Clients |-> {}] /\ log = [c \in Clients |-> << >>]
  BY DEF Init
<1>2. /\ << >> \in Seq(Sizes) /\ << >> \in Seq(Frame(sizes)) /\ Len(<< >>) = 0
      /\ DOMAIN << >> = {}
  BY EmptySeq
<1>3. Types
  <2>1. Untouched \subseteq [open : BOOLEAN, name : Ids \cup {None},
                             cnt : Nat, size : 0..(Width - 1)]
    <3>1. 0 \in Nat /\ Width - 1 \in Nat /\ 0 \in 0..(Width - 1)
          /\ Width - 1 \in 0..(Width - 1)
      BY Constants
    <3> QED BY <3>1 DEF Untouched
  <2>2. file \in [Clients -> [open : BOOLEAN, name : Ids \cup {None},
                              cnt : Nat, size : 0..(Width - 1)]]
    BY <1>1, <2>1
  <2>3. Len(sizes) <= MaxFiles
    BY <1>1, <1>2, Constants
  <2> QED BY <1>1, <1>2, <2>2, <2>3 DEF Types
<1>4. OfferedOnce
  BY <1>1, NoOffers DEF OfferedOnce
<1>5. Orderly
  BY <1>1 DEF Orderly, InStep
<1>6. Landing
  BY <1>1, <1>2 DEF Landing
<1>7. Kept
  BY <1>1, <1>2 DEF Kept
<1> QED BY <1>3, <1>4, <1>5, <1>6, <1>7 DEF FInv

LEMMA NextFInv == FInv /\ [Next]_vars => FInv'
<1> SUFFICES ASSUME FInv, [Next]_vars PROVE FInv'
  OBVIOUS
<1>1. Types /\ OfferedOnce /\ Orderly /\ Landing /\ Kept
  BY DEF FInv
<1>2. /\ Len(sizes) \in Nat /\ \A id \in 1..Len(sizes) : sizes[id] \in Nat
  BY <1>1, TypeFacts
<1>3. ASSUME UNCHANGED <<sizes, received>>, (Types /\ OfferedOnce)' PROVE FInv'
  <2>1. (Orderly /\ Landing /\ Kept)'
    BY <1>1, <1>2, <1>3, ReceivedKept
  <2> QED BY <1>3, <2>1 DEF FInv
<1>4. ASSUME NEW s \in Senders, NEW siz \in Sizes, SendFile(s, siz) PROVE FInv'
  <2>1. (Types /\ OfferedOnce)'
    BY <1>1, <1>4, SendFileQueues
  <2>2. /\ sizes' \in Seq(Sizes) /\ Len(sizes') = Len(sizes) + 1
        /\ \A id \in 1..Len(sizes) : sizes'[id] = sizes[id]
    BY <1>1, <1>4, SendQueue
  <2>3. \A id \in 1..Len(sizes') : sizes'[id] \in Nat
    BY <2>2, Constants, ElementOfSeq
  <2>4. UNCHANGED received
    BY <1>4 DEF SendFile
  <2>5. Len(sizes) <= Len(sizes') /\ Len(sizes') \in Nat
    BY <1>2, <2>2
  <2>6. (Orderly /\ Landing /\ Kept)'
    BY <1>1, <2>2, <2>3, <2>4, <2>5, ReceivedKept
  <2> QED BY <2>1, <2>6 DEF FInv
<1>5. ASSUME NEW s \in Senders, SenderLost(s) PROVE FInv'
  BY <1>1, <1>3, <1>5, SenderLostQueues DEF SenderLost
<1>6. ASSUME NEW s \in Senders, Forward(s) PROVE FInv'
  BY <1>1, <1>3, <1>6, ForwardQueues DEF Forward
<1>7. ASSUME NEW s \in Senders, ReceiverOffline(s) PROVE FInv'
  BY <1>1, <1>3, <1>7, ReceiverOfflineQueues DEF ReceiverOffline
<1>8. ASSUME NEW c \in Clients, TakeSession(c) PROVE FInv'
  BY <1>1, <1>3, <1>8, TakeSessionQueues DEF TakeSession, sent
<1>9. ASSUME NEW c \in Clients, ReceiverLost(c) PROVE FInv'
  BY <1>1, <1>3, <1>9, ReceiverLostQueues DEF ReceiverLost, sent
<1>10. ASSUME NEW c \in Clients, Receive(c) PROVE FInv'
  <2> DEFINE m == Head(down[c])
  <2>1. m \in Frame(sizes) /\ OfferedOnce'
    BY <1>1, <1>10, ReceiveOffers
  <2>2. Types'
    BY <1>1, <1>10, ReceiveTypes
  <2>3. (Orderly /\ Landing /\ Kept)'
    BY <1>1, <1>10, <2>1, ReceiveOrderly, ReceiveLands, ReceiveKept
  <2> QED BY <2>1, <2>2, <2>3 DEF FInv
<1>11. CASE UNCHANGED vars
  <2>1. UNCHANGED <<sizes, up, session, down, file, disk, failed, log>>
    BY <1>11 DEF vars, sent, received
  <2>2. (Types /\ OfferedOnce)'
    BY <1>1, <2>1 DEF Types, OfferedOnce
  <2> QED BY <1>3, <2>1, <2>2 DEF received
<1> QED BY <1>4, <1>5, <1>6, <1>7, <1>8, <1>9, <1>10, <1>11 DEF Next

LEMMA Invariant == Spec => []FInv
BY InitFInv, NextFInv, PTL DEF Spec

-----------------------------------------------------------------------------
(* The results.                                                            *)

(* The types of all variables: only frames of files that were sent are in  *)
(* a queue, in a log or on a disk (the whole of the model's state).        *)
THEOREM TypeCorrect == Spec => []Types
BY Invariant, PTL DEF FInv

(* An offer comes to a client at most once, and one that came is nowhere   *)
(* else (sendFile writes it once; the server forwards each frame once).    *)
THEOREM EachOfferOnce == Spec => []OfferedOnce
BY Invariant, PTL DEF FInv

(* A file whose frames came in one piece before the text that names it is  *)
(* on the disk whole and closed, and stays so (parseFileRequest,           *)
(* parseFilePartRequest).                                                  *)
THEOREM WholeFilesStay == Spec => []WholeWhenNamed
<1>1. FInv => WholeWhenNamed
  <2> SUFFICES ASSUME FInv, NEW c \in Clients, NEW n \in DOMAIN log[c],
                      log[c][n].type = \hA3, InOnePiece(c, n), sizes[log[c][n].id] > 0
               PROVE  /\ disk[c][log[c][n].id] = Parts(log[c][n].id, sizes[log[c][n].id])
                      /\ file[c].name = log[c][n].id => ~file[c].open
    BY DEF WholeWhenNamed
  <2> DEFINE q      == log[c]
             F      == Frame(sizes)
             id     == q[n].id
             frames == FramesOf(id)
             k      == PartCount(sizes[id]) + 1
  <2>1. Types /\ Kept
    BY DEF FInv
  <2>2. q \in Seq(F) /\ Len(q) \in Nat /\ n \in 1..Len(q) /\ q[n] \in F
    BY <2>1, QueueDomain DEF Types
  <2>3. id \in 1..Len(sizes) /\ q[n] = Text(id)
    <3>1. q[n].type = \hA3
      OBVIOUS
    <3> HIDE DEF q
    <3> QED BY <2>2, <3>1, Kinds DEF F
  <2>4. PartCount(sizes[id]) \in Nat /\ frames \in Seq(F) /\ Len(frames) = k
    <3> DEFINE siz == sizes[id]
    <3>1. siz \in Nat /\ PartCount(siz) \in Nat
      BY <2>1, <2>3, FileFrames
    <3>2. /\ Offer(id, siz) \in F
          /\ \A nth \in 1..PartCount(siz) : Part(id, nth, PartSize(siz, nth)) \in F
      BY <2>3, OfferIsFrame
    <3>3. frames = Frames(id, siz)
      BY DEF FramesOf, Frames
    <3> HIDE DEF siz, F, id, frames
    <3>4. Frames(id, siz) \in Seq(F) /\ Len(Frames(id, siz)) = PartCount(siz) + 1
      BY <3>1, <3>2, FramesAt
    <3> QED BY <3>1, <3>3, <3>4 DEF siz
  <2>5. n > k /\ SubSeq(q, n - k, n - 1) = frames
    BY <2>4 DEF InOnePiece
  <2> HIDE DEF q, F, id, frames, k
  <2>6. Ends(q, n - 1, frames, k)
    <3> DEFINE a == n - k
               b == n - 1
    <3>1. k \in Nat /\ k >= 1 /\ k < n /\ n \in 1..Len(q) /\ Len(q) \in Nat
      BY <2>2, <2>4, <2>5 DEF k
    <3>2. /\ a \in 1..Len(q) /\ b \in 1..Len(q)
          /\ (b - a) + 1 = k /\ b - k = a - 1 /\ k <= b
      BY <3>1
    <3>5. SubSeq(q, a, b) = frames
      BY <2>5
    <3> HIDE DEF a, b
    <3>3. \A i \in 1..((b - a) + 1) : SubSeq(q, a, b)[i] = q[(a + i) - 1]
      <4>1. \A i \in a..b : q[i] \in F
        BY <2>2, <3>1, <3>2, ElementOfSeq
      <4> QED BY <3>2, <4>1, SubSeqProperties
    <3>4. \A i \in 1..k : q[(b - k) + i] = frames[i]
      <4> SUFFICES ASSUME NEW i \in 1..k PROVE q[(b - k) + i] = frames[i]
        OBVIOUS
      <4>1. (a + i) - 1 = (b - k) + i
        BY <3>1, <3>2
      <4> QED BY <3>1, <3>2, <3>3, <3>5, <4>1
    <3> QED BY <3>2, <3>4 DEF Ends, b
  <2> QED BY <2>1, <2>2, <2>3, <2>6 DEF Kept, q, id, frames, k
<1> QED BY <1>1, Invariant, PTL

(* The asserts at TcpClient.cpp:756 and 760 fail only in a client to which *)
(* a part came that did not follow the offer or the part before it.        *)
THEOREM AssertsFailOnlyWhenMixed == Spec => []AssertsNeedMixing
<1>1. FInv => AssertsNeedMixing
  BY DEF FInv, Orderly, Mixed, AssertsNeedMixing
<1> QED BY <1>1, Invariant, PTL
=============================================================================
