----------------------------- MODULE HelloProofs -----------------------------
(***************************************************************************)
(* The echo alters no message: for any devices, any topics and any number  *)
(* of messages, answers, replays and broken connections.                   *)
(***************************************************************************)
EXTENDS HelloEcho, SequenceTheorems, FiniteSetTheorems, TLAPS

Topics   == UNION {Rotations(x.topic) : x \in Injections}
Messages == [topic: Topics, id: 1 .. MaxSent, retain: BOOLEAN]

(* A message is an echo of one of the messages s that clients have sent.    *)
EchoIn(s, m) ==
  /\ m \in Messages
  /\ m.id \in 1 .. Len(s)
  /\ m.topic \in Rotations(s[m.id].topic)
  /\ m.retain => s[m.id].retain

(* The broker has put a message only into the box of its first level.       *)
BoxOK(s, box) ==
  /\ box \in [Devices -> Seq(Messages)]
  /\ \A d \in Devices : \A n \in 1 .. Len(box[d]) :
       EchoIn(s, box[d][n]) /\ box[d][n].topic[1] = d

StoreOK(s, store) ==
  /\ IsFiniteSet(store)
  /\ \A m \in store : EchoIn(s, m) /\ m.retain

CountInv ==
  /\ up \in [Devices -> BOOLEAN]
  /\ sent \in Seq(Injections) /\ Len(sent) <= MaxSent
  /\ replays \in [1 .. MaxSent -> 0 .. MaxReplays]

IInv == CountInv /\ BoxOK(sent, inbox) /\ StoreOK(sent, retained)

-----------------------------------------------------------------------------
(* Rotations.                                                               *)

LEMMA RotationIs ==
  ASSUME NEW S, NEW t \in Seq(S), t # <<>>, NEW i \in 0 .. Len(t) - 1
  PROVE  /\ Rotation(t, i) \in Seq(S)
         /\ Len(Rotation(t, i)) = Len(t)
         /\ \A k \in 1 .. Len(t) :
              Rotation(t, i)[k] = IF k + i <= Len(t) THEN t[k + i] ELSE t[k + i - Len(t)]
<1> DEFINE u == SubSeq(t, i + 1, Len(t))
           v == SubSeq(t, 1, i)
<1>0. Len(t) \in Nat \ {0} /\ i \in Int /\ \A k \in 1 .. Len(t) : t[k] \in S
      BY EmptySeq, ElementOfSeq
<1>1. /\ u \in Seq(S) /\ Len(u) = Len(t) - i
      /\ \A k \in 1 .. Len(t) - i : u[k] = t[k + i]
  <2>1. i + 1 \in Int /\ Len(t) \in Int /\ \A k \in i + 1 .. Len(t) : t[k] \in S
        BY <1>0
  <2>2. /\ u \in Seq(S) /\ Len(u) = IF i + 1 <= Len(t) THEN Len(t) - (i + 1) + 1 ELSE 0
        /\ \A k \in 1 .. Len(t) - (i + 1) + 1 : u[k] = t[i + 1 + k - 1]
        BY <2>1, SubSeqProperties
  <2> QED
      BY <1>0, <2>2
<1>2. v \in Seq(S) /\ Len(v) = i /\ \A k \in 1 .. i : v[k] = t[k]
  <2>1. \A k \in 1 .. i : t[k] \in S
        BY <1>0
  <2>2. /\ v \in Seq(S) /\ Len(v) = IF 1 <= i THEN i - 1 + 1 ELSE 0
        /\ \A k \in 1 .. i - 1 + 1 : v[k] = t[1 + k - 1]
        BY <1>0, <2>1, SubSeqProperties
  <2> QED
      BY <1>0, <2>2
<1>3. /\ u \o v \in Seq(S) /\ Len(u \o v) = Len(u) + Len(v)
      /\ \A k \in 1 .. Len(u) + Len(v) :
           (u \o v)[k] = IF k <= Len(u) THEN u[k] ELSE v[k - Len(u)]
      BY <1>1, <1>2, ConcatProperties
<1>4. Rotation(t, i) = u \o v
      BY DEF Rotation
<1> HIDE DEF u, v
<1>5. Rotation(t, i) \in Seq(S) /\ Len(Rotation(t, i)) = Len(t)
  <2>1. Len(u) + Len(v) = Len(t)
        BY <1>0, <1>1, <1>2
  <2> QED
      BY <1>3, <1>4, <2>1
<1>6. ASSUME NEW k \in 1 .. Len(t)
      PROVE  Rotation(t, i)[k] = IF k + i <= Len(t) THEN t[k + i] ELSE t[k + i - Len(t)]
  <2>1. Rotation(t, i)[k] = IF k <= Len(t) - i THEN u[k] ELSE v[k - (Len(t) - i)]
        BY <1>0, <1>1, <1>2, <1>3, <1>4
  <2>2. CASE k <= Len(t) - i
        BY <1>0, <1>1, <2>1, <2>2
  <2>3. CASE k > Len(t) - i
    <3>1. k - (Len(t) - i) \in 1 .. i /\ k - (Len(t) - i) = k + i - Len(t)
          BY <1>0, <2>3
    <3> QED
        BY <1>0, <1>2, <2>1, <2>3, <3>1
  <2> QED
      BY <1>0, <2>2, <2>3
<1> QED
    BY <1>5, <1>6

(* What an answer does to a topic: its first level goes to the end.         *)
LEMMA AnswerRotates ==
  ASSUME NEW S, NEW t \in Seq(S), t # <<>>, NEW r \in Rotations(t)
  PROVE  Append(Tail(r), r[1]) \in Rotations(t)
<1>1. PICK i \in 0 .. Len(t) - 1 : r = Rotation(t, i)
      BY DEF Rotations
<1>2. Len(t) \in Nat \ {0}
      BY EmptySeq
<1> DEFINE j == IF i + 1 < Len(t) THEN i + 1 ELSE 0
           a == Append(Tail(r), r[1])
<1>3. /\ r \in Seq(S) /\ Len(r) = Len(t)
      /\ \A k \in 1 .. Len(t) : r[k] = IF k + i <= Len(t) THEN t[k + i] ELSE t[k + i - Len(t)]
      BY <1>1, RotationIs
<1>4. j \in 0 .. Len(t) - 1
      BY <1>2
<1>5. /\ Rotation(t, j) \in Seq(S) /\ Len(Rotation(t, j)) = Len(t)
      /\ \A k \in 1 .. Len(t) :
           Rotation(t, j)[k] = IF k + j <= Len(t) THEN t[k + j] ELSE t[k + j - Len(t)]
      BY <1>4, RotationIs
<1>6. r # <<>> /\ r[1] \in S
      BY <1>2, <1>3, ElementOfSeq
<1>7. /\ Tail(r) \in Seq(S) /\ Len(Tail(r)) = Len(t) - 1
      /\ \A k \in 1 .. Len(t) - 1 : Tail(r)[k] = r[k + 1]
      BY <1>3, <1>6, HeadTailProperties
<1>8. /\ a \in Seq(S) /\ Len(a) = Len(t)
      /\ \A k \in 1 .. Len(t) : a[k] = IF k < Len(t) THEN r[k + 1] ELSE r[1]
      BY <1>2, <1>6, <1>7
<1>8a. \/ i + 1 < Len(t) /\ j = i + 1
       \/ i + 1 = Len(t) /\ j = 0
      BY <1>2
<1> HIDE DEF a, j
<1>9. ASSUME NEW k \in 1 .. Len(t) PROVE a[k] = Rotation(t, j)[k]
  <2> USE <1>2
  <2>1. CASE k < Len(t)
    <3>1. k + 1 \in 1 .. Len(t) /\ a[k] = r[k + 1]
          BY <1>8, <2>1
    <3>2. a[k] = IF k + 1 + i <= Len(t) THEN t[k + 1 + i] ELSE t[k + 1 + i - Len(t)]
          BY <1>3, <3>1
    <3>3. CASE i + 1 < Len(t) /\ j = i + 1
      <4>1. k + j = k + 1 + i /\ k + j - Len(t) = k + 1 + i - Len(t)
            BY <3>3
      <4> QED
          BY <1>5, <3>2, <4>1
    <3>4. CASE i + 1 = Len(t) /\ j = 0
      <4>1. k + 1 + i > Len(t) /\ k + 1 + i - Len(t) = k /\ k + j = k
            BY <3>4
      <4> QED
          BY <1>5, <3>2, <4>1
    <3> QED
        BY <1>8a, <3>3, <3>4
  <2>2. CASE k = Len(t)
    <3>1. a[k] = r[1] /\ r[1] = t[1 + i]
          BY <1>3, <1>8, <2>2
    <3>2. \/ k + j > Len(t) /\ k + j - Len(t) = i + 1
          \/ k + j = Len(t) /\ i + 1 = Len(t)
          BY <1>8a, <2>2
    <3>3. CASE k + j > Len(t) /\ k + j - Len(t) = i + 1
      <4>1. Rotation(t, j)[k] = t[k + j - Len(t)]
            BY <1>4, <1>5, <3>3
      <4> QED
          BY <3>1, <3>3, <4>1
    <3>4. CASE k + j = Len(t) /\ i + 1 = Len(t)
      <4>1. Rotation(t, j)[k] = t[k + j]
            BY <1>4, <1>5, <3>4
      <4> QED
          BY <3>1, <3>4, <4>1
    <3> QED
        BY <3>2, <3>3, <3>4
  <2> QED
      BY <2>1, <2>2
<1>10. a = Rotation(t, j)
       BY <1>5, <1>8, <1>9, SeqEqual
<1> QED
    BY <1>4, <1>10 DEF Rotations, a

-----------------------------------------------------------------------------
(* Messages.                                                                *)

(* The topics of an injection and of an echo are sequences with a level.    *)
LEMMA TopicFacts ==
  ASSUME NEW x \in Injections
  PROVE  /\ x.topic \in Rotations(x.topic)
         /\ \A r \in Rotations(x.topic) :
              r \in Topics /\ r \in Seq(Range(x.topic)) /\ r # <<>>
<1> DEFINE t == x.topic
           S == Range(x.topic)
<1>1. t \in Seq(S) /\ t # <<>>
      BY TopicsOK
<1>2. Len(t) \in Nat \ {0} /\ 0 \in 0 .. Len(t) - 1
      BY <1>1, EmptySeq
<1>3. Rotation(t, 0) = t
  <2>1. SubSeq(t, 0 + 1, Len(t)) = t
        BY <1>1, SubSeqFull
  <2>2. SubSeq(t, 1, 0) = <<>>
        BY SubSeqEmpty
  <2>3. t \o <<>> = t
        BY <1>1, ConcatEmptySeq
  <2> QED
      BY <2>1, <2>2, <2>3 DEF Rotation
<1>4. t \in Rotations(t)
      BY <1>2, <1>3 DEF Rotations
<1>5. ASSUME NEW r \in Rotations(t) PROVE r \in Topics /\ r \in Seq(S) /\ r # <<>>
  <2>1. PICK i \in 0 .. Len(t) - 1 : r = Rotation(t, i)
        BY DEF Rotations
  <2>2. r \in Seq(S) /\ Len(r) = Len(t)
        BY <1>1, <2>1, RotationIs
  <2>3. r \in Topics
        BY DEF Topics
  <2> QED
      BY <1>2, <2>2, <2>3, EmptySeq
<1> QED
    BY <1>4, <1>5

LEMMA FreshIsEcho ==
  ASSUME NEW s \in Seq(Injections), NEW x \in Injections, Len(s) < MaxSent
  PROVE  EchoIn(Append(s, x), Msg(x.topic, Len(s) + 1, x.retain))
<1> DEFINE m == Msg(x.topic, Len(s) + 1, x.retain)
<1>1. Len(s) \in Nat /\ Len(Append(s, x)) = Len(s) + 1 /\ Append(s, x)[Len(s) + 1] = x
      OBVIOUS
<1>2. m.topic = x.topic /\ m.id = Len(s) + 1 /\ m.retain = x.retain
      BY DEF Msg
<1>3. x.topic \in Topics /\ x.topic \in Rotations(x.topic) /\ x.retain \in BOOLEAN
      BY TopicFacts, TopicsOK
<1>4. Len(s) + 1 \in 1 .. MaxSent
      BY <1>1, BoundsOK
<1>5. m \in Messages
      BY <1>3, <1>4 DEF Msg, Messages
<1> HIDE DEF m
<1> QED
    BY <1>1, <1>2, <1>3, <1>5 DEF EchoIn, m

LEMMA EchoLasts ==
  ASSUME NEW s \in Seq(Injections), NEW x \in Injections, NEW m, EchoIn(s, m)
  PROVE  EchoIn(Append(s, x), m)
<1>1. /\ Len(s) \in Nat /\ Len(Append(s, x)) = Len(s) + 1
      /\ m.id \in 1 .. Len(s) => Append(s, x)[m.id] = s[m.id]
      OBVIOUS
<1> QED
    BY <1>1 DEF EchoIn

LEMMA ReplyIsEcho ==
  ASSUME NEW s \in Seq(Injections), NEW m, EchoIn(s, m)
  PROVE  EchoIn(s, Reply(m.topic[1], m)) /\ Reply(m.topic[1], m).retain = m.retain
<1> DEFINE x == s[m.id]
           t == Append(Tail(m.topic), m.topic[1])
           r == Reply(m.topic[1], m)
<1>1. x \in Injections /\ m.topic \in Rotations(x.topic) /\ m \in Messages
      BY ElementOfSeq DEF EchoIn
<1>2. x.topic \in Seq(Range(x.topic)) /\ x.topic # <<>>
      BY <1>1, TopicsOK
<1> HIDE DEF x
<1>3. t \in Rotations(x.topic)
      BY <1>1, <1>2, AnswerRotates
<1>4. t \in Topics
      BY <1>1, <1>3, TopicFacts
<1>5. r.topic = t /\ r.id = m.id /\ r.retain = m.retain
      BY DEF Reply, Msg
<1>6. r \in Messages
  <2>1. m.id \in 1 .. MaxSent /\ m.retain \in BOOLEAN
        BY <1>1 DEF Messages
  <2> HIDE DEF t
  <2> QED
      BY <1>4, <2>1 DEF Reply, Msg, Messages, t
<1> HIDE DEF r, t
<1> QED
    BY <1>3, <1>5, <1>6 DEF EchoIn, x, r

(* The broker keeps both of its promises for every echo published.          *)
LEMMA BrokerKeeps ==
  ASSUME NEW s, NEW box, NEW m, CountInv,
         BoxOK(s, box), StoreOK(s, retained), EchoIn(s, m)
  PROVE  BoxOK(s, Routed(box, m)) /\ StoreOK(s, Stored(m))
<1>1. BoxOK(s, Routed(box, m))
  <2> DEFINE d == m.topic[1]
             c == Msg(m.topic, m.id, FALSE)
  <2>1. CASE ~(d \in Devices /\ up[d])
        BY <2>1 DEF Routed
  <2>2. CASE d \in Devices /\ up[d]
    <3>1. c \in Messages
          BY DEF EchoIn, Messages, Msg
    <3>2. c.topic = m.topic /\ c.id = m.id /\ c.retain = FALSE
          BY DEF Msg
    <3>3. EchoIn(s, c) /\ c.topic[1] = d
          BY <3>1, <3>2 DEF EchoIn
    <3>4. box[d] \in Seq(Messages) /\ box \in [Devices -> Seq(Messages)]
          BY <2>2 DEF BoxOK
    <3> HIDE DEF c
    <3>5. /\ Append(box[d], c) \in Seq(Messages)
          /\ Len(Append(box[d], c)) = Len(box[d]) + 1 /\ Len(box[d]) \in Nat
          /\ \A n \in 1 .. Len(box[d]) + 1 :
               Append(box[d], c)[n] = IF n <= Len(box[d]) THEN box[d][n] ELSE c
          BY <3>1, <3>4
    <3>6. Routed(box, m) = [box EXCEPT ![d] = Append(box[d], c)]
          BY <2>2 DEF Routed, c
    <3> HIDE DEF d
    <3>7. Routed(box, m) \in [Devices -> Seq(Messages)]
          BY <3>4, <3>5, <3>6
    <3>8. ASSUME NEW e \in Devices, NEW n \in 1 .. Len(Routed(box, m)[e])
          PROVE  EchoIn(s, Routed(box, m)[e][n]) /\ Routed(box, m)[e][n].topic[1] = e
      <4>1. CASE e # d
        <5>1. Routed(box, m)[e] = box[e]
              BY <3>4, <3>6, <4>1
        <5> QED
            BY <3>8, <5>1 DEF BoxOK
      <4>2. CASE e = d
        <5>1. Routed(box, m)[e] = Append(box[d], c)
              BY <2>2, <3>4, <3>6, <4>2
        <5>2. n \in 1 .. Len(box[d]) + 1
              BY <3>5, <3>8, <5>1
        <5>3. CASE n <= Len(box[d])
          <6>1. Routed(box, m)[e][n] = box[e][n] /\ n \in 1 .. Len(box[e])
                BY <3>5, <4>2, <5>1, <5>2, <5>3
          <6> QED
              BY <6>1 DEF BoxOK
        <5>4. CASE ~(n <= Len(box[d]))
          <6>1. Routed(box, m)[e][n] = c
                BY <3>5, <5>1, <5>2, <5>4
          <6> QED
              BY <3>3, <4>2, <6>1
        <5> QED
            BY <5>3, <5>4
      <4> QED
          BY <4>1, <4>2
    <3> QED
        BY <3>7, <3>8 DEF BoxOK
  <2> QED
      BY <2>1, <2>2
<1>2. StoreOK(s, Stored(m))
  <2>1. CASE ~m.retain
        BY <2>1 DEF Stored
  <2>2. CASE m.retain
    <3> DEFINE kept == {r \in retained : r.topic # m.topic}
    <3>1. IsFiniteSet(retained) /\ kept \subseteq retained
          BY DEF StoreOK
    <3>2. IsFiniteSet(kept)
          BY <3>1, FS_Subset
    <3>3. IsFiniteSet(kept \cup {m})
          BY <3>2, FS_AddElement
    <3>4. Stored(m) = kept \cup {m}
          BY <2>2 DEF Stored
    <3> QED
        BY <2>2, <3>3, <3>4 DEF StoreOK
  <2> QED
      BY <2>1, <2>2
<1> QED
    BY <1>1, <1>2

-----------------------------------------------------------------------------
(* The invariant.                                                           *)

LEMMA InitInv == Init => IInv
<1> SUFFICES ASSUME Init PROVE IInv
    OBVIOUS
<1> USE DEF Init
<1>1. CountInv
  <2>1. sent \in Seq(Injections) /\ Len(sent) = 0
        BY EmptySeq
  <2> QED
      BY <2>1, BoundsOK DEF CountInv
<1>2. BoxOK(sent, inbox)
  <2>1. <<>> \in Seq(Messages) /\ Len(<<>>) = 0
        BY EmptySeq
  <2> QED
      BY <2>1 DEF BoxOK
<1>3. StoreOK(sent, retained)
      BY FS_EmptySet DEF StoreOK
<1> QED
    BY <1>1, <1>2, <1>3 DEF IInv

LEMMA SendStep == ASSUME IInv, NEW x \in Injections, Send(x) PROVE IInv'
<1> DEFINE m == Msg(x.topic, Len(sent) + 1, x.retain)
<1>1. sent \in Seq(Injections) /\ Len(sent) < MaxSent /\ sent' = Append(sent, x)
      BY DEF IInv, CountInv, Send
<1>2. EchoIn(sent', m)
      BY <1>1, FreshIsEcho
<1>3. BoxOK(sent', inbox)
      BY <1>1, EchoLasts DEF IInv, BoxOK
<1>4. StoreOK(sent', retained)
      BY <1>1, EchoLasts DEF IInv, StoreOK
<1>5. inbox' = Routed(inbox, m) /\ retained' = Stored(m)
      BY DEF Send
<1> HIDE DEF m
<1>6. BoxOK(sent', inbox') /\ StoreOK(sent', retained')
      BY <1>2, <1>3, <1>4, <1>5, BrokerKeeps DEF IInv
<1>7. CountInv'
      BY <1>1, BoundsOK DEF IInv, CountInv, Send
<1> QED
    BY <1>6, <1>7 DEF IInv

LEMMA SubscribeStep == ASSUME IInv, NEW d \in Devices, Subscribe(d) PROVE IInv'
<1> DEFINE K(i) == Cardinality({m \in Matching(d) : m.id = i})
<1>1. PICK s \in SetToSeqs(Matching(d)) : inbox' = [inbox EXCEPT ![d] = s]
      BY DEF Subscribe
<1>2. Matching(d) \subseteq retained /\ IsFiniteSet(Matching(d))
      BY FS_Subset DEF IInv, StoreOK, Matching
<1>3. Cardinality(Matching(d)) \in Nat
      BY <1>2, FS_CardinalityType
<1>4. s \in [1 .. Cardinality(Matching(d)) -> Matching(d)]
      BY <1>1 DEF SetToSeqs
<1>5. \A m \in Matching(d) : EchoIn(sent, m) /\ m \in Messages /\ m.topic[1] = d
      BY <1>2 DEF IInv, StoreOK, EchoIn, Matching
<1>6. s \in Seq(Messages) /\ \A n \in 1 .. Len(s) : s[n] \in Matching(d)
      BY <1>3, <1>4, <1>5
<1>7. BoxOK(sent, inbox')
  <2>1. inbox' \in [Devices -> Seq(Messages)]
        BY <1>1, <1>6 DEF IInv, BoxOK
  <2>2. ASSUME NEW e \in Devices, NEW n \in 1 .. Len(inbox'[e])
        PROVE  EchoIn(sent, inbox'[e][n]) /\ inbox'[e][n].topic[1] = e
    <3>1. CASE e # d
      <4>1. inbox'[e] = inbox[e]
            BY <1>1, <3>1 DEF IInv, BoxOK
      <4> QED
          BY <2>2, <4>1 DEF IInv, BoxOK
    <3>2. CASE e = d
      <4>1. inbox'[e] = s
            BY <1>1, <3>2 DEF IInv, BoxOK
      <4> QED
          BY <1>5, <1>6, <2>2, <3>2, <4>1
    <3> QED
        BY <3>1, <3>2
  <2> QED
      BY <2>1, <2>2 DEF BoxOK
<1>8. CountInv'
  <2>1. ASSUME NEW i \in 1 .. MaxSent PROVE K(i) \in Nat /\ replays[i] + K(i) \in 0 .. MaxReplays
    <3>1. K(i) \in Nat
      <4>1. {m \in Matching(d) : m.id = i} \subseteq Matching(d)
            OBVIOUS
      <4> QED
          BY <1>2, <4>1, FS_Subset, FS_CardinalityType
    <3>2. replays[i] \in 0 .. MaxReplays
          BY DEF IInv, CountInv
    <3>3. CASE i \in Ids
      <4>1. replays[i] + K(i) <= MaxReplays
            BY <3>3 DEF Subscribe
      <4> HIDE DEF K
      <4> QED
          BY <3>1, <3>2, <4>1, BoundsOK
    <3>4. CASE i \notin Ids
      <4>1. {m \in Matching(d) : m.id = i} = {}
            BY <1>5, <3>4 DEF EchoIn, Ids
      <4>2. K(i) = 0
            BY <4>1, FS_EmptySet
      <4> HIDE DEF K
      <4> QED
          BY <3>2, <4>2
    <3> QED
        BY <3>3, <3>4, <3>1
  <2>2. replays' = [i \in 1 .. MaxSent |-> replays[i] + K(i)]
        BY DEF IInv, CountInv, Subscribe
  <2> HIDE DEF K
  <2>3. replays' \in [1 .. MaxSent -> 0 .. MaxReplays]
        BY <2>1, <2>2
  <2> QED
      BY <2>3 DEF IInv, CountInv, Subscribe
<1> QED
    BY <1>7, <1>8 DEF IInv, Subscribe

LEMMA LoseStep == ASSUME IInv, NEW d \in Devices, Lose(d) PROVE IInv'
<1>1. BoxOK(sent, inbox')
  <2>1. <<>> \in Seq(Messages) /\ Len(<<>>) = 0
        BY EmptySeq
  <2> QED
      BY <2>1 DEF IInv, BoxOK, Lose
<1>2. CountInv'
      BY DEF IInv, CountInv, Lose
<1> QED
    BY <1>1, <1>2 DEF IInv, Lose

LEMMA OnMessageStep == ASSUME IInv, NEW d \in Devices, OnMessage(d) PROVE IInv'
<1> DEFINE m    == Head(inbox[d])
           rest == [inbox EXCEPT ![d] = Tail(@)]
<1>1. inbox[d] \in Seq(Messages) /\ inbox[d] # <<>>
      BY DEF IInv, BoxOK, OnMessage
<1>2. /\ Len(inbox[d]) \in Nat \ {0} /\ m = inbox[d][1]
      /\ Tail(inbox[d]) \in Seq(Messages) /\ Len(Tail(inbox[d])) = Len(inbox[d]) - 1
      /\ \A n \in 1 .. Len(inbox[d]) - 1 : Tail(inbox[d])[n] = inbox[d][n + 1]
      BY <1>1, EmptySeq, HeadTailProperties
<1>3. EchoIn(sent, m) /\ m.topic[1] = d
      BY <1>2 DEF IInv, BoxOK
<1>4. BoxOK(sent, rest)
  <2>1. rest \in [Devices -> Seq(Messages)]
        BY <1>2 DEF IInv, BoxOK
  <2>2. ASSUME NEW e \in Devices, NEW n \in 1 .. Len(rest[e])
        PROVE  EchoIn(sent, rest[e][n]) /\ rest[e][n].topic[1] = e
    <3>1. CASE e # d
      <4>1. rest[e] = inbox[e]
            BY <3>1 DEF IInv, BoxOK
      <4> QED
          BY <2>2, <4>1 DEF IInv, BoxOK
    <3>2. CASE e = d
      <4>1. rest[e] = Tail(inbox[d])
            BY <3>2 DEF IInv, BoxOK
      <4>2. n \in 1 .. Len(inbox[d]) - 1
            BY <1>2, <2>2, <4>1
      <4>3. rest[e][n] = inbox[d][n + 1]
        <5> HIDE DEF rest
        <5> QED
            BY <1>2, <4>1, <4>2
      <4>4. n + 1 \in 1 .. Len(inbox[d])
            BY <1>2, <4>2
      <4> QED
          BY <3>2, <4>3, <4>4 DEF IInv, BoxOK
    <3> QED
        BY <3>1, <3>2
  <2> QED
      BY <2>1, <2>2 DEF BoxOK
<1>5. sent' = sent /\ CountInv'
      BY DEF IInv, CountInv, OnMessage
<1>6. CASE Answered(m)
  <2>1. EchoIn(sent, Reply(d, m))
        BY <1>3, ReplyIsEcho DEF IInv, CountInv
  <2>2. inbox' = Routed(rest, Reply(d, m)) /\ retained' = Stored(Reply(d, m))
        BY <1>6 DEF OnMessage
  <2> HIDE DEF m, rest
  <2>3. BoxOK(sent, inbox') /\ StoreOK(sent, retained')
        BY <1>4, <2>1, <2>2, BrokerKeeps DEF IInv
  <2> QED
      BY <1>5, <2>3 DEF IInv
<1>7. CASE ~Answered(m)
      BY <1>4, <1>5, <1>7 DEF IInv, OnMessage
<1> QED
    BY <1>6, <1>7

LEMMA Invariance == Spec => []IInv
<1>1. IInv /\ [Next]_vars => IInv'
  <2>1. IInv /\ UNCHANGED vars => IInv'
        BY DEF vars, IInv, CountInv
  <2> QED
      BY <2>1, SendStep, SubscribeStep, LoseStep, OnMessageStep DEF Next
<1> QED
    BY InitInv, <1>1, PTL DEF Spec

(* Every box, every retained message and every count of the exchange that  *)
(* MQTT_HELLO_OnMessage answers (MQTT_Hello.cpp:65-81) is well typed.      *)
THEOREM EchoTypeCorrect == Spec => []TypeOK
<1>1. IInv => TypeOK
  <2> SUFFICES ASSUME IInv PROVE TypeOK
      OBVIOUS
  <2>1. ASSUME NEW d \in Devices, NEW n \in DOMAIN inbox[d]
        PROVE  inbox[d][n].id \in Ids /\ inbox[d][n].retain \in BOOLEAN
    <3>1. inbox[d] \in Seq(Messages)
          BY DEF IInv, BoxOK
    <3>2. n \in 1 .. Len(inbox[d])
          BY <2>1, <3>1
    <3>3. EchoIn(sent, inbox[d][n])
          BY <3>2 DEF IInv, BoxOK
    <3> QED
        BY <3>3 DEF EchoIn, Messages, Ids
  <2>2. \A m \in retained : m.id \in Ids /\ m.retain
        BY DEF IInv, StoreOK, EchoIn, Ids
  <2> QED
      BY <2>1, <2>2 DEF IInv, CountInv, TypeOK
<1> QED
    BY <1>1, Invariance, PTL

(* "Answered as it is" (MQTT_Hello.cpp:4): whatever the broker holds, after *)
(* any number of answers by any number of devices, is what a client sent,   *)
(* under a rotation of its topic, and retained only if it was sent so.      *)
THEOREM EchoAltersNothing == Spec => []EchoKeepsMessage
<1>1. IInv => EchoKeepsMessage
  <2> SUFFICES ASSUME IInv, NEW m \in InFlight \cup retained PROVE EchoIn(sent, m)
      BY DEF EchoKeepsMessage, EchoIn
  <2>1. CASE m \in InFlight
    <3>0. PICK d \in Devices : \E n \in DOMAIN inbox[d] : m = inbox[d][n]
          BY <2>1 DEF InFlight
    <3>1. PICK n \in DOMAIN inbox[d] : m = inbox[d][n]
          BY <3>0
    <3>2. inbox[d] \in Seq(Messages)
          BY DEF IInv, BoxOK
    <3>3. n \in 1 .. Len(inbox[d])
          BY <3>1, <3>2
    <3> QED
        BY <3>1, <3>3 DEF IInv, BoxOK
  <2>2. CASE m \in retained
        BY <2>2 DEF IInv, StoreOK
  <2> QED
      BY <2>1, <2>2
<1> QED
    BY <1>1, Invariance, PTL

-----------------------------------------------------------------------------
(* Counting copies.                                                         *)

(* How often message i is in a box, and in all boxes together.              *)
Count(s, i)  == Cardinality(At(s, i))
Spread(box, i) == UNION {{d} \X At(box[d], i) : d \in Devices}
Total(box, i)  == Cardinality(Spread(box, i))

LEMMA AtIs ==
  ASSUME NEW s \in Seq(Messages), NEW i
  PROVE  /\ At(s, i) \subseteq 1 .. Len(s)
         /\ IsFiniteSet(At(s, i)) /\ Count(s, i) \in Nat
<1>1. Len(s) \in Nat /\ DOMAIN s = 1 .. Len(s)
  OBVIOUS
<1>2. At(s, i) \subseteq 1 .. Len(s)
  BY <1>1 DEF At
<1>3. IsFiniteSet(1 .. Len(s))
  BY <1>1, FS_Interval
<1> QED
  BY <1>2, <1>3, FS_Subset, FS_CardinalityType DEF Count

LEMMA CountEmpty == \A i : Count(<<>>, i) = 0
<1>1. \A i : At(<<>>, i) = {}
  BY DEF At
<1> QED
  BY <1>1, FS_EmptySet DEF Count

LEMMA CountAppend ==
  ASSUME NEW s \in Seq(Messages), NEW m \in Messages, NEW i
  PROVE  Count(Append(s, m), i) = Count(s, i) + (IF m.id = i THEN 1 ELSE 0)
<1>0. Append(s, m) \in Seq(Messages)
  OBVIOUS
<1>1. PICK t \in Seq(Messages) : t = Append(s, m)
  BY <1>0
<1>2. /\ Len(s) \in Nat /\ Len(t) = Len(s) + 1 /\ t[Len(s) + 1] = m
      /\ \A n \in 1 .. Len(s) : t[n] = s[n]
      /\ DOMAIN t = 1 .. Len(s) + 1 /\ DOMAIN s = 1 .. Len(s)
  BY <1>1
<1>3. Len(s) + 1 \notin At(s, i) /\ IsFiniteSet(At(s, i)) /\ Count(s, i) \in Nat
  BY <1>2, AtIs
<1>4. CASE m.id = i
  <2>1. At(t, i) = At(s, i) \cup {Len(s) + 1}
    BY <1>2, <1>4 DEF At
  <2>2. Cardinality(At(t, i)) = Cardinality(At(s, i)) + 1
    BY <1>3, <2>1, FS_AddElement
  <2> QED
    BY <1>1, <1>4, <2>2 DEF Count
<1>5. CASE m.id # i
  <2>1. At(t, i) = At(s, i)
    BY <1>2, <1>5 DEF At
  <2> QED
    BY <1>1, <1>3, <1>5, <2>1 DEF Count
<1> QED
  BY <1>4, <1>5

LEMMA CountTail ==
  ASSUME NEW s \in Seq(Messages), s # <<>>, NEW i
  PROVE  Count(s, i) = Count(Tail(s), i) + (IF Head(s).id = i THEN 1 ELSE 0)
<1>0. Tail(s) \in Seq(Messages)
  BY HeadTailProperties
<1>1. PICK t \in Seq(Messages) : t = Tail(s)
  BY <1>0
<1>2. /\ Len(s) \in Nat \ {0} /\ Len(t) = Len(s) - 1 /\ Head(s) = s[1]
      /\ \A n \in 1 .. Len(s) - 1 : t[n] = s[n + 1]
      /\ DOMAIN t = 1 .. Len(s) - 1 /\ DOMAIN s = 1 .. Len(s)
  BY <1>1, EmptySeq, HeadTailProperties
<1>3. /\ IsFiniteSet(At(s, i)) /\ IsFiniteSet(At(t, i))
      /\ Count(s, i) \in Nat /\ Count(t, i) \in Nat
  BY AtIs
<1> DEFINE later == At(s, i) \ {1}
           next  == [n \in At(t, i) |-> n + 1]
<1>4. Cardinality(later) = Count(t, i)
  <2>1. \A n \in At(t, i) : n \in 1 .. Len(s) - 1 /\ s[n + 1].id = i
    BY <1>2 DEF At
  <2>2. next \in [At(t, i) -> later]
    BY <1>2, <2>1 DEF At
  <2>3. \A a, b \in At(t, i) : next[a] = next[b] => a = b
    BY <1>2, <2>1
  <2>4. \A k \in later : \E n \in At(t, i) : next[n] = k
    <3> SUFFICES ASSUME NEW k \in later PROVE \E n \in At(t, i) : next[n] = k
      OBVIOUS
    <3>1. k \in 1 .. Len(s) /\ k # 1 /\ s[k].id = i
      BY <1>2 DEF At
    <3>2. k - 1 \in 1 .. Len(s) - 1 /\ (k - 1) + 1 = k
      BY <1>2, <3>1
    <3>3. k - 1 \in At(t, i)
      BY <1>2, <3>1, <3>2 DEF At
    <3> QED
      BY <3>2, <3>3
  <2>5. next \in Bijection(At(t, i), later)
    <3> HIDE DEF next, later
    <3> QED
      BY <2>2, <2>3, <2>4 DEF Bijection, Injection, Surjection, IsInjective
  <2>6. ExistsBijection(At(t, i), later)
    BY <2>5 DEF ExistsBijection
  <2> QED
    BY <1>3, <2>6, FS_Bijection DEF Count
<1>5. Cardinality(later) = IF 1 \in At(s, i) THEN Count(s, i) - 1 ELSE Count(s, i)
  BY <1>3, FS_RemoveElement DEF Count
<1>6. 1 \in At(s, i) <=> Head(s).id = i
  BY <1>2 DEF At
<1> HIDE DEF later
<1> QED
  BY <1>1, <1>3, <1>4, <1>5, <1>6

(* The messages the broker plays to a new subscription, in any order.      *)
LEMMA CountPlayed ==
  ASSUME NEW M \in SUBSET Messages, IsFiniteSet(M), NEW s \in SetToSeqs(M), NEW i
  PROVE  Count(s, i) = Cardinality({m \in M : m.id = i})
<1> DEFINE Mi == {m \in M : m.id = i}
           at == [n \in At(s, i) |-> s[n]]
<1>1. /\ Cardinality(M) \in Nat /\ s \in [1 .. Cardinality(M) -> M]
      /\ \A a, b \in 1 .. Cardinality(M) : s[a] = s[b] => a = b
  <2>1. Cardinality(M) \in Nat
    BY FS_CardinalityType
  <2>2. /\ s \in [1 .. Cardinality(M) -> M]
        /\ \A a, b \in 1 .. Cardinality(M) : a # b => s[a] # s[b]
    BY DEF SetToSeqs
  <2> QED
    BY <2>1, <2>2
<1>2. s \in Surjection(1 .. Cardinality(M), M)
  <2>1. s \in Injection(1 .. Cardinality(M), M)
    BY <1>1 DEF Injection, IsInjective
  <2>2. IsFiniteSet(1 .. Cardinality(M)) /\ Cardinality(1 .. Cardinality(M)) = Cardinality(M)
    BY <1>1, FS_Interval
  <2> QED
    BY <2>1, <2>2, FS_Injection
<1>3. DOMAIN s = 1 .. Cardinality(M)
  BY <1>1
<1>4. at \in Bijection(At(s, i), Mi)
  <2>1. at \in [At(s, i) -> Mi]
    BY <1>1, <1>3 DEF At
  <2>2. \A a, b \in At(s, i) : at[a] = at[b] => a = b
    BY <1>1, <1>3 DEF At
  <2>3. \A m \in Mi : \E n \in At(s, i) : at[n] = m
    BY <1>2, <1>3 DEF At, Surjection
  <2> HIDE DEF at, Mi
  <2> QED
    BY <2>1, <2>2, <2>3 DEF Bijection, Injection, Surjection, IsInjective
<1>5. IsFiniteSet(Mi)
  BY FS_Subset
<1>6. Cardinality(At(s, i)) = Cardinality(Mi)
  <2>1. IsFiniteSet(At(s, i))
    <3>1. IsFiniteSet(1 .. Cardinality(M))
      BY <1>1, FS_Interval
    <3> QED
      BY <1>3, <3>1, FS_Subset DEF At
  <2>2. ExistsBijection(At(s, i), Mi)
    BY <1>4 DEF ExistsBijection
  <2> HIDE DEF Mi
  <2> QED
    BY <2>1, <2>2, FS_Bijection
<1> QED
  BY <1>6 DEF Count

LEMMA SpreadFinite ==
  ASSUME NEW box \in [Devices -> Seq(Messages)], NEW i
  PROVE  IsFiniteSet(Spread(box, i)) /\ Total(box, i) \in Nat
<1> DEFINE F == {{d} \X At(box[d], i) : d \in Devices}
<1>1. IsFiniteSet(F)
  <2> DEFINE part == [d \in Devices |-> {d} \X At(box[d], i)]
  <2>1. part \in [Devices -> F] /\ \A T \in F : \E d \in Devices : part[d] = T
    OBVIOUS
  <2> HIDE DEF F, part
  <2>2. part \in Surjection(Devices, F)
    BY <2>1 DEF Surjection
  <2> QED
    BY <2>2, DevicesFinite, FS_Surjection
<1>2. ASSUME NEW T \in F PROVE IsFiniteSet(T)
  <2>1. PICK d \in Devices : T = {d} \X At(box[d], i)
    OBVIOUS
  <2>2. IsFiniteSet({d}) /\ IsFiniteSet(At(box[d], i))
    BY FS_Singleton, AtIs
  <2> QED
    BY <2>1, <2>2, FS_Product
<1>3. Spread(box, i) = UNION F
  BY DEF Spread
<1> HIDE DEF F
<1> QED
  BY <1>1, <1>2, <1>3, FS_UNION, FS_CardinalityType DEF Total

(* What one box gains or loses, all boxes together gain or lose.           *)
LEMMA TotalChange ==
  ASSUME NEW box \in [Devices -> Seq(Messages)], NEW d \in Devices,
         NEW s \in Seq(Messages), NEW i
  PROVE  Total([box EXCEPT ![d] = s], i) + Count(box[d], i) = Total(box, i) + Count(s, i)
<1> DEFINE rest == UNION {{e} \X At(box[e], i) : e \in Devices \ {d}}
           new  == [box EXCEPT ![d] = s]
           here(b) == {d} \X At(b, i)
<1>1. rest \subseteq Spread(box, i) /\ IsFiniteSet(rest) /\ Cardinality(rest) \in Nat
  <2>1. rest \subseteq Spread(box, i)
    BY DEF Spread
  <2> QED
    BY <2>1, SpreadFinite, FS_Subset, FS_CardinalityType
<1>2. ASSUME NEW b \in Seq(Messages)
      PROVE  /\ IsFiniteSet(here(b)) /\ Cardinality(here(b)) = Count(b, i)
             /\ Cardinality(rest \cup here(b)) = Cardinality(rest) + Count(b, i)
  <2>1. /\ IsFiniteSet({d}) /\ Cardinality({d}) = 1
        /\ IsFiniteSet(At(b, i)) /\ Count(b, i) \in Nat
    BY FS_Singleton, AtIs
  <2>2. IsFiniteSet(here(b)) /\ Cardinality(here(b)) = 1 * Count(b, i)
    BY <2>1, FS_Product DEF Count
  <2>3. rest \cap here(b) = {}
    OBVIOUS
  <2>4. Cardinality(rest \cap here(b)) = 0
    BY <2>3, FS_EmptySet
  <2> HIDE DEF rest, here
  <2>5. Cardinality(rest \cup here(b)) = Cardinality(rest) + Cardinality(here(b)) - 0
    BY <1>1, <2>2, <2>4, FS_Union
  <2> QED
    BY <1>1, <2>1, <2>2, <2>5
<1>3. Spread(box, i) = rest \cup here(box[d])
  BY DEF Spread
<1>4. Spread(new, i) = rest \cup here(s)
  <2>1. new[d] = s /\ \A e \in Devices \ {d} : new[e] = box[e]
    OBVIOUS
  <2> HIDE DEF new
  <2> QED
    BY <2>1 DEF Spread
<1>5. Count(box[d], i) \in Nat /\ Count(s, i) \in Nat
  BY AtIs
<1> HIDE DEF rest, here, new
<1>6. Total(box, i) = Cardinality(rest) + Count(box[d], i)
  BY <1>2, <1>3 DEF Total
<1>7. Total(new, i) = Cardinality(rest) + Count(s, i)
  BY <1>2, <1>4 DEF Total
<1> QED
  BY <1>1, <1>5, <1>6, <1>7 DEF new

(* A publication adds at most one copy, of its own message.                 *)
LEMMA TotalRouted ==
  ASSUME NEW box \in [Devices -> Seq(Messages)], NEW m \in Messages, NEW i
  PROVE  Total(Routed(box, m), i) <= Total(box, i) + (IF m.id = i THEN 1 ELSE 0)
<1>1. Total(box, i) \in Nat
  BY SpreadFinite
<1>2. CASE ~(m.topic[1] \in Devices /\ up[m.topic[1]])
  BY <1>1, <1>2 DEF Routed
<1>3. CASE m.topic[1] \in Devices /\ up[m.topic[1]]
  <2>1. PICK d \in Devices : d = m.topic[1]
    BY <1>3
  <2>2. PICK c : c = Msg(m.topic, m.id, FALSE)
    OBVIOUS
  <2>3. c \in Messages /\ c.id = m.id
    BY <2>2 DEF Msg, Messages
  <2>4. Routed(box, m) = [box EXCEPT ![d] = Append(box[d], c)]
    BY <1>3, <2>1, <2>2 DEF Routed
  <2>5a. Append(box[d], c) \in Seq(Messages)
    BY <2>3
  <2>5. PICK s \in Seq(Messages) : s = Append(box[d], c)
    BY <2>5a
  <2>6. Count(s, i) = Count(box[d], i) + (IF m.id = i THEN 1 ELSE 0)
    BY <2>3, <2>5, CountAppend
  <2>7. Total([box EXCEPT ![d] = s], i) + Count(box[d], i) = Total(box, i) + Count(s, i)
    BY TotalChange
  <2>8. [box EXCEPT ![d] = s] \in [Devices -> Seq(Messages)]
    OBVIOUS
  <2>9. Total([box EXCEPT ![d] = s], i) \in Nat /\ Count(box[d], i) \in Nat /\ Count(s, i) \in Nat
    BY <2>8, SpreadFinite, AtIs
  <2> QED
    BY <1>1, <2>4, <2>5, <2>6, <2>7, <2>9
<1> QED
  BY <1>2, <1>3

-----------------------------------------------------------------------------
(* The invariant that bounds the copies: a device that is not subscribed   *)
(* holds none, so that what the broker plays to a new subscription is all  *)
(* it adds, and each copy beyond the first was played.                     *)
StormInv ==
  /\ \A d \in Devices : ~up[d] => inbox[d] = <<>>
  /\ \A i \in Ids : Total(inbox, i) <= 1 + replays[i]

LEMMA Unsent ==
  ASSUME IInv, NEW i, i \notin Ids
  PROVE  Total(inbox, i) = 0
<1>1. ASSUME NEW d \in Devices PROVE At(inbox[d], i) = {}
  <2>1. inbox[d] \in Seq(Messages)
    BY DEF IInv, BoxOK
  <2>2. \A n \in 1 .. Len(inbox[d]) : inbox[d][n].id \in Ids
    BY DEF IInv, BoxOK, EchoIn, Ids
  <2> QED
    BY <2>1, <2>2 DEF At
<1>2. Spread(inbox, i) = {}
  BY <1>1 DEF Spread
<1> QED
  BY <1>2, FS_EmptySet DEF Total

LEMMA InitStorm == Init => StormInv
<1> SUFFICES ASSUME Init PROVE StormInv
  OBVIOUS
<1>1. Ids = {}
  BY DEF Init, Ids
<1> QED
  BY <1>1 DEF Init, StormInv

LEMMA SendStorm ==
  ASSUME IInv, StormInv, NEW x \in Injections, Send(x)
  PROVE  StormInv'
<1> DEFINE m == Msg(x.topic, Len(sent) + 1, x.retain)
<1>1. /\ sent \in Seq(Injections) /\ Len(sent) < MaxSent /\ sent' = Append(sent, x)
      /\ inbox \in [Devices -> Seq(Messages)]
  BY DEF IInv, CountInv, BoxOK, Send
<1>2. m \in Messages /\ m.id = Len(sent) + 1
  BY <1>1, FreshIsEcho DEF EchoIn, Msg
<1>3. inbox' = Routed(inbox, m) /\ up' = up /\ replays' = replays
  BY DEF Send
<1>4. Len(sent) \in Nat /\ Len(sent') = Len(sent) + 1
  BY <1>1
<1> HIDE DEF m
<1>5. ASSUME NEW d \in Devices, ~up'[d] PROVE inbox'[d] = <<>>
  <2>1. ~up[d]
    BY <1>3, <1>5
  <2>2. Routed(inbox, m)[d] = inbox[d]
    BY <1>1, <2>1 DEF Routed
  <2> QED
    BY <1>3, <2>1, <2>2 DEF StormInv
<1>6. ASSUME NEW i \in 1 .. Len(sent) + 1 PROVE Total(inbox', i) <= 1 + replays'[i]
  <2>1. Total(inbox', i) <= Total(inbox, i) + (IF m.id = i THEN 1 ELSE 0)
    BY <1>1, <1>2, <1>3, TotalRouted
  <2>2. replays[i] \in Nat
    BY <1>1, <1>4, BoundsOK DEF IInv, CountInv
  <2>3. Total(inbox, i) \in Nat /\ Total(inbox', i) \in Nat
    <3>1. BoxOK(sent', inbox')
      BY SendStep DEF IInv
    <3> QED
      BY <1>1, <3>1, SpreadFinite DEF BoxOK
  <2>4. CASE i = Len(sent) + 1
    <3>1. Total(inbox, i) = 0
      BY <1>4, <2>4, Unsent DEF Ids
    <3> QED
      BY <1>2, <1>3, <2>1, <2>2, <2>3, <2>4, <3>1
  <2>5. CASE i \in 1 .. Len(sent)
    <3>1. Total(inbox, i) <= 1 + replays[i] /\ m.id # i
      BY <1>2, <1>4, <2>5 DEF StormInv, Ids
    <3> QED
      BY <1>3, <2>1, <2>2, <2>3, <3>1
  <2> QED
    BY <1>4, <2>4, <2>5
<1> QED
  BY <1>4, <1>5, <1>6 DEF StormInv, Ids

LEMMA SubscribeStorm ==
  ASSUME IInv, StormInv, NEW d \in Devices, Subscribe(d)
  PROVE  StormInv'
<1>1. PICK s \in SetToSeqs(Matching(d)) : inbox' = [inbox EXCEPT ![d] = s]
  BY DEF Subscribe
<1>2. /\ Matching(d) \in SUBSET Messages /\ IsFiniteSet(Matching(d))
      /\ inbox \in [Devices -> Seq(Messages)]
  BY FS_Subset DEF IInv, StoreOK, BoxOK, EchoIn, Matching
<1>3. s \in Seq(Messages)
  <2>1. Cardinality(Matching(d)) \in Nat /\ s \in [1 .. Cardinality(Matching(d)) -> Matching(d)]
    BY <1>1, <1>2, FS_CardinalityType DEF SetToSeqs
  <2> QED
    BY <1>2, <2>1
<1>4. ASSUME NEW e \in Devices, ~up'[e] PROVE inbox'[e] = <<>>
  <2>1. e # d /\ ~up[e]
    BY <1>4 DEF Subscribe, IInv, CountInv
  <2> QED
    BY <1>1, <1>2, <2>1 DEF StormInv
<1>5. ASSUME NEW i \in Ids PROVE Total(inbox', i) <= 1 + replays'[i]
  <2> DEFINE k == Cardinality({m \in Matching(d) : m.id = i})
  <2>1. inbox[d] = <<>> /\ Total(inbox, i) <= 1 + replays[i]
    BY DEF Subscribe, StormInv
  <2>2. Count(s, i) = k /\ k \in Nat
    <3>1. Count(s, i) = k
      BY <1>1, <1>2, CountPlayed
    <3>2. Count(s, i) \in Nat
      BY <1>3, AtIs
    <3> QED
      BY <3>1, <3>2
  <2>3. replays'[i] = replays[i] + k /\ replays[i] \in Nat
    <3>1. i \in 1 .. MaxSent
      BY BoundsOK DEF IInv, CountInv, Ids
    <3> QED
      BY <3>1, BoundsOK DEF Subscribe, IInv, CountInv
  <2> HIDE DEF k
  <2>4. Total(inbox', i) + Count(inbox[d], i) = Total(inbox, i) + Count(s, i)
    BY <1>1, <1>2, <1>3, TotalChange
  <2>5. Count(inbox[d], i) = 0
    BY <2>1, CountEmpty
  <2>6. Total(inbox, i) \in Nat /\ Total(inbox', i) \in Nat
    <3>1. inbox' \in [Devices -> Seq(Messages)]
      BY <1>1, <1>2, <1>3
    <3> QED
      BY <1>2, <3>1, SpreadFinite
  <2> QED
    BY <2>1, <2>2, <2>3, <2>4, <2>5, <2>6
<1> QED
  BY <1>4, <1>5 DEF StormInv, Ids, Subscribe

(* Emptying a box, or taking its head, removes what was there.              *)
LEMMA LoseStorm ==
  ASSUME IInv, StormInv, NEW d \in Devices, Lose(d)
  PROVE  StormInv'
<1>1. inbox \in [Devices -> Seq(Messages)] /\ inbox' = [inbox EXCEPT ![d] = <<>>]
  BY DEF IInv, BoxOK, Lose
<1>2. ASSUME NEW e \in Devices, ~up'[e] PROVE inbox'[e] = <<>>
  <2>1. e = d \/ ~up[e]
    BY <1>2 DEF Lose, IInv, CountInv
  <2> QED
    BY <1>1, <2>1 DEF StormInv
<1>3. ASSUME NEW i \in Ids PROVE Total(inbox', i) <= 1 + replays'[i]
  <2>1. Total(inbox, i) <= 1 + replays[i] /\ replays' = replays
    BY DEF StormInv, Lose
  <2>2. replays[i] \in Nat
    BY BoundsOK DEF IInv, CountInv, Ids
  <2>3. <<>> \in Seq(Messages)
    BY EmptySeq
  <2>4. Total(inbox', i) + Count(inbox[d], i) = Total(inbox, i) + Count(<<>>, i)
    BY <1>1, <2>3, TotalChange
  <2>5. Count(<<>>, i) = 0 /\ Count(inbox[d], i) \in Nat
    BY <1>1, CountEmpty, AtIs
  <2>6. Total(inbox, i) \in Nat /\ Total(inbox', i) \in Nat
    <3>1. inbox' \in [Devices -> Seq(Messages)]
      BY <1>1, <2>3
    <3> QED
      BY <1>1, <3>1, SpreadFinite
  <2> QED
    BY <2>1, <2>2, <2>4, <2>5, <2>6
<1> QED
  BY <1>2, <1>3 DEF StormInv, Ids, Lose

(* The device takes one copy of a message and publishes one of the same.   *)
LEMMA OnMessageStorm ==
  ASSUME IInv, StormInv, NEW d \in Devices, OnMessage(d)
  PROVE  StormInv'
<1>1. PICK m : m = Head(inbox[d])
  OBVIOUS
<1>2. /\ inbox \in [Devices -> Seq(Messages)] /\ inbox[d] \in Seq(Messages)
      /\ inbox[d] # <<>>
  BY DEF IInv, BoxOK, OnMessage
<1>3. Tail(inbox[d]) \in Seq(Messages)
  BY <1>2, HeadTailProperties
<1>4. PICK rest : rest = [inbox EXCEPT ![d] = Tail(inbox[d])]
  OBVIOUS
<1>5. rest \in [Devices -> Seq(Messages)]
  BY <1>2, <1>3, <1>4
<1>6. Reply(d, m) \in Messages /\ Reply(d, m).id = m.id
  <2>1. Len(inbox[d]) \in Nat \ {0} /\ m = inbox[d][1]
    BY <1>1, <1>2, EmptySeq
  <2>2. EchoIn(sent, m) /\ m.topic[1] = d
    BY <2>1 DEF IInv, BoxOK
  <2> QED
    BY <2>2, ReplyIsEcho DEF IInv, CountInv, EchoIn, Reply, Msg
<1>7. /\ inbox' = rest \/ inbox' = Routed(rest, Reply(d, m))
      /\ up' = up /\ replays' = replays /\ sent' = sent
  BY <1>1, <1>4 DEF OnMessage
<1>8. ASSUME NEW e \in Devices, ~up'[e] PROVE inbox'[e] = <<>>
  <2>1. ~up[e] /\ inbox[e] = <<>>
    BY <1>7, <1>8 DEF StormInv
  <2>2. e # d
    BY <1>2, <2>1
  <2>3. rest[e] = <<>>
    BY <1>2, <1>4, <2>1, <2>2
  <2>4. Routed(rest, Reply(d, m))[e] = rest[e]
    BY <1>5, <2>1 DEF Routed
  <2> QED
    BY <1>7, <2>3, <2>4
<1>9. ASSUME NEW i \in Ids PROVE Total(inbox', i) <= 1 + replays'[i]
  <2>1. Total(inbox, i) <= 1 + replays[i]
    BY DEF StormInv
  <2>2. replays[i] \in Nat
    BY BoundsOK DEF IInv, CountInv, Ids
  <2>3. Total(rest, i) + Count(inbox[d], i) = Total(inbox, i) + Count(Tail(inbox[d]), i)
    BY <1>2, <1>3, <1>4, TotalChange
  <2>4. Count(inbox[d], i) = Count(Tail(inbox[d]), i) + (IF m.id = i THEN 1 ELSE 0)
    BY <1>1, <1>2, CountTail
  <2>5. Total(Routed(rest, Reply(d, m)), i) <= Total(rest, i) + (IF m.id = i THEN 1 ELSE 0)
    BY <1>5, <1>6, TotalRouted
  <2>6. /\ Count(Tail(inbox[d]), i) \in Nat
        /\ Total(inbox, i) \in Nat /\ Total(rest, i) \in Nat /\ Total(inbox', i) \in Nat
    <3>1. inbox' \in [Devices -> Seq(Messages)]
      BY OnMessageStep DEF IInv, BoxOK
    <3> QED
      BY <1>2, <1>3, <1>5, <3>1, SpreadFinite, AtIs
  <2>7. Total(inbox', i) <= Total(inbox, i)
    <3>1. CASE inbox' = rest
      BY <2>3, <2>4, <2>6, <3>1
    <3>2. CASE inbox' = Routed(rest, Reply(d, m))
      BY <2>3, <2>4, <2>5, <2>6, <3>2
    <3> QED
      BY <1>7, <3>1, <3>2
  <2> QED
    BY <1>7, <2>1, <2>2, <2>6, <2>7
<1> QED
  BY <1>7, <1>8, <1>9 DEF StormInv, Ids

(* Echoing never multiplies a message, whatever devices answer each other  *)
(* (MQTT_Hello.cpp:65-81): of each there is at most the one a client sent  *)
(* and what the broker played to new subscriptions.                        *)
THEOREM EchoNoStorm == Spec => []NoStorm
<1>1. IInv /\ StormInv /\ [Next]_vars => StormInv'
  <2>1. IInv /\ StormInv /\ UNCHANGED vars => StormInv'
    BY DEF vars, StormInv, Total, Spread, Ids
  <2> QED
    BY <2>1, SendStorm, SubscribeStorm, LoseStorm, OnMessageStorm DEF Next
<1>2. StormInv => NoStorm
  BY DEF StormInv, NoStorm, Copies, Total, Spread
<1> QED
  BY Invariance, InitStorm, <1>1, <1>2, PTL DEF Spec

=============================================================================
