------------------------------- MODULE RcProofs -------------------------------
(***************************************************************************)
(* The table serves the files: for any finite tree, any contents, any      *)
(* order of the listing and any set of readable files; and so does the web *)
(* server that reads from it, for any directory and any spelling of a name.*)
(***************************************************************************)
EXTENDS HttpdFs, SequenceTheorems, FiniteSetTheorems, WellFoundedInduction, TLAPS

Chars == {Nul} \cup UNION {Range(n) : n \in Names}
Bytes == {Nul} \cup UNION {Range(Content[n]) : n \in Names}

ListInv ==
  /\ filelist \in Seq(Names)
  /\ \A i, j \in 1 .. Len(filelist) : i # j => filelist[i] # filelist[j]
  /\ readable \in SUBSET Names
  /\ \A n \in readable : \E j \in 1 .. Len(filelist) : filelist[j] = n
  /\ pc \in {"data", "name", "done"}
  /\ it \in 1 .. Len(filelist) + 1
  /\ data \in Seq(Bytes) /\ name \in Seq(Chars)
  /\ nameOffset \in Nat /\ info \in Seq(InfoType)

(* The names stand one behind the other.                                    *)
End(e) == e.name_offset + e.name_size

OffsetInv ==
  /\ info = <<>> => nameOffset = 0
  /\ info # <<>> => info[1].name_offset = 0 /\ nameOffset = End(info[Len(info)])
  /\ \A i \in 1 .. Len(info) - 1 : info[i + 1].name_offset = End(info[i])

(* The bytes of file n, and then a zero, stand where entry e says.          *)
DataAt(e, n, d) ==
  /\ e.data_size = Len(Content[n])
  /\ e.data_offset + e.data_size + 1 <= Len(d)
  /\ \A k \in 1 .. e.data_size : d[e.data_offset + k] = Content[n][k]
  /\ d[e.data_offset + e.data_size + 1] = Nul

NameAt(e, n, a) ==
  /\ End(e) <= Len(a)
  /\ \A k \in 1 .. Len(n) : a[e.name_offset + k] = n[k]
  /\ a[End(e)] = Nul

(* The walk for the bytes has passed entry j of the list.                   *)
Passed(j) == pc = "data" => j < it

(* from tells of every entry of the table which entry of the list it is    *)
(* about: the readable ones, in the order of the list.                     *)
FromOK(from) ==
  /\ from \in [1 .. Len(info) -> 1 .. Len(filelist)]
  /\ \A i, j \in 1 .. Len(info) : i < j => from[i] < from[j]
  /\ \A j \in 1 .. Len(filelist) :
       (Passed(j) /\ filelist[j] \in readable) <=> \E i \in 1 .. Len(info) : from[i] = j
  /\ \A i \in 1 .. Len(info) :
       /\ info[i].name_size = Len(filelist[from[i]]) + 1
       /\ DataAt(info[i], filelist[from[i]], data)

(* The first k names are written, those before the next of the list.        *)
NamesInv(from) ==
  /\ pc = "data" => name = <<>>
  /\ pc = "name" =>
       \E k \in 0 .. Len(info) :
         /\ \A i \in 1 .. Len(info) : from[i] < it <=> i <= k
         /\ Len(name) = IF k = 0 THEN 0 ELSE End(info[k])
         /\ \A i \in 1 .. k : NameAt(info[i], filelist[from[i]], name)
  /\ pc = "done" =>
       \A i \in 1 .. Len(info) : NameAt(info[i], filelist[from[i]], name)

IInv ==
  /\ ListInv
  /\ OffsetInv
  /\ \E from : FromOK(from) /\ NamesInv(from)

-----------------------------------------------------------------------------
(* Sequences.                                                               *)

LEMMA TreeTypes ==
  ASSUME NEW n \in Names
  PROVE  n \in Seq(Chars) /\ n # <<>> /\ Content[n] \in Seq(Bytes)
         /\ \A i \in 1 .. Len(n) : n[i] # Nul
<1>1. n \in Seq(Range(n)) /\ Content[n] \in Seq(Range(Content[n]))
      BY TreeOK
<1>2. Range(n) \subseteq Chars /\ Range(Content[n]) \subseteq Bytes
      BY DEF Chars, Bytes
<1>3. DOMAIN n = 1 .. Len(n)
      BY <1>1
<1> QED
    BY <1>1, <1>2, <1>3, CStrings

LEMMA Joined ==
  ASSUME NEW S, NEW s \in Seq(S), NEW t \in Seq(S)
  PROVE  /\ s \o t \in Seq(S) /\ Len(s \o t) = Len(s) + Len(t)
         /\ \A k \in 1 .. Len(s) : (s \o t)[k] = s[k]
         /\ \A k \in 1 .. Len(t) : (s \o t)[Len(s) + k] = t[k]
BY ConcatProperties

LEMMA Appended ==
  ASSUME NEW S, NEW s \in Seq(S), NEW x \in S
  PROVE  /\ Append(s, x) \in Seq(S) /\ Len(Append(s, x)) = Len(s) + 1
         /\ \A k \in 1 .. Len(s) : Append(s, x)[k] = s[k]
         /\ Append(s, x)[Len(s) + 1] = x
BY AppendProperties

LEMMA AppendJoins ==
  ASSUME NEW S, NEW s \in Seq(S), NEW x \in S
  PROVE  Append(s, x) = s \o <<x>>
BY AppendIsConcat

LEMMA Extended ==
  ASSUME NEW S, NEW s \in Seq(S), NEW t \in Seq(S), NEW x \in S,
         NEW w, w = s \o t \o <<x>>
  PROVE  /\ w \in Seq(S) /\ Len(w) = Len(s) + Len(t) + 1
         /\ \A k \in 1 .. Len(t) : w[Len(s) + k] = t[k]
         /\ w[Len(s) + Len(t) + 1] = x
OBVIOUS

LEMMA ExtendedIs ==
  ASSUME NEW S, NEW s \in Seq(S), NEW t \in Seq(S), NEW x \in S
  PROVE  s \o t \o <<x>> = s \o Append(t, x)
<1>1. Append(t, x) = t \o <<x>> /\ <<x>> \in Seq(S)
      BY AppendJoins
<1>2. (s \o t) \o <<x>> = s \o (t \o <<x>>)
      BY <1>1, ConcatAssociative
<1> QED
    BY <1>1, <1>2, Zenon

(* What stands in an array still stands there when more is written.         *)
LEMMA DataStays ==
  ASSUME NEW e \in InfoType, NEW n \in Names, NEW d \in Seq(Bytes), NEW t \in Seq(Bytes),
         DataAt(e, n, d)
  PROVE  DataAt(e, n, d \o t)
<1>0. PICK u : u = d \o t
      OBVIOUS
<1>1. /\ Len(u) = Len(d) + Len(t)
      /\ \A k \in 1 .. Len(d) : u[k] = d[k]
      BY <1>0, Joined
<1>2. e.data_offset \in Nat /\ e.data_size \in Nat /\ Len(d) \in Nat /\ Len(t) \in Nat
      BY DEF InfoType
<1>3. /\ e.data_offset + e.data_size + 1 \in 1 .. Len(d)
      /\ \A k \in 1 .. e.data_size : e.data_offset + k \in 1 .. Len(d)
      BY <1>2 DEF DataAt
<1>4. DataAt(e, n, u)
  <2>1. u[e.data_offset + e.data_size + 1] = Nul
        BY <1>1, <1>3 DEF DataAt
  <2>2. \A k \in 1 .. e.data_size : u[e.data_offset + k] = Content[n][k]
        BY <1>1, <1>3 DEF DataAt
  <2>3. e.data_offset + e.data_size + 1 <= Len(u)
        BY <1>1, <1>2, <1>3
  <2> QED
      BY <2>1, <2>2, <2>3 DEF DataAt
<1> QED
    BY <1>0, <1>4

LEMMA NameStays ==
  ASSUME NEW e \in InfoType, NEW n \in Names, NEW a \in Seq(Chars), NEW t \in Seq(Chars),
         e.name_size = Len(n) + 1, NameAt(e, n, a)
  PROVE  NameAt(e, n, a \o t)
<1>1. /\ Len(a \o t) = Len(a) + Len(t)
      /\ \A k \in 1 .. Len(a) : (a \o t)[k] = a[k]
      BY Joined
<1>2. e.name_offset \in Nat /\ e.name_size \in Nat /\ Len(a) \in Nat /\ Len(t) \in Nat
      BY DEF InfoType
<1>3. Len(n) \in Nat
      BY TreeTypes
<1> QED
    BY <1>1, <1>2, <1>3 DEF NameAt, End

-----------------------------------------------------------------------------
(* The walks keep the invariant.                                            *)

LEMMA InitHolds == Init => IInv
<1> SUFFICES ASSUME Init PROVE IInv
    OBVIOUS
<1>1. PICK S \in SUBSET Names : filelist \in SetToSeqs(S)
      BY DEF Init, Listings
<1>2. IsFiniteSet(S) /\ Cardinality(S) \in Nat
      BY TreeOK, FS_Subset, FS_CardinalityType
<1>3. /\ filelist \in [1 .. Cardinality(S) -> S]
      /\ \A i, j \in 1 .. Cardinality(S) : i # j => filelist[i] # filelist[j]
      BY <1>1, Zenon DEF SetToSeqs
<1>4. filelist \in Seq(Names) /\ Len(filelist) = Cardinality(S)
      BY <1>2, <1>3
<1>5. ListInv
  <2>1. \A n \in readable : \E j \in 1 .. Len(filelist) : filelist[j] = n
        BY <1>3, <1>4 DEF Init, Range
  <2>2. readable \in SUBSET Names
        BY <1>3, <1>4, <2>1
  <2> QED
      BY <1>3, <1>4, <2>1, <2>2 DEF Init, ListInv
<1>6. OffsetInv
      BY DEF Init, OffsetInv
<1>7. FromOK(<<>>) /\ NamesInv(<<>>)
      BY <1>4 DEF Init, FromOK, NamesInv, Passed
<1> QED
    BY <1>5, <1>6, <1>7 DEF IInv

(* The bytes of a file that can be opened, and its entry.                   *)
LEMMA EntryFits ==
  ASSUME NEW n \in Names, data \in Seq(Bytes), nameOffset \in Nat
  PROVE  /\ Entry(n) \in InfoType
         /\ Entry(n).name_offset = nameOffset /\ Entry(n).name_size = Len(n) + 1
         /\ data \o Terminated(n) \in Seq(Bytes)
         /\ DataAt(Entry(n), n, data \o Terminated(n))
<1> DEFINE c == Content[n]
<1>1. c \in Seq(Bytes) /\ Nul \in Bytes /\ Len(n) \in Nat
      BY TreeTypes DEF Bytes
<1>2. /\ Append(c, Nul) \in Seq(Bytes) /\ Len(Append(c, Nul)) = Len(c) + 1
      /\ \A k \in 1 .. Len(c) : Append(c, Nul)[k] = c[k]
      /\ Append(c, Nul)[Len(c) + 1] = Nul
      BY <1>1, Appended
<1>3. Len(data \o c) = Len(data) + Len(c)
      BY <1>1, Joined
<1>4. /\ data \o Append(c, Nul) \in Seq(Bytes)
      /\ Len(data \o Append(c, Nul)) = Len(data) + Len(c) + 1
      /\ \A k \in 1 .. Len(c) + 1 : (data \o Append(c, Nul))[Len(data) + k] = Append(c, Nul)[k]
      BY <1>1, <1>2, Joined
<1>5. Len(data) \in Nat /\ Len(c) \in Nat
      BY <1>1
<1>6. /\ Entry(n).data_offset = Len(data) /\ Entry(n).data_size = Len(c)
      /\ Entry(n).name_offset = nameOffset /\ Entry(n).name_size = Len(n) + 1
      BY <1>3, <1>5 DEF Entry
<1>7. Entry(n) \in InfoType
      BY <1>1, <1>3, <1>5 DEF Entry, InfoType
<1>8. DataAt(Entry(n), n, data \o Append(c, Nul))
      BY <1>2, <1>4, <1>5, <1>6 DEF DataAt
<1> QED
    BY <1>4, <1>6, <1>7, <1>8 DEF Terminated

LEMMA DataPassKeeps == IInv /\ DataPass => IInv'
<1> SUFFICES ASSUME IInv, DataPass PROVE IInv'
    OBVIOUS
<1> DEFINE n == filelist[it]
<1>1. ListInv /\ OffsetInv
      BY DEF IInv
<1>2. PICK from : FromOK(from) /\ NamesInv(from)
      BY DEF IInv
<1>3. /\ it \in 1 .. Len(filelist) /\ n \in Names /\ Len(filelist) \in Nat
      /\ pc = "data" /\ it' = it + 1 /\ name = <<>>
      /\ UNCHANGED <<filelist, readable, pc, name>>
      BY <1>1, <1>2 DEF DataPass, ListInv, NamesInv
<1>4. CASE n \notin readable
  <2>1. UNCHANGED <<data, info, nameOffset>>
        BY <1>4 DEF DataPass, Opens
  <2>2. ListInv'
        BY <1>1, <1>3, <2>1 DEF ListInv
  <2>3. OffsetInv'
        BY <1>1, <2>1 DEF OffsetInv
  <2>4. \A j \in 1 .. Len(filelist) :
          (Passed(j)' /\ filelist[j] \in readable) <=> (Passed(j) /\ filelist[j] \in readable)
        BY <1>3, <1>4 DEF Passed
  <2>5. FromOK(from)'
        BY <1>2, <1>3, <2>1, <2>4 DEF FromOK
  <2>6. NamesInv(from)'
        BY <1>3 DEF NamesInv
  <2> QED
      BY <2>2, <2>3, <2>5, <2>6 DEF IInv
<1>5. CASE n \in readable
  <2> DEFINE e == Entry(n)
             m == Len(info)
  <2>0. PICK t : t = [i \in 1 .. m + 1 |-> IF i <= m THEN from[i] ELSE it]
        OBVIOUS
  <2>1. /\ data' = data \o Terminated(n) /\ info' = Append(info, e)
        /\ nameOffset' = nameOffset + Len(n) + 1
        BY <1>5 DEF DataPass, Opens
  <2>2. data \in Seq(Bytes) /\ nameOffset \in Nat /\ info \in Seq(InfoType) /\ m \in Nat
        BY <1>1 DEF ListInv
  <2>3. /\ e \in InfoType /\ e.name_offset = nameOffset /\ e.name_size = Len(n) + 1
        /\ data' \in Seq(Bytes) /\ DataAt(e, n, data')
        BY <1>3, <2>1, <2>2, EntryFits
  <2>4. /\ info' \in Seq(InfoType) /\ Len(info') = m + 1
        /\ \A i \in 1 .. m : info'[i] = info[i] /\ info[i] \in InfoType
        /\ info'[m + 1] = e
        BY <2>1, <2>2, <2>3, Appended
  <2>5. Len(n) \in Nat
        BY <1>3, TreeTypes
  <2>6. ListInv'
        BY <1>1, <1>3, <2>1, <2>2, <2>3, <2>4, <2>5 DEF ListInv
  <2>7. OffsetInv'
    <3>1. info' # <<>> /\ nameOffset' = End(info'[m + 1])
      <4>1. info' # <<>>
            BY <2>2, <2>4
      <4>2. nameOffset' = nameOffset + (Len(n) + 1)
            BY <2>1, <2>2, <2>5
      <4> QED
          BY <2>3, <2>4, <4>1, <4>2 DEF End
    <3>2. info'[1].name_offset = 0
      <4>1. CASE m = 0
            BY <1>1, <2>2, <2>3, <2>4, <4>1 DEF OffsetInv
      <4>2. CASE m # 0
            BY <1>1, <2>2, <2>4, <4>2 DEF OffsetInv
      <4> QED
          BY <4>1, <4>2
    <3>3. ASSUME NEW i \in 1 .. m
          PROVE  info'[i + 1].name_offset = End(info'[i])
      <4>1. CASE i = m
            BY <1>1, <2>2, <2>3, <2>4, <4>1 DEF OffsetInv
      <4>2. CASE i < m
        <5>1. i + 1 \in 1 .. m /\ i \in 1 .. m - 1
              BY <2>2, <4>2
        <5> QED
            BY <1>1, <2>4, <5>1 DEF OffsetInv
      <4> QED
          BY <2>2, <4>1, <4>2
    <3> QED
        BY <2>2, <2>4, <3>1, <3>2, <3>3 DEF OffsetInv
  <2>8. FromOK(t)'
    <3>1. from \in [1 .. m -> 1 .. Len(filelist)]
          BY <1>2 DEF FromOK
    <3>2. t \in [1 .. m + 1 -> 1 .. Len(filelist)] /\ t[m + 1] = it
          /\ \A i \in 1 .. m : t[i] = from[i]
          BY <1>3, <2>0, <2>2, <3>1
    <3>3. \A i \in 1 .. m : from[i] < it
      <4> SUFFICES ASSUME NEW i \in 1 .. m PROVE from[i] < it
          OBVIOUS
      <4>1. from[i] \in 1 .. Len(filelist)
            BY <3>1
      <4>2. Passed(from[i])
            BY <1>2, <4>1 DEF FromOK
      <4> QED
          BY <1>3, <4>2 DEF Passed
    <3>4. \A i, j \in 1 .. m + 1 : i < j => t[i] < t[j]
      <4> SUFFICES ASSUME NEW i \in 1 .. m + 1, NEW j \in 1 .. m + 1, i < j PROVE t[i] < t[j]
          OBVIOUS
      <4>1. i \in 1 .. m /\ t[i] = from[i]
            BY <2>2, <3>2
      <4>2. CASE j = m + 1
            BY <3>2, <3>3, <4>1, <4>2
      <4>3. CASE j \in 1 .. m
            BY <1>2, <3>2, <4>1, <4>3 DEF FromOK
      <4> QED
          BY <2>2, <4>2, <4>3
    <3>5. ASSUME NEW j \in 1 .. Len(filelist)
          PROVE  (Passed(j)' /\ filelist[j] \in readable) <=> \E i \in 1 .. m + 1 : t[i] = j
      <4>1. CASE j = it
            BY <1>3, <1>5, <2>2, <3>2, <4>1 DEF Passed
      <4>2. CASE j # it
        <5>1. Passed(j)' <=> Passed(j)
              BY <1>3, <4>2 DEF Passed
        <5>2. (\E i \in 1 .. m + 1 : t[i] = j) <=> (\E i \in 1 .. m : from[i] = j)
          <6>1. ASSUME NEW i \in 1 .. m + 1, t[i] = j PROVE i \in 1 .. m /\ from[i] = j
                BY <2>2, <3>2, <4>2, <6>1
          <6>2. ASSUME NEW i \in 1 .. m, from[i] = j PROVE i \in 1 .. m + 1 /\ t[i] = j
                BY <2>2, <3>2, <6>2
          <6> HIDE DEF m
          <6> QED
              BY <6>1, <6>2
        <5> QED
            BY <1>2, <5>1, <5>2 DEF FromOK
      <4> QED
          BY <4>1, <4>2
    <3>6. ASSUME NEW i \in 1 .. m + 1
          PROVE  /\ info'[i].name_size = Len(filelist[t[i]]) + 1
                 /\ DataAt(info'[i], filelist[t[i]], data')
      <4>1. CASE i = m + 1
            BY <2>3, <2>4, <3>2, <4>1
      <4>2. CASE i \in 1 .. m
        <5>1. filelist[from[i]] \in Names /\ info[i] \in InfoType
          <6>1. filelist \in Seq(Names) /\ from[i] \in 1 .. Len(filelist)
                BY <1>1, <3>1, <4>2 DEF ListInv
          <6> QED
              BY <2>4, <4>2, <6>1
        <5>2. Terminated(n) \in Seq(Bytes)
          <6>1. Content[n] \in Seq(Bytes) /\ Nul \in Bytes
                BY <1>3, TreeTypes DEF Bytes
          <6> QED
              BY <6>1, Appended DEF Terminated
        <5>3. /\ DataAt(info[i], filelist[from[i]], data)
              /\ info[i].name_size = Len(filelist[from[i]]) + 1
              BY <1>2, <4>2 DEF FromOK
        <5>4. DataAt(info[i], filelist[from[i]], data')
              BY <2>1, <2>2, <5>1, <5>2, <5>3, DataStays
        <5> QED
            BY <2>4, <3>2, <4>2, <5>3, <5>4
      <4> QED
          BY <2>2, <4>1, <4>2
    <3> QED
        BY <1>3, <2>4, <3>2, <3>4, <3>5, <3>6 DEF FromOK
  <2>9. NamesInv(t)'
        BY <1>3 DEF NamesInv
  <2> QED
      BY <2>6, <2>7, <2>8, <2>9 DEF IInv
<1> QED
    BY <1>4, <1>5

LEMMA DataEndKeeps == IInv /\ DataEnd => IInv'
<1> SUFFICES ASSUME IInv, DataEnd PROVE IInv'
    OBVIOUS
<1>1. ListInv /\ OffsetInv
      BY DEF IInv
<1>2. PICK from : FromOK(from) /\ NamesInv(from)
      BY DEF IInv
<1>3. /\ pc = "data" /\ it = Len(filelist) + 1 /\ it' = 1 /\ pc' = "name"
      /\ data' = Append(data, Nul) /\ name = <<>> /\ Len(filelist) \in Nat
      /\ UNCHANGED <<filelist, readable, name, nameOffset, info>>
      BY <1>1, <1>2 DEF DataEnd, ListInv, NamesInv
<1>4. /\ data \in Seq(Bytes) /\ <<Nul>> \in Seq(Bytes) /\ data' = data \o <<Nul>>
      /\ data' \in Seq(Bytes)
  <2>1. data \in Seq(Bytes) /\ Nul \in Bytes
        BY <1>1 DEF ListInv, Bytes
  <2> QED
      BY <1>3, <2>1, AppendJoins, Appended
<1>5. ListInv'
      BY <1>1, <1>3, <1>4 DEF ListInv
<1>6. OffsetInv'
      BY <1>1, <1>3 DEF OffsetInv
<1>7. /\ from \in [1 .. Len(info) -> 1 .. Len(filelist)]
      /\ \A i \in 1 .. Len(info) : info[i] \in InfoType /\ filelist[from[i]] \in Names
  <2>1. from \in [1 .. Len(info) -> 1 .. Len(filelist)]
        BY <1>2 DEF FromOK
  <2>2. filelist \in Seq(Names) /\ info \in Seq(InfoType)
        BY <1>1 DEF ListInv
  <2> QED
      BY <2>1, <2>2
<1>8. FromOK(from)'
  <2>1. \A i \in 1 .. Len(info) : DataAt(info[i], filelist[from[i]], data')
    <3> SUFFICES ASSUME NEW i \in 1 .. Len(info)
                 PROVE  DataAt(info[i], filelist[from[i]], data')
        OBVIOUS
    <3>1. DataAt(info[i], filelist[from[i]], data)
          BY <1>2 DEF FromOK
    <3> QED
        BY <1>4, <1>7, <3>1, DataStays
  <2>2. \A j \in 1 .. Len(filelist) : Passed(j) /\ Passed(j)'
        BY <1>3 DEF Passed
  <2> QED
      BY <1>2, <1>3, <2>1, <2>2 DEF FromOK
<1>9. NamesInv(from)'
  <2>1. Len(info) \in Nat /\ Len(name') = 0
        BY <1>1, <1>3 DEF ListInv
  <2>2. \A i \in 1 .. Len(info') : from[i] < it' <=> i <= 0
        BY <1>3, <1>7, <2>1
  <2> QED
      BY <1>3, <2>1, <2>2 DEF NamesInv
<1> QED
    BY <1>5, <1>6, <1>8, <1>9 DEF IInv

(* The name offset of entry k + 1 is where the first k names end.           *)
LEMMA NextOffset ==
  ASSUME OffsetInv, ListInv, NEW k \in 0 .. Len(info) - 1
  PROVE  info[k + 1].name_offset = IF k = 0 THEN 0 ELSE End(info[k])
<1>1. Len(info) \in Nat /\ k + 1 \in 1 .. Len(info) /\ info # <<>>
      BY DEF ListInv
<1>2. CASE k = 0
      BY <1>1, <1>2 DEF OffsetInv
<1>3. CASE k # 0
      BY <1>1, <1>3 DEF OffsetInv
<1> QED
    BY <1>2, <1>3

LEMMA NameGrows ==
  ASSUME name \in Seq(Chars), Nul \in Chars, NEW n \in Seq(Chars),
         name' = name \o n \o <<Nul>>
  PROVE  /\ name' = name \o Append(n, Nul) /\ Len(name) \in Nat
         /\ Len(name') = Len(name) + Len(n) + 1
         /\ \A i \in 1 .. Len(n) : name'[Len(name) + i] = n[i]
         /\ name'[Len(name) + Len(n) + 1] = Nul
<1>1. /\ Len(name') = Len(name) + Len(n) + 1
      /\ \A i \in 1 .. Len(n) : name'[Len(name) + i] = n[i]
      /\ name'[Len(name) + Len(n) + 1] = Nul
      BY Extended
<1>2. name \o n \o <<Nul>> = name \o Append(n, Nul)
      BY ExtendedIs
<1>3. Len(name) \in Nat
      OBVIOUS
<1> QED
    BY <1>1, <1>2, <1>3, Zenon

LEMMA NamePassKeeps == IInv /\ NamePass => IInv'
<1> SUFFICES ASSUME IInv, NamePass PROVE IInv'
    OBVIOUS
<1> DEFINE n == filelist[it]
<1>1. ListInv /\ OffsetInv
      BY DEF IInv
<1>2. PICK from : FromOK(from) /\ NamesInv(from)
      BY DEF IInv
<1>3. /\ pc = "name" /\ it \in 1 .. Len(filelist) /\ it' = it + 1 /\ n \in Names
      /\ name' = IF n \in readable THEN name \o n \o <<Nul>> ELSE name
      /\ Len(filelist) \in Nat /\ name \in Seq(Chars)
      /\ UNCHANGED <<filelist, readable, pc, data, nameOffset, info>>
      BY <1>1 DEF NamePass, ListInv, Access
<1>4. PICK k \in 0 .. Len(info) :
        /\ \A i \in 1 .. Len(info) : from[i] < it <=> i <= k
        /\ Len(name) = IF k = 0 THEN 0 ELSE End(info[k])
        /\ \A i \in 1 .. k : NameAt(info[i], filelist[from[i]], name)
      BY <1>2, <1>3 DEF NamesInv
<1>5. /\ from \in [1 .. Len(info) -> 1 .. Len(filelist)]
      /\ \A i, j \in 1 .. Len(info) : i < j => from[i] < from[j]
      /\ \A i \in 1 .. Len(info) :
           /\ info[i] \in InfoType /\ filelist[from[i]] \in Names
           /\ info[i].name_size = Len(filelist[from[i]]) + 1
      /\ Len(info) \in Nat
  <2>1. from \in [1 .. Len(info) -> 1 .. Len(filelist)]
        BY <1>2 DEF FromOK
  <2>2. filelist \in Seq(Names) /\ info \in Seq(InfoType)
        BY <1>1 DEF ListInv
  <2>3. \A i \in 1 .. Len(info) : info[i] \in InfoType /\ filelist[from[i]] \in Names
        BY <2>1, <2>2
  <2> QED
      BY <1>2, <2>1, <2>2, <2>3 DEF FromOK
<1>6. n \in Seq(Chars) /\ Nul \in Chars /\ Len(n) \in Nat /\ Append(n, Nul) \in Seq(Chars)
  <2>1. n \in Seq(Chars) /\ Nul \in Chars
        BY <1>3, TreeTypes DEF Chars
  <2> QED
      BY <2>1, Appended
<1>7. OffsetInv' /\ FromOK(from)'
  <2>1. \A j \in 1 .. Len(filelist) : Passed(j) /\ Passed(j)'
        BY <1>3 DEF Passed
  <2>2. FromOK(from)'
        BY <1>2, <1>3, <2>1 DEF FromOK
  <2> QED
      BY <1>1, <1>3, <2>2 DEF OffsetInv
<1>8. ListInv'
  <2>1. name' \in Seq(Chars)
        BY <1>3, <1>6, Extended
  <2> QED
      BY <1>1, <1>3, <2>1 DEF ListInv
<1>9. CASE n \notin readable
  <2>1. \A i \in 1 .. Len(info) : from[i] # it
        BY <1>2, <1>3, <1>9 DEF FromOK
  <2>2. \A i \in 1 .. Len(info) : from[i] < it' <=> i <= k
    <3> SUFFICES ASSUME NEW i \in 1 .. Len(info) PROVE from[i] < it + 1 <=> i <= k
        BY <1>3
    <3>1. from[i] \in 1 .. Len(filelist) /\ from[i] # it /\ (from[i] < it <=> i <= k)
          BY <1>4, <1>5, <2>1
    <3> QED
        BY <1>3, <3>1
  <2>3. NamesInv(from)'
        BY <1>3, <1>4, <1>9, <2>2 DEF NamesInv
  <2> QED
      BY <1>7, <1>8, <2>3 DEF IInv
<1>10. CASE n \in readable
  <2>1. PICK m \in 1 .. Len(info) : from[m] = it
        BY <1>2, <1>3, <1>10 DEF FromOK, Passed
  <2>2. m = k + 1
    <3>1. ~(m <= k)
          BY <1>3, <1>4, <2>1
    <3>2. CASE k + 1 < m
      <4>1. k + 1 \in 1 .. Len(info) /\ ~(k + 1 <= k)
            BY <1>5, <2>1, <3>2
      <4>2. from[k + 1] < from[m] /\ ~(from[k + 1] < it)
            BY <1>4, <1>5, <2>1, <3>2, <4>1
      <4> QED
          BY <2>1, <4>2
    <3> QED
        BY <1>4, <2>1, <3>1, <3>2
  <2>3. \A i \in 1 .. Len(info) : from[i] < it' <=> i <= m
    <3> SUFFICES ASSUME NEW i \in 1 .. Len(info) PROVE from[i] < it' <=> i <= m
        OBVIOUS
    <3>1. from[i] \in 1 .. Len(filelist) /\ it' = it + 1
          BY <1>3, <1>5
    <3>2. CASE i <= k
      <4>1. from[i] < it
            BY <1>4, <3>2
      <4> QED
          BY <1>3, <2>2, <3>1, <3>2, <4>1
    <3>3. CASE i = m
          BY <1>3, <2>1, <3>1, <3>3
    <3>4. CASE m < i
      <4>1. from[m] < from[i]
            BY <1>5, <2>1, <3>4
      <4> QED
          BY <1>3, <2>1, <3>1, <3>4, <4>1
    <3> QED
        BY <2>2, <3>2, <3>3, <3>4
  <2>4. info[m].name_offset = Len(name)
    <3>1. k \in 0 .. Len(info) - 1
          BY <2>1, <2>2
    <3> QED
        BY <1>1, <1>4, <2>2, <3>1, NextOffset
  <2>5. /\ name' = name \o Append(n, Nul) /\ Len(name) \in Nat
        /\ Len(name') = Len(name) + Len(n) + 1
        /\ \A i \in 1 .. Len(n) : name'[Len(name) + i] = n[i]
        /\ name'[Len(name) + Len(n) + 1] = Nul
    <3>1. name \in Seq(Chars) /\ n \in Seq(Chars) /\ Nul \in Chars
          BY <1>3, <1>6
    <3>2. name' = name \o n \o <<Nul>>
          BY <1>3, <1>10
    <3> QED
        BY <3>1, <3>2, NameGrows
  <2>7. End(info[m]) = Len(name) + Len(n) + 1
    <3>1. info[m].name_size = Len(n) + 1
          BY <1>5, <2>1
    <3> QED
        BY <1>6, <2>4, <2>5, <3>1 DEF End
  <2>8. \A i \in 1 .. m : NameAt(info[i], filelist[from[i]], name')
    <3> SUFFICES ASSUME NEW i \in 1 .. m PROVE NameAt(info[i], filelist[from[i]], name')
        OBVIOUS
    <3>1. CASE i = m
      <4>1. NameAt(info[m], n, name')
            BY <1>6, <2>4, <2>5, <2>7 DEF NameAt
      <4> QED
          BY <2>1, <3>1, <4>1
    <3>2. CASE i # m
      <4>1. i \in 1 .. k /\ i \in 1 .. Len(info)
            BY <1>5, <2>2, <3>2
      <4> QED
          BY <1>3, <1>4, <1>5, <1>6, <2>5, <4>1, NameStays
    <3> QED
        BY <3>1, <3>2
  <2>9. NamesInv(from)'
    <3>1. m \in 0 .. Len(info') /\ m # 0 /\ Len(name') = End(info'[m])
          BY <1>3, <1>5, <2>1, <2>5, <2>7
    <3> QED
        BY <1>3, <2>3, <2>8, <3>1 DEF NamesInv
  <2> QED
      BY <1>7, <1>8, <2>9 DEF IInv
<1> QED
    BY <1>9, <1>10

LEMMA NameEndKeeps == IInv /\ NameEnd => IInv'
<1> SUFFICES ASSUME IInv, NameEnd PROVE IInv'
    OBVIOUS
<1>1. ListInv /\ OffsetInv
      BY DEF IInv
<1>2. PICK from : FromOK(from) /\ NamesInv(from)
      BY DEF IInv
<1>3. /\ pc = "name" /\ it = Len(filelist) + 1 /\ pc' = "done"
      /\ name' = Append(name, Nul) /\ Len(filelist) \in Nat
      /\ UNCHANGED <<filelist, readable, it, data, nameOffset, info>>
      BY <1>1 DEF NameEnd, ListInv
<1>4. /\ name \in Seq(Chars) /\ <<Nul>> \in Seq(Chars) /\ name' = name \o <<Nul>>
      /\ name' \in Seq(Chars)
  <2>1. name \in Seq(Chars) /\ Nul \in Chars
        BY <1>1 DEF ListInv, Chars
  <2> QED
      BY <1>3, <2>1, AppendJoins, Appended
<1>5. ListInv' /\ OffsetInv'
      BY <1>1, <1>3, <1>4 DEF ListInv, OffsetInv
<1>6. FromOK(from)'
  <2>1. \A j \in 1 .. Len(filelist) : Passed(j) /\ Passed(j)'
        BY <1>3 DEF Passed
  <2> QED
      BY <1>2, <1>3, <2>1 DEF FromOK
<1>7. NamesInv(from)'
  <2> SUFFICES ASSUME NEW i \in 1 .. Len(info)
               PROVE  NameAt(info[i], filelist[from[i]], name')
      BY <1>3 DEF NamesInv
  <2>1. PICK k \in 0 .. Len(info) :
          /\ \A j \in 1 .. Len(info) : from[j] < it <=> j <= k
          /\ \A j \in 1 .. k : NameAt(info[j], filelist[from[j]], name)
        BY <1>2, <1>3 DEF NamesInv
  <2>2. /\ from[i] \in 1 .. Len(filelist)
        /\ info[i].name_size = Len(filelist[from[i]]) + 1
        BY <1>2 DEF FromOK
  <2>3. filelist[from[i]] \in Names /\ info[i] \in InfoType
    <3>1. filelist \in Seq(Names) /\ info \in Seq(InfoType)
          BY <1>1 DEF ListInv
    <3> QED
        BY <2>2, <3>1
  <2>4. NameAt(info[i], filelist[from[i]], name)
        BY <1>3, <2>1, <2>2
  <2> QED
      BY <1>4, <2>2, <2>3, <2>4, NameStays
<1> QED
    BY <1>5, <1>6, <1>7 DEF IInv

LEMMA StutterKeeps == IInv /\ UNCHANGED vars => IInv'
<1> SUFFICES ASSUME IInv, UNCHANGED vars PROVE IInv'
    OBVIOUS
<1>1. PICK from : FromOK(from) /\ NamesInv(from)
      BY DEF IInv
<1>2. ListInv' /\ OffsetInv'
      BY DEF IInv, vars, ListInv, OffsetInv
<1>3. FromOK(from)'
  <2>1. \A j \in 1 .. Len(filelist) : Passed(j)' <=> Passed(j)
        BY DEF vars, Passed
  <2> QED
      BY <1>1, <2>1 DEF vars, FromOK
<1>4. NamesInv(from)'
      BY <1>1 DEF vars, NamesInv
<1> QED
    BY <1>2, <1>3, <1>4 DEF IInv

LEMMA Inductive == Spec => []IInv
<1>1. IInv /\ [fsgen]_vars => IInv'
      BY DataPassKeeps, DataEndKeeps, NamePassKeeps, NameEndKeeps, StutterKeeps DEF fsgen
<1> QED
    BY <1>1, InitHolds, PTL DEF Spec

-----------------------------------------------------------------------------
(* What RC.c finds.                                                         *)

LEMMA MinIs ==
  ASSUME NEW S \in SUBSET Nat, NEW m \in S, \A x \in S : m <= x
  PROVE  Min(S) = m
<1>1. \A x \in S : (\A y \in S : x <= y) => x = m
      BY SMT
<1> QED
    BY <1>1 DEF Min

(* A name and an entry match exactly if they are equal.                     *)
LEMMA Matches ==
  ASSUME NEW e \in InfoType, NEW n \in Names, NEW C, NEW q \in Seq(C),
         name \in Seq(Chars), e.name_size = Len(n) + 1, NameAt(e, n, name),
         \A i \in 1 .. Len(q) : q[i] # Nul
  PROVE  NameCmp(q, e.name_offset) <=> q = n
<1>0. PICK off : off = e.name_offset
      OBVIOUS
<1> DEFINE zq  == Append(q, Nul)
           stops == {i \in 1 .. Len(name) - off : name[off + i] = Nul}
           ends == {Len(zq)} \cup stops
           m == IF Len(q) <= Len(n) THEN Len(q) + 1 ELSE Len(n) + 1
           D == C \cup Chars
<1>1. /\ n \in Seq(Chars) /\ Len(n) \in Nat /\ Len(q) \in Nat /\ off \in Nat
      /\ Len(name) \in Nat /\ \A i \in 1 .. Len(n) : n[i] # Nul
      BY <1>0, TreeTypes DEF InfoType
<1>2. /\ off + Len(n) + 1 <= Len(name) /\ name[off + Len(n) + 1] = Nul
      /\ \A i \in 1 .. Len(n) : name[off + i] = n[i]
  <2>1. End(e) = off + Len(n) + 1
    <3>1. Len(n) \in Nat /\ off \in Nat
          BY <1>1
    <3>2. End(e) = off + e.name_size
          BY <1>0 DEF End
    <3> QED
        BY <3>1, <3>2
  <2> QED
      BY <1>0, <2>1 DEF NameAt
<1>2a. q \in Seq(D) /\ n \in Seq(D)
      BY <1>1
<1>3. /\ Len(zq) = Len(q) + 1 /\ zq[Len(q) + 1] = Nul
      /\ \A i \in 1 .. Len(q) : zq[i] = q[i]
  <2>1. Nul \in D
        BY DEF Chars
  <2> QED
      BY <1>2a, <2>1, Appended
<1>4. Len(n) + 1 \in stops /\ stops \in SUBSET Nat /\ \A i \in stops : Len(n) + 1 <= i
  <2>1. Len(n) + 1 \in stops
        BY <1>1, <1>2
  <2>2. ASSUME NEW i \in stops PROVE i \in Nat /\ Len(n) + 1 <= i
    <3>1. i \in 1 .. Len(name) - off /\ name[off + i] = Nul
          OBVIOUS
    <3>2. i \notin 1 .. Len(n)
          BY <1>1, <1>2, <3>1
    <3> QED
        BY <1>1, <3>1, <3>2
  <2> QED
      BY <2>1, <2>2
<1> HIDE DEF stops, D
<1>5. Min(ends) = m
  <2>1. ends \in SUBSET Nat /\ m \in ends /\ \A x \in ends : m <= x
    <3>1. ends = {Len(q) + 1} \cup stops
          BY <1>3
    <3> HIDE DEF ends
    <3>2. m \in Nat /\ m <= Len(q) + 1 /\ m <= Len(n) + 1 /\ m \in {Len(q) + 1, Len(n) + 1}
          BY <1>1
    <3>3. Len(q) + 1 \in Nat
          BY <1>1
    <3> HIDE DEF m
    <3>4. ends \in SUBSET Nat
          BY <1>4, <3>1, <3>3
    <3>5. m \in ends
          BY <1>4, <3>1, <3>2
    <3>6. \A x \in ends : m <= x
          BY <1>1, <1>4, <3>1, <3>2
    <3> QED
        BY <3>4, <3>5, <3>6
  <2> HIDE DEF ends, m
  <2> QED
      BY <2>1, MinIs
<1>6. NameCmp(q, off) <=> \A i \in 1 .. m : zq[i] = name[off + i]
      BY <1>5 DEF NameCmp, stops
<1>7. ASSUME q = n PROVE \A i \in 1 .. m : zq[i] = name[off + i]
      BY <1>1, <1>2, <1>3, <1>7
<1>8. ASSUME \A i \in 1 .. m : zq[i] = name[off + i] PROVE q = n
  <2>1. Len(q) = Len(n)
    <3>1. CASE Len(q) < Len(n)
      <4>1. m = Len(q) + 1 /\ Len(q) + 1 \in 1 .. m /\ Len(q) + 1 \in 1 .. Len(n)
            BY <1>1, <3>1
      <4> QED
          BY <1>1, <1>2, <1>3, <1>8, <4>1
    <3>2. CASE Len(n) < Len(q)
      <4>1. m = Len(n) + 1 /\ Len(n) + 1 \in 1 .. m /\ Len(n) + 1 \in 1 .. Len(q)
            BY <1>1, <3>2
      <4>2. off + (Len(n) + 1) = off + Len(n) + 1
            BY <1>1
      <4> QED
          BY <1>2, <1>3, <1>8, <4>1, <4>2
    <3> QED
        BY <1>1, <3>1, <3>2
  <2>2. \A i \in 1 .. Len(q) : q[i] = n[i]
    <3> SUFFICES ASSUME NEW i \in 1 .. Len(q) PROVE q[i] = n[i]
        OBVIOUS
    <3>1. i \in 1 .. m /\ i \in 1 .. Len(n)
          BY <1>1, <2>1
    <3> QED
        BY <1>2, <1>3, <1>8, <3>1
  <2> QED
      BY <1>2a, <2>1, <2>2, SeqEqual
<1> QED
    BY <1>0, <1>6, <1>7, <1>8

LEMMA AskedOK ==
  ASSUME NEW q \in Asked
  PROVE  q \in Seq(Chars) /\ \A i \in 1 .. Len(q) : q[i] # Nul
<1>1. PICK n \in Names : q \in {n, Tail(n), Front(n), Append(n, n[1])}
      BY DEF Asked
<1>2. n \in Seq(Chars) /\ n # <<>> /\ \A i \in 1 .. Len(n) : n[i] # Nul
      BY <1>1, TreeTypes
<1>3. Len(n) \in Nat \ {0}
      BY <1>2, EmptySeq
<1>4. CASE q = n
      BY <1>2, <1>4
<1>5. CASE q = Tail(n)
  <2>1. n \in Seq(Chars) /\ n # <<>>
        BY <1>2
  <2>2. PICK t : t = Tail(n)
        OBVIOUS
  <2>3. t \in Seq(Chars) /\ Len(t) = Len(n) - 1
        BY <2>1, <2>2, HeadTailProperties
  <2>4. \A i \in 1 .. Len(t) : t[i] = n[i + 1]
        BY <2>1, <2>2, HeadTailProperties
  <2>5. q = t
        BY <1>5, <2>2
  <2>6. \A i \in 1 .. Len(t) : t[i] # Nul
        BY <1>2, <1>3, <2>3, <2>4
  <2> QED
      BY <2>3, <2>5, <2>6
<1>6. CASE q = Front(n)
  <2>1. PICK t : t = SubSeq(n, 1, Len(n) - 1)
        OBVIOUS
  <2>2. 1 \in Int /\ Len(n) - 1 \in Int /\ \A i \in 1 .. Len(n) - 1 : n[i] \in Chars
        BY <1>2, <1>3
  <2>3. /\ t \in Seq(Chars)
        /\ Len(t) = IF 1 <= Len(n) - 1 THEN Len(n) - 1 - 1 + 1 ELSE 0
        /\ \A i \in 1 .. Len(n) - 1 - 1 + 1 : t[i] = n[1 + i - 1]
        BY <2>1, <2>2, SubSeqProperties
  <2>4. Len(t) = Len(n) - 1 /\ \A i \in 1 .. Len(t) : t[i] = n[i]
    <3>1. PICK l : l = Len(n)
          OBVIOUS
    <3>2. Len(t) = l - 1
          BY <1>3, <2>3, <3>1
    <3>3. ASSUME NEW i \in 1 .. l - 1 PROVE t[i] = n[i]
      <4>1. l - 1 - 1 + 1 = l - 1 /\ 1 + i - 1 = i
            BY <1>3, <3>1
      <4> QED
          BY <2>3, <3>1, <4>1
    <3> QED
        BY <3>1, <3>2, <3>3
  <2>5. \A i \in 1 .. Len(t) : t[i] # Nul
        BY <1>2, <1>3, <2>4
  <2>6. q = t
        BY <1>6, <2>1 DEF Front
  <2> QED
      BY <2>3, <2>5, <2>6
<1>7. CASE q = Append(n, n[1])
  <2>1. n[1] \in Chars /\ n[1] # Nul
        BY <1>2, <1>3
  <2>2. /\ q \in Seq(Chars) /\ Len(q) = Len(n) + 1 /\ q[Len(n) + 1] = n[1]
        /\ \A i \in 1 .. Len(n) : q[i] = n[i]
        BY <1>2, <1>7, <2>1, Appended
  <2> QED
      BY <1>2, <1>3, <2>1, <2>2
<1> QED
    BY <1>1, <1>4, <1>5, <1>6, <1>7

(* The only entry a name can match is that of its file.                     *)
LEMMA Found ==
  ASSUME IInv, pc = "done",
         NEW C, NEW q \in Seq(C), \A i \in 1 .. Len(q) : q[i] # Nul
  PROVE  IF q \in readable
         THEN LET i == FindRCInfoByName(q)
              IN  /\ i \in 1 .. Len(info) /\ i # Null
                  /\ info[i] \in InfoType /\ DataAt(info[i], q, data)
         ELSE FindRCInfoByName(q) = Null
<1>1. ListInv
      BY DEF IInv
<1>2. PICK from : FromOK(from) /\ NamesInv(from)
      BY DEF IInv
<1>3. filelist \in Seq(Names) /\ info \in Seq(InfoType) /\ name \in Seq(Chars)
      BY <1>1 DEF ListInv
<1>4. /\ from \in [1 .. Len(info) -> 1 .. Len(filelist)]
      /\ \A i, j \in 1 .. Len(info) : i < j => from[i] < from[j]
      /\ DOMAIN info = 1 .. Len(info) /\ Len(info) \in Nat
      BY <1>2, <1>3 DEF FromOK
<1>5. ASSUME NEW i \in 1 .. Len(info)
      PROVE  /\ info[i] \in InfoType /\ filelist[from[i]] \in readable
             /\ DataAt(info[i], filelist[from[i]], data)
             /\ NameCmp(q, info[i].name_offset) <=> q = filelist[from[i]]
  <2>1. from[i] \in 1 .. Len(filelist) /\ info[i] \in InfoType
        BY <1>3, <1>4
  <2>2. filelist[from[i]] \in Names /\ filelist[from[i]] \in readable
        BY <1>2, <1>3, <2>1 DEF FromOK
  <2>3. /\ info[i].name_size = Len(filelist[from[i]]) + 1
        /\ DataAt(info[i], filelist[from[i]], data)
        BY <1>2 DEF FromOK
  <2>4. NameAt(info[i], filelist[from[i]], name)
        BY <1>2 DEF NamesInv
  <2>5. NameCmp(q, info[i].name_offset) <=> q = filelist[from[i]]
        BY <1>3, <2>1, <2>2, <2>3, <2>4, Matches
  <2> QED
      BY <2>1, <2>2, <2>3, <2>5
<1> DEFINE hits == {i \in DOMAIN info : NameCmp(q, info[i].name_offset)}
<1>6. hits = {i \in 1 .. Len(info) : q = filelist[from[i]]}
      BY <1>4, <1>5
<1>7. FindRCInfoByName(q) = IF hits = {} THEN Null ELSE Min(hits)
      BY DEF FindRCInfoByName
<1> HIDE DEF hits
<1>8. CASE q \in readable
  <2>1. PICK j \in 1 .. Len(filelist) : filelist[j] = q
        BY <1>1, <1>8 DEF ListInv
  <2>2. PICK i \in 1 .. Len(info) : from[i] = j
        BY <1>2, <1>8, <2>1 DEF FromOK, Passed
  <2>3. ASSUME NEW k \in hits PROVE k = i
    <3>1. k \in 1 .. Len(info) /\ filelist[from[k]] = q
          BY <1>6
    <3>2. from[k] \in 1 .. Len(filelist)
          BY <1>4, <3>1
    <3>3. from[k] = from[i]
          BY <1>1, <2>1, <2>2, <3>1, <3>2 DEF ListInv
    <3> QED
        BY <1>4, <2>2, <3>1, <3>3
  <2>4. i \in hits /\ hits = {i}
        BY <1>6, <2>1, <2>2, <2>3
  <2>5. Min(hits) = i
        BY <1>4, <2>2, <2>4, MinIs
  <2>6. FindRCInfoByName(q) = i /\ i # Null
        BY <1>4, <1>7, <2>2, <2>4, <2>5, NullDiffers
  <2> QED
      BY <1>5, <1>8, <2>1, <2>2, <2>6
<1>9. CASE q \notin readable
  <2>1. hits = {}
        BY <1>5, <1>6, <1>9
  <2> QED
      BY <1>7, <1>9, <2>1
<1> QED
    BY <1>8, <1>9

LEMMA ServedIs ==
  ASSUME IInv, pc = "done", NEW q \in readable, NEW C, q \in Seq(C),
         \A i \in 1 .. Len(q) : q[i] # Nul
  PROVE  /\ RCGetHandle(q) \in Nat /\ RCGetSize(q) = Len(Content[q])
         /\ RCGetHandle(q) + RCGetSize(q) + 1 <= Len(data)
         /\ \A k \in 1 .. RCGetSize(q) : data[RCGetHandle(q) + k] = Content[q][k]
         /\ data[RCGetHandle(q) + RCGetSize(q) + 1] = Nul
<1>1. PICK i : i = FindRCInfoByName(q)
      OBVIOUS
<1>2. i # Null /\ info[i] \in InfoType /\ DataAt(info[i], q, data)
      BY <1>1, Found
<1>3. RCGetHandle(q) = info[i].data_offset /\ RCGetSize(q) = info[i].data_size
      BY <1>1, <1>2 DEF RCGetHandle, RCGetSize
<1> QED
    BY <1>2, <1>3 DEF DataAt, InfoType

LEMMA DataRange ==
  ASSUME NEW d \in Seq(Bytes), NEW c \in Seq(Bytes), NEW off \in Nat,
         off + Len(c) + 1 <= Len(d), \A k \in 1 .. Len(c) : d[off + k] = c[k]
  PROVE  SubSeq(d, off + 1, off + Len(c)) = c
<1> DEFINE u == SubSeq(d, off + 1, off + Len(c))
<1>1. Len(c) \in Nat /\ Len(d) \in Nat
      OBVIOUS
<1>2. /\ off + 1 \in Int /\ off + Len(c) \in Int
      /\ \A i \in off + 1 .. off + Len(c) : d[i] \in Bytes
      BY <1>1
<1>3. /\ u \in Seq(Bytes)
      /\ Len(u) = IF off + 1 <= off + Len(c) THEN off + Len(c) - (off + 1) + 1 ELSE 0
      /\ \A i \in 1 .. off + Len(c) - (off + 1) + 1 : u[i] = d[off + 1 + i - 1]
      BY <1>2, SubSeqProperties
<1> HIDE DEF u
<1>4. Len(u) = Len(c) /\ \A i \in 1 .. Len(c) : u[i] = c[i]
      BY <1>1, <1>3
<1>5. u = c
      BY <1>3, <1>4, SeqEqual
<1> QED
    BY <1>5 DEF u

LEMMA TableServed == IInv => TableServesFiles
<1> SUFFICES ASSUME IInv, pc = "done", NEW q \in Asked
             PROVE  IF q \in readable
                    THEN RCGetHandle(q) # Null /\ Served(q) = Content[q]
                    ELSE RCGetHandle(q) = Null /\ RCGetSize(q) = 0
    BY DEF TableServesFiles
<1>1. q \in Seq(Chars) /\ \A i \in 1 .. Len(q) : q[i] # Nul
      BY AskedOK
<1>2. CASE q \in readable
  <2>1. data \in Seq(Bytes) /\ q \in Names
        BY <1>2 DEF IInv, ListInv
  <2>2. Content[q] \in Seq(Bytes)
        BY <2>1, TreeTypes
  <2>3. PICK off : off = RCGetHandle(q)
        OBVIOUS
  <2>4. /\ off \in Nat /\ RCGetSize(q) = Len(Content[q])
        /\ off + Len(Content[q]) + 1 <= Len(data)
        /\ \A k \in 1 .. Len(Content[q]) : data[off + k] = Content[q][k]
        BY <1>1, <1>2, <2>3, ServedIs
  <2>5. Served(q) = Content[q]
        BY <2>1, <2>2, <2>3, <2>4, DataRange DEF Served
  <2> QED
      BY <1>2, <2>3, <2>4, <2>5, NullDiffers
<1>3. CASE q \notin readable
      BY <1>1, <1>3, Found DEF RCGetHandle, RCGetSize
<1> QED
    BY <1>2, <1>3

LEMMA TextsServed == IInv => TextsPrintWhole
<1> SUFFICES ASSUME IInv, pc = "done", NEW q \in readable, Nul \notin Range(Content[q])
             PROVE  CString(data, RCGetHandle(q)) = Content[q]
    BY DEF TextsPrintWhole
<1> DEFINE c == Content[q]
<1>1. data \in Seq(Bytes) /\ q \in Names
      BY DEF IInv, ListInv
<1>2. q \in Seq(Chars) /\ c \in Seq(Bytes) /\ \A i \in 1 .. Len(q) : q[i] # Nul
      BY <1>1, TreeTypes
<1>3. PICK off : off = RCGetHandle(q)
      OBVIOUS
<1>4. /\ off \in Nat /\ off + Len(c) + 1 <= Len(data)
      /\ \A k \in 1 .. Len(c) : data[off + k] = c[k]
      /\ data[off + Len(c) + 1] = Nul
      BY <1>2, <1>3, ServedIs
<1>5. \A k \in 1 .. Len(c) : c[k] # Nul
      BY <1>2 DEF Range
<1>6. Len(c) \in Nat /\ Len(data) \in Nat
      BY <1>1, <1>2
<1> DEFINE stops == {i \in off + 1 .. Len(data) : data[i] = Nul}
<1>7. Min(stops) = off + Len(c) + 1
  <2>1. off + Len(c) + 1 \in stops /\ stops \in SUBSET Nat
        BY <1>4, <1>6
  <2>2. ASSUME NEW i \in stops PROVE off + Len(c) + 1 <= i
    <3>1. i \in off + 1 .. Len(data) /\ data[i] = Nul
          OBVIOUS
    <3>2. ASSUME i < off + Len(c) + 1 PROVE FALSE
      <4>1. i - off \in 1 .. Len(c) /\ off + (i - off) = i
            BY <1>4, <1>6, <3>1, <3>2
      <4> QED
          BY <1>4, <1>5, <3>1, <4>1
    <3> QED
        BY <1>4, <1>6, <3>1, <3>2
  <2> HIDE DEF stops
  <2> QED
      BY <2>1, <2>2, MinIs
<1>8. CString(data, off) = SubSeq(data, off + 1, Min(stops) - 1)
      BY DEF CString
<1>9. Min(stops) - 1 = off + Len(c)
      BY <1>4, <1>6, <1>7
<1> HIDE DEF stops
<1>10. SubSeq(data, off + 1, off + Len(c)) = c
      BY <1>1, <1>2, <1>4, DataRange
<1> QED
    BY <1>3, <1>8, <1>9, <1>10

-----------------------------------------------------------------------------
(* Theorems.                                                                *)

(* The arrays hold nothing but names, bytes of the files and zeros, and    *)
(* every entry is one the C structure can be written from (fsgen.cpp).     *)
THEOREM TableTypeCorrect == Spec => []TypeOK
<1>1. IInv => TypeOK
  <2> SUFFICES ASSUME ListInv PROVE TypeOK
      BY DEF IInv
  <2>1. \A i \in DOMAIN data : data[i] = Nul \/ \E n \in Names : data[i] \in Range(Content[n])
    <3>1. \A i \in DOMAIN data : data[i] \in Bytes
          BY DEF ListInv
    <3> QED
        BY <3>1 DEF Bytes
  <2>2. \A i \in DOMAIN name : name[i] = Nul \/ \E n \in Names : name[i] \in Range(n)
    <3>1. \A i \in DOMAIN name : name[i] \in Chars
          BY DEF ListInv
    <3> QED
        BY <3>1 DEF Chars
  <2> QED
      BY <2>1, <2>2 DEF ListInv, TypeOK
<1> QED
    BY <1>1, Inductive, PTL

(* FindRCInfoByName finds every file fsgen could read, with its bytes, and *)
(* nothing under a name that only begins or ends like one (RC.c).          *)
THEOREM TableServes == Spec => []TableServesFiles
BY TableServed, Inductive, PTL

(* The zero fsgen writes behind every file ends it as a C string.           *)
THEOREM TextsWhole == Spec => []TextsPrintWhole
BY TextsServed, Inductive, PTL

-----------------------------------------------------------------------------
(* What the web server reads is the file its name stands for: for any      *)
(* directory and any names it asks for, with any number of files open.     *)

(* Induction over the natural numbers, for a set: what a loop has built     *)
(* after n rounds.                                                          *)
LEMMA Least ==
  ASSUME NEW T, T \subseteq Nat, T # {}
  PROVE  \E x \in T : \A y \in T : ~(y < x)
<1> DEFINE R == {ss \in Nat \X Nat : ss[1] < ss[2]}
<1>1. IsWellFoundedOn(R, Nat)
  BY NatLessThanWellFounded DEF OpToRel
<1> HIDE DEF R
<1>2. \E x \in T : \A y \in T : ~(<<y, x>> \in R)
  BY <1>1, WFMin
<1> QED
  BY <1>2 DEF R

LEMMA NatSetInduction ==
  ASSUME NEW S, 0 \in S, \A n \in Nat : n \in S => n + 1 \in S
  PROVE  \A n \in Nat : n \in S
<1> SUFFICES ASSUME Nat \ S # {} PROVE FALSE
  OBVIOUS
<1>1. PICK T : T = Nat \ S
  OBVIOUS
<1>2. PICK x \in T : \A y \in T : ~(y < x)
  BY <1>1, Least
<1>3. x \in Nat /\ x # 0
  BY <1>1
<1>4. x - 1 \in Nat /\ x - 1 < x /\ (x - 1) + 1 = x
  BY <1>3
<1>5. x - 1 \in S
  BY <1>1, <1>2, <1>4
<1> QED
  BY <1>1, <1>4, <1>5

-----------------------------------------------------------------------------
(* Picking the places of a set from a sequence, up to a place.              *)

Upto(S, j) == {p \in S : p <= j}

LEMMA UptoNext ==
  ASSUME NEW S, S \subseteq Nat, NEW j \in Nat
  PROVE  /\ Upto(S, j) \subseteq 0 .. j /\ j + 1 \notin Upto(S, j)
         /\ j + 1 \in S => Upto(S, j + 1) = Upto(S, j) \cup {j + 1}
         /\ j + 1 \notin S => Upto(S, j + 1) = Upto(S, j)
<1>1. \A p \in S : p \in Nat
  OBVIOUS
<1>2. \A p \in Nat : (p <= j <=> p \in 0 .. j) /\ (p <= j + 1 <=> p <= j \/ p = j + 1)
  OBVIOUS
<1>3. ~(j + 1 <= j) /\ j + 1 <= j + 1
  OBVIOUS
<1>4. Upto(S, j) \subseteq 0 .. j /\ j + 1 \notin Upto(S, j)
  BY <1>1, <1>2, <1>3, Zenon DEF Upto
<1>5. ASSUME NEW p PROVE p \in Upto(S, j + 1) <=> p \in Upto(S, j) \/ (p = j + 1 /\ p \in S)
  BY <1>1, <1>2, <1>3, Zenon DEF Upto
<1>6. ASSUME j + 1 \in S PROVE Upto(S, j + 1) = Upto(S, j) \cup {j + 1}
  BY <1>5, <1>6
<1>7. ASSUME j + 1 \notin S PROVE Upto(S, j + 1) = Upto(S, j)
  <2>1. \A p : p \in Upto(S, j + 1) <=> p \in Upto(S, j)
    BY <1>5, <1>7
  <2> QED
    BY <2>1 DEF Upto
<1> QED
  BY <1>4, <1>6, <1>7

LEMMA UptoFinite ==
  ASSUME NEW S, S \subseteq Nat, NEW j \in Nat
  PROVE  IsFiniteSet(Upto(S, j)) /\ Cardinality(Upto(S, j)) \in Nat
<1>1. Upto(S, j) \subseteq 0 .. j
  BY UptoNext
<1>2. IsFiniteSet(0 .. j)
  BY FS_Interval
<1> QED
  BY <1>1, <1>2, FS_Subset, FS_CardinalityType

(* A place that is not in the set changes nothing.                          *)
LEMMA PickedSkip ==
  ASSUME NEW w, NEW S, S \subseteq Nat, NEW j \in Nat, j + 1 \notin S
  PROVE  Picked(w, Upto(S, j + 1)) = Picked(w, Upto(S, j))
<1>1. Upto(S, j + 1) = Upto(S, j)
  BY UptoNext
<1> QED
  BY <1>1

(* A place that is in the set adds the character that stands there.         *)
LEMMA PickedNext ==
  ASSUME NEW C, NEW w \in Seq(C), NEW S, S \subseteq Nat, NEW j \in Nat,
         j + 1 \in S, j + 1 \in 1 .. Len(w), Picked(w, Upto(S, j)) \in Seq(C)
  PROVE  Picked(w, Upto(S, j + 1)) = Append(Picked(w, Upto(S, j)), w[j + 1])
<1> DEFINE A == Upto(S, j)
           B == Upto(S, j + 1)
           c == Cardinality(A)
<1>1. B = A \cup {j + 1} /\ j + 1 \notin A /\ A \subseteq Nat /\ \A p \in A : p <= j
  <2>1. A \subseteq 0 .. j /\ j + 1 \notin A /\ B = A \cup {j + 1}
    BY UptoNext
  <2> HIDE DEF A, B
  <2>2. \A p \in 0 .. j : p \in Nat /\ p <= j
    OBVIOUS
  <2> QED
    BY <2>1, <2>2, Zenon
<1>2. IsFiniteSet(A) /\ c \in Nat
  BY UptoFinite
<1>3. Cardinality(B) = c + 1
  BY <1>1, <1>2, FS_AddElement
<1> HIDE DEF A, B
<1>4. ASSUME NEW p \in A PROVE Upto(B, p) = Upto(A, p)
  <2>1. ~(j + 1 <= p)
    BY <1>1
  <2> QED
    BY <1>1, <2>1, Zenon DEF Upto
<1>5. Upto(B, j + 1) = B
  <2>1. \A p \in B : p <= j + 1
    BY <1>1
  <2> QED
    BY <2>1, Zenon DEF Upto
<1>6. ASSUME NEW p \in A PROVE Cardinality(Upto(A, p)) \in Nat /\ Cardinality(Upto(A, p)) <= c
  <2>1. Upto(A, p) \subseteq A
    BY DEF Upto
  <2> QED
    BY <1>2, <2>1, FS_Subset, FS_CardinalityType
<1>7. ASSUME NEW k \in 1 .. c PROVE Nth(B, k) = Nth(A, k)
  <2>1. {p \in B : Cardinality(Upto(B, p)) = k} = {p \in A : Cardinality(Upto(A, p)) = k}
    <3>1. Cardinality(Upto(B, j + 1)) # k
      BY <1>2, <1>3, <1>5
    <3>2. \A p \in A : Cardinality(Upto(B, p)) = Cardinality(Upto(A, p))
      BY <1>4
    <3> QED
      BY <1>1, <3>1, <3>2
  <2> QED
    BY <2>1 DEF Nth, Upto
<1>8. Nth(B, c + 1) = j + 1
  <2>1. {p \in B : Cardinality(Upto(B, p)) = c + 1} = {j + 1}
    <3>1. Cardinality(Upto(B, j + 1)) = c + 1
      BY <1>3, <1>5
    <3>2. \A p \in A : Cardinality(Upto(B, p)) # c + 1
      BY <1>2, <1>4, <1>6
    <3> QED
      BY <1>1, <3>1, <3>2
  <2> QED
    BY <2>1 DEF Nth, Upto
<1>9. Picked(w, A) = [k \in 1 .. c |-> w[Nth(A, k)]]
  BY DEF Picked
<1>10. Picked(w, B) = [k \in 1 .. c + 1 |-> w[Nth(B, k)]]
  BY <1>3 DEF Picked
<1> HIDE DEF c
<1>11. PICK r \in Seq(C) : r = Picked(w, A)
  BY DEF A
<1>12. Len(r) = c /\ \A k \in 1 .. c : r[k] = w[Nth(A, k)]
  BY <1>2, <1>9, <1>11
<1>13. w[j + 1] \in C
  BY ElementOfSeq
<1>14. Append(r, w[j + 1]) = [k \in 1 .. c + 1 |-> IF k <= c THEN r[k] ELSE w[j + 1]]
  BY <1>2, <1>11, <1>12, <1>13
<1>15. ASSUME NEW k \in 1 .. c + 1
       PROVE  w[Nth(B, k)] = IF k <= c THEN r[k] ELSE w[j + 1]
  BY <1>2, <1>7, <1>8, <1>12
<1>16. Picked(w, B) = Append(r, w[j + 1])
  BY <1>10, <1>14, <1>15
<1> QED
  BY <1>11, <1>16 DEF A, B

(* All places up to the end: the sequence itself.                           *)
LEMMA PickedAll ==
  ASSUME NEW w, NEW j \in Nat
  PROVE  Picked(w, 1 .. j) = [k \in 1 .. j |-> w[k]]
<1>1. Cardinality(1 .. j) = j
  BY FS_Interval
<1>2. ASSUME NEW k \in 1 .. j PROVE Nth(1 .. j, k) = k
  <2>1. ASSUME NEW p \in 1 .. j PROVE Cardinality({x \in 1 .. j : x <= p}) = p
    <3>1. {x \in 1 .. j : x <= p} = 1 .. p
      OBVIOUS
    <3>2. Cardinality(1 .. p) = p
      BY FS_Interval
    <3> QED
      BY <3>1, <3>2
  <2>2. {p \in 1 .. j : Cardinality({x \in 1 .. j : x <= p}) = k} = {k}
    BY <2>1
  <2> QED
    BY <2>2 DEF Nth
<1> QED
  BY <1>1, <1>2 DEF Picked

-----------------------------------------------------------------------------
(* The name fs_open looks up.                                               *)

(* What the loop of fs_open has written after i characters of the name.     *)
Pre(n, i) == Picked(Dir \o n, Upto(Kept(Dir \o n), Len(Dir) + i))

Charset(n) == Range(Dir) \cup Range(n)

LEMMA Spelled ==
  ASSUME NEW n, n \in Seq(Range(n))
  PROVE  /\ Dir \in Seq(Charset(n)) /\ n \in Seq(Charset(n))
         /\ Len(Dir) \in Nat \ {0} /\ Len(n) \in Nat
         /\ Dir \o n \in Seq(Charset(n)) /\ Len(Dir \o n) = Len(Dir) + Len(n)
         /\ \A k \in 1 .. Len(Dir) : (Dir \o n)[k] = Dir[k]
         /\ \A k \in 1 .. Len(n) : (Dir \o n)[Len(Dir) + k] = n[k]
         /\ DOMAIN (Dir \o n) = 1 .. Len(Dir) + Len(n)
<1>1. Dir \in Seq(Charset(n)) /\ n \in Seq(Charset(n)) /\ Len(Dir) \in Nat \ {0}
  BY DirOK, EmptySeq DEF Charset
<1>2. PICK w : w = Dir \o n
  OBVIOUS
<1>3. /\ w \in Seq(Charset(n)) /\ Len(w) = Len(Dir) + Len(n)
      /\ \A k \in 1 .. Len(Dir) : w[k] = Dir[k]
      /\ \A k \in 1 .. Len(n) : w[Len(Dir) + k] = n[k]
  BY <1>1, <1>2, Joined
<1>4. DOMAIN w = 1 .. Len(w)
  BY <1>3
<1> QED
  BY <1>1, <1>2, <1>3, <1>4

LEMMA PreBase ==
  ASSUME NEW n, n \in Seq(Range(n))
  PROVE  Pre(n, 0) = Dir
<1>1. PICK w : w = Dir \o n
  OBVIOUS
<1>2. /\ w \in Seq(Charset(n)) /\ DOMAIN w = 1 .. Len(Dir) + Len(n) /\ Dir \in Seq(Charset(n))
      /\ \A k \in 1 .. Len(Dir) : w[k] = Dir[k]
      /\ Len(Dir) \in Nat \ {0} /\ Len(n) \in Nat /\ Len(w) = Len(Dir) + Len(n)
  BY <1>1, Spelled
<1>3. Upto(Kept(w), Len(Dir)) = 1 .. Len(Dir) /\ Kept(w) \in SUBSET Nat
  <2>1. ASSUME NEW k \in 1 .. Len(Dir) PROVE k \in Kept(w)
    <3>1. CASE k = 1
      BY <1>2, <3>1 DEF Kept
    <3>2. CASE k # 1
      <4>1. k - 1 \in 1 .. Len(Dir) - 1 /\ (k - 1) + 1 = k /\ k - 1 \in 1 .. Len(Dir)
        BY <1>2, <3>2
      <4>2. Dir[k - 1] # Slash \/ Dir[k] # Slash
        BY <4>1, DirOK
      <4>3. w[k - 1] # Slash \/ w[k] # Slash
        BY <1>2, <4>1, <4>2
      <4> QED
        BY <1>2, <4>3 DEF Kept
    <3> QED
      BY <3>1, <3>2
  <2>2. Kept(w) \subseteq 1 .. Len(Dir) + Len(n)
    BY <1>2 DEF Kept
  <2> QED
    BY <1>2, <2>1, <2>2 DEF Upto
<1>4. Dir = [k \in 1 .. Len(Dir) |-> w[k]] /\ Len(Dir) + 0 = Len(Dir)
  BY <1>2
<1>5. Picked(w, Upto(Kept(w), Len(Dir))) = Dir
  <2>1. Picked(w, 1 .. Len(Dir)) = [k \in 1 .. Len(Dir) |-> w[k]]
    BY <1>2, PickedAll
  <2>2. Picked(w, 1 .. Len(Dir)) = Dir
    BY <1>4, <2>1
  <2> QED
    BY <1>3, <2>2
<1> QED
  BY <1>1, <1>4, <1>5 DEF Pre

LEMMA PreLast ==
  ASSUME NEW n, n \in Seq(Range(n))
  PROVE  Pre(n, Len(n)) = Canonical(Dir \o n)
<1>1. PICK w : w = Dir \o n
  OBVIOUS
<1>2. DOMAIN w = 1 .. Len(Dir) + Len(n) /\ Len(Dir) \in Nat /\ Len(n) \in Nat
  BY <1>1, Spelled
<1>3. Upto(Kept(w), Len(Dir) + Len(n)) = Kept(w)
  BY <1>2 DEF Upto, Kept
<1> QED
  BY <1>1, <1>3 DEF Pre, Canonical

(* One round of the loop.                                                   *)
LEMMA PreStep ==
  ASSUME NEW n, n \in Seq(Range(n)), NEW i \in 0 .. Len(n) - 1,
         Pre(n, i) \in Seq(Charset(n))
  PROVE  Pre(n, i + 1) = IF n[i + 1] = Slash /\ (Dir \o n)[Len(Dir) + i] = Slash
                         THEN Pre(n, i) ELSE Append(Pre(n, i), n[i + 1])
<1>1. PICK w : w = Dir \o n
  OBVIOUS
<1>2. PICK j : j = Len(Dir) + i
  OBVIOUS
<1>3. /\ w \in Seq(Charset(n)) /\ DOMAIN w = 1 .. Len(Dir) + Len(n)
      /\ Len(w) = Len(Dir) + Len(n) /\ \A k \in 1 .. Len(n) : w[Len(Dir) + k] = n[k]
      /\ Len(Dir) \in Nat \ {0} /\ Len(n) \in Nat
  BY <1>1, Spelled
<1>4. /\ j \in Nat /\ j + 1 \in 1 .. Len(w) /\ j + 1 # 1 /\ (j + 1) - 1 = j
      /\ Len(Dir) + (i + 1) = j + 1
  BY <1>2, <1>3
<1>5. w[j + 1] = n[i + 1]
  BY <1>3, <1>4
<1>6. PICK S : S = Kept(w)
  OBVIOUS
<1>7. /\ S \subseteq Nat
      /\ j + 1 \in S <=> ~(n[i + 1] = Slash /\ w[j] = Slash)
  BY <1>3, <1>4, <1>5, <1>6 DEF Kept
<1>8. Pre(n, i) = Picked(w, Upto(S, j)) /\ Pre(n, i + 1) = Picked(w, Upto(S, j + 1))
  BY <1>1, <1>2, <1>4, <1>6 DEF Pre
<1>9. PICK r \in Seq(Charset(n)) : r = Picked(w, Upto(S, j))
  BY <1>8
<1>10. CASE j + 1 \notin S
  <2>1. Picked(w, Upto(S, j + 1)) = Picked(w, Upto(S, j))
    BY <1>4, <1>7, <1>10, PickedSkip
  <2> QED
    BY <1>1, <1>2, <1>7, <1>8, <1>10, <2>1
<1>11. CASE j + 1 \in S
  <2>1. /\ Picked(w, Upto(S, j)) \in Seq(Charset(n)) /\ w \in Seq(Charset(n))
        /\ S \subseteq Nat /\ j \in Nat /\ j + 1 \in 1 .. Len(w)
    BY <1>3, <1>4, <1>7, <1>9
  <2>2. Picked(w, Upto(S, j + 1)) = Append(Picked(w, Upto(S, j)), w[j + 1])
    BY <1>11, <2>1, PickedNext, Zenon
  <2> QED
    BY <1>1, <1>2, <1>5, <1>7, <1>8, <1>11, <2>2
<1> QED
  BY <1>10, <1>11

LEMMA PreEnds ==
  ASSUME NEW n, n \in Seq(Range(n))
  PROVE  \A i \in 0 .. Len(n) : /\ Pre(n, i) \in Seq(Charset(n)) /\ Pre(n, i) # <<>>
                                /\ Last(Pre(n, i)) = (Dir \o n)[Len(Dir) + i]
<1> DEFINE Holds(i) == /\ Pre(n, i) \in Seq(Charset(n)) /\ Pre(n, i) # <<>>
                       /\ Last(Pre(n, i)) = (Dir \o n)[Len(Dir) + i]
           S == {i \in Nat : i <= Len(n) => Holds(i)}
<1>1. /\ Dir \in Seq(Charset(n)) /\ n \in Seq(Charset(n))
      /\ Len(Dir) \in Nat \ {0} /\ Len(n) \in Nat
      /\ \A k \in 1 .. Len(Dir) : (Dir \o n)[k] = Dir[k]
      /\ \A k \in 1 .. Len(n) : (Dir \o n)[Len(Dir) + k] = n[k]
  BY Spelled
<1>2. Holds(0)
  <2>1. Len(Dir) \in 1 .. Len(Dir) /\ Len(Dir) + 0 = Len(Dir)
    BY <1>1
  <2>2. (Dir \o n)[Len(Dir) + 0] = Last(Dir)
    BY <1>1, <2>1 DEF Last
  <2> QED
    BY <1>1, <2>2, PreBase, DirOK
<1>3. ASSUME NEW i \in Nat, i + 1 <= Len(n), Holds(i) PROVE Holds(i + 1)
  <2>1. i \in 0 .. Len(n) - 1 /\ i + 1 \in 1 .. Len(n)
    BY <1>1, <1>3
  <2>2. PICK c : c = n[i + 1]
    OBVIOUS
  <2>3. c \in Charset(n) /\ (Dir \o n)[Len(Dir) + (i + 1)] = c
    BY <1>1, <2>1, <2>2, ElementOfSeq
  <2>4. PICK r : r = Pre(n, i)
    OBVIOUS
  <2>5. r \in Seq(Charset(n)) /\ r # <<>> /\ Last(r) = (Dir \o n)[Len(Dir) + i]
    BY <1>3, <2>4
  <2>6. Pre(n, i + 1) = IF c = Slash /\ Last(r) = Slash THEN r ELSE Append(r, c)
    BY <2>1, <2>2, <2>4, <2>5, PreStep
  <2>7. /\ Append(r, c) \in Seq(Charset(n)) /\ Append(r, c) # <<>>
        /\ Last(Append(r, c)) = c
    <3>1. /\ Append(r, c) \in Seq(Charset(n)) /\ Len(Append(r, c)) = Len(r) + 1
          /\ Append(r, c)[Len(r) + 1] = c /\ Len(r) \in Nat
      BY <2>3, <2>5, Appended
    <3>2. Len(r) + 1 # 0
      BY <3>1
    <3> QED
      BY <3>1, <3>2, EmptySeq DEF Last
  <2> QED
    BY <2>3, <2>5, <2>6, <2>7
<1> HIDE DEF Holds
<1>4. \A i \in Nat : i \in S
  <2>1. 0 \in S
    BY <1>2
  <2>2. ASSUME NEW i \in Nat, i \in S PROVE i + 1 \in S
    <3>1. i + 1 <= Len(n) => i <= Len(n)
      BY <1>1
    <3> QED
      BY <1>3, <2>2, <3>1
  <2> HIDE DEF S
  <2> QED
    BY <2>1, <2>2, NatSetInduction
<1>5. \A i \in 0 .. Len(n) : Holds(i)
  BY <1>1, <1>4
<1> QED
  BY <1>5 DEF Holds

(* The loop itself: whatever satisfies its recurrence is Pre, and Pre does. *)
Round(n, r, i) == IF n[i] = Slash /\ Last(r) = Slash THEN r ELSE Append(r, n[i])

LoopOf(n, g) == g = [i \in 0 .. Len(n) |-> IF i = 0 THEN Dir ELSE Round(n, g[i - 1], i)]

LEMMA PreRound ==
  ASSUME NEW n, n \in Seq(Range(n)), NEW i \in 1 .. Len(n)
  PROVE  Pre(n, i) = Round(n, Pre(n, i - 1), i)
<1>1. Len(n) \in Nat
  BY Spelled
<1>2. PICK j : j = i - 1
  OBVIOUS
<1>3. j \in 0 .. Len(n) - 1 /\ j \in 0 .. Len(n) /\ j + 1 = i
  BY <1>1, <1>2
<1>4. Pre(n, j) \in Seq(Charset(n)) /\ Last(Pre(n, j)) = (Dir \o n)[Len(Dir) + j]
  BY <1>3, PreEnds
<1>5. Pre(n, j + 1) = IF n[j + 1] = Slash /\ Last(Pre(n, j)) = Slash
                      THEN Pre(n, j) ELSE Append(Pre(n, j), n[j + 1])
  BY <1>3, <1>4, PreStep
<1> QED
  BY <1>2, <1>3, <1>5 DEF Round

LEMMA PreLoops ==
  ASSUME NEW n, n \in Seq(Range(n))
  PROVE  LoopOf(n, [i \in 0 .. Len(n) |-> Pre(n, i)])
<1>1. PICK g : g = [i \in 0 .. Len(n) |-> Pre(n, i)]
  OBVIOUS
<1>2. Len(n) \in Nat
  BY Spelled
<1>3. ASSUME NEW i \in 0 .. Len(n)
      PROVE  Pre(n, i) = IF i = 0 THEN Dir ELSE Round(n, g[i - 1], i)
  <2>1. CASE i = 0
    BY <2>1, PreBase
  <2>2. CASE i # 0
    <3>1. i \in 1 .. Len(n) /\ i - 1 \in 0 .. Len(n)
      BY <1>2, <2>2
    <3>2. g[i - 1] = Pre(n, i - 1)
      BY <1>1, <3>1
    <3> QED
      BY <2>2, <3>1, <3>2, PreRound
  <2> QED
    BY <2>1, <2>2
<1>4. g = [i \in 0 .. Len(n) |-> IF i = 0 THEN Dir ELSE Round(n, g[i - 1], i)]
  BY <1>1, <1>3, Zenon
<1> QED
  BY <1>1, <1>4 DEF LoopOf

LEMMA LoopsAgree ==
  ASSUME NEW n, n \in Seq(Range(n)), NEW g, LoopOf(n, g)
  PROVE  \A i \in 0 .. Len(n) : g[i] = Pre(n, i)
<1> DEFINE S == {i \in Nat : i <= Len(n) => g[i] = Pre(n, i)}
<1>1. Len(n) \in Nat
  BY Spelled
<1>2. \A i \in 0 .. Len(n) : g[i] = IF i = 0 THEN Dir ELSE Round(n, g[i - 1], i)
  BY Zenon DEF LoopOf
<1>3. g[0] = Pre(n, 0)
  <2>1. 0 \in 0 .. Len(n)
    BY <1>1
  <2> QED
    BY <1>2, <2>1, PreBase
<1>4. ASSUME NEW i \in Nat, i + 1 <= Len(n), g[i] = Pre(n, i) PROVE g[i + 1] = Pre(n, i + 1)
  <2>1. i + 1 \in 0 .. Len(n) /\ i + 1 \in 1 .. Len(n) /\ i + 1 # 0 /\ (i + 1) - 1 = i
    BY <1>1, <1>4
  <2>2. g[i + 1] = Round(n, g[i], i + 1)
    BY <1>2, <2>1
  <2>3. Pre(n, i + 1) = Round(n, Pre(n, i), i + 1)
    BY <2>1, PreRound
  <2> QED
    BY <1>4, <2>2, <2>3
<1>5. \A i \in Nat : i \in S
  <2>1. 0 \in S
    BY <1>3
  <2>2. ASSUME NEW i \in Nat, i \in S PROVE i + 1 \in S
    <3>1. i + 1 <= Len(n) => i <= Len(n)
      BY <1>1
    <3> QED
      BY <1>4, <2>2, <3>1
  <2> HIDE DEF S
  <2> QED
    BY <2>1, <2>2, NatSetInduction
<1> QED
  BY <1>1, <1>5

(* Collapsing slashes one by one, against what is already in the buffer,   *)
(* leaves the levels of the directory and of the name, and nothing else.   *)
LEMMA RcNameIs ==
  ASSUME NEW n, n \in Seq(Range(n))
  PROVE  RcName(n) = Canonical(Dir \o n)
<1> DEFINE rc == CHOOSE rc : LoopOf(n, rc)
<1>1. LoopOf(n, rc)
  BY PreLoops, Zenon
<1>2. RcName(n) = rc[Len(n)]
  BY Zenon DEF RcName, LoopOf, Round
<1> HIDE DEF rc
<1>3. Len(n) \in 0 .. Len(n)
  <2>1. Len(n) \in Nat
    BY Spelled
  <2> QED
    BY <2>1
<1> QED
  BY <1>1, <1>2, <1>3, LoopsAgree, PreLast

-----------------------------------------------------------------------------
(* The invariant: a handle that is open holds what the finished table says *)
(* of the name it was opened under, for as long as it is open.             *)

Files == [asked: Requests, data: Nat \cup {Null}, len: Nat, index: Nat]

Led(f) ==
  /\ f.data = RCGetHandle(RcName(f.asked))
  /\ f.len = RCGetSize(RcName(f.asked))
  /\ f.index = f.len

FsInv ==
  /\ IInv
  /\ file \in [Handles -> Files \cup {Null}]
  /\ \A h \in Handles : file[h] # Null => pc = "done" /\ file[h] \in Files /\ Led(file[h])

LEMMA LookedUp ==
  ASSUME NEW n \in Requests
  PROVE  /\ RcName(n) = Canonical(Dir \o n) /\ RcName(n) \in Seq(Charset(n))
         /\ \A i \in 1 .. Len(RcName(n)) : RcName(n)[i] # Nul
<1>1. n \in Seq(Range(n)) /\ Nul \notin Charset(n)
  BY RequestsOK, DirOK DEF Charset
<1>2. RcName(n) = Canonical(Dir \o n)
  BY <1>1, RcNameIs
<1>3. Canonical(Dir \o n) = Pre(n, Len(n)) /\ Len(n) \in 0 .. Len(n)
  <2>1. Len(n) \in Nat
    BY <1>1, Spelled
  <2> QED
    BY <1>1, <2>1, PreLast
<1>4. RcName(n) \in Seq(Charset(n))
  BY <1>1, <1>2, <1>3, PreEnds
<1>5. \A i \in 1 .. Len(RcName(n)) : RcName(n)[i] \in Charset(n)
  BY <1>4, ElementOfSeq
<1> QED
  BY <1>1, <1>2, <1>4, <1>5

(* What the table answers for the name of a request.                        *)
LEMMA Answers ==
  ASSUME IInv, pc = "done", NEW n \in Requests
  PROVE  LET q == RcName(n)
         IN  /\ RCGetHandle(q) \in Nat \cup {Null} /\ RCGetSize(q) \in Nat
             /\ IF q \in readable
                THEN /\ RCGetHandle(q) # Null
                     /\ SubSeq(data, RCGetHandle(q) + 1, RCGetHandle(q) + RCGetSize(q))
                          = Content[q]
                ELSE RCGetHandle(q) = Null /\ RCGetSize(q) = 0
<1>1. PICK q : q = RcName(n)
  OBVIOUS
<1>2. q \in Seq(Charset(n)) /\ \A i \in 1 .. Len(q) : q[i] # Nul
  BY <1>1, LookedUp
<1>3. CASE q \in readable
  <2>1. data \in Seq(Bytes) /\ q \in Names
    BY <1>3 DEF IInv, ListInv
  <2>2. Content[q] \in Seq(Bytes)
    BY <2>1, TreeTypes
  <2>3. PICK off : off = RCGetHandle(q)
    OBVIOUS
  <2>4. /\ off \in Nat /\ RCGetSize(q) = Len(Content[q])
        /\ off + Len(Content[q]) + 1 <= Len(data)
        /\ \A k \in 1 .. Len(Content[q]) : data[off + k] = Content[q][k]
    BY <1>2, <1>3, <2>3, ServedIs
  <2>5. SubSeq(data, off + 1, off + Len(Content[q])) = Content[q] /\ Len(Content[q]) \in Nat
    BY <2>1, <2>2, <2>4, DataRange
  <2> QED
    BY <1>1, <1>3, <2>3, <2>4, <2>5, NullDiffers
<1>4. CASE q \notin readable
  <2>1. RCGetHandle(q) = Null /\ RCGetSize(q) = 0
    BY <1>2, <1>4, Found DEF RCGetHandle, RCGetSize
  <2> QED
    BY <1>1, <1>4, <2>1
<1> QED
  BY <1>3, <1>4

LEMMA FsInitHolds == FsInit => FsInv
BY InitHolds DEF FsInit, FsInv

(* While fsgen runs no file is open.                                        *)
LEMMA FsgenKeeps == FsInv /\ fsgen /\ UNCHANGED file => FsInv'
<1> SUFFICES ASSUME FsInv, fsgen, UNCHANGED file PROVE FsInv'
  OBVIOUS
<1>1. IInv'
  BY DataPassKeeps, DataEndKeeps, NamePassKeeps, NameEndKeeps DEF FsInv, fsgen
<1>2. pc # "done"
  BY DEF fsgen, DataPass, DataEnd, NamePass, NameEnd
<1> QED
  BY <1>1, <1>2 DEF FsInv

(* The table does not change under an open file.                            *)
LEMMA TableStays ==
  ASSUME IInv, UNCHANGED vars
  PROVE  IInv' /\ pc' = pc /\ \A f : Led(f)' <=> Led(f)
<1>1. IInv'
  BY StutterKeeps
<1> QED
  BY <1>1 DEF vars, Led, RCGetHandle, RCGetSize, FindRCInfoByName, NameCmp

LEMMA OpenKeeps ==
  ASSUME FsInv, NEW h \in Handles, NEW n \in Requests, fs_open(h, n)
  PROVE  FsInv'
<1>1. IInv /\ pc = "done" /\ UNCHANGED vars
  BY DEF FsInv, fs_open
<1>2. PICK f : f = [asked |-> n, data |-> RCGetHandle(RcName(n)),
                    len |-> RCGetSize(RcName(n)), index |-> RCGetSize(RcName(n))]
  OBVIOUS
<1>3. f \in Files /\ Led(f)
  <2>1. RCGetHandle(RcName(n)) \in Nat \cup {Null} /\ RCGetSize(RcName(n)) \in Nat
    BY <1>1, Answers
  <2>2. f \in Files
    BY <1>2, <2>1 DEF Files
  <2> QED
    BY <1>2, <2>1, <2>2 DEF Led
<1>4. file' = [file EXCEPT ![h] = f]
  BY <1>2 DEF fs_open
<1>5. IInv' /\ pc' = "done" /\ Led(f)' /\ \A g : Led(g)' <=> Led(g)
  BY <1>1, <1>3, TableStays
<1> QED
  BY <1>3, <1>4, <1>5 DEF FsInv

LEMMA ReadKeeps ==
  ASSUME FsInv, NEW h \in Handles, NEW count \in Counts, fs_read(h, count)
  PROVE  FsInv'
<1>1. IInv /\ file[h] # Null /\ UNCHANGED vars
  BY DEF FsInv, fs_read
<1>2. PICK f \in Files : f = file[h] /\ Led(f)
  BY <1>1 DEF FsInv
<1>3. PICK t : t = Taken(f, count)
  OBVIOUS
<1>4. t = 0 /\ f.index \in Nat
  BY <1>2, <1>3 DEF Files, Led, Taken
<1>5. PICK g : g = [f EXCEPT !.index = f.index + t]
  OBVIOUS
<1>6. g \in Files /\ Led(g)
  <2>1. f.index + t = f.index
    BY <1>4
  <2>2. g \in Files /\ g.index = f.index
    BY <1>5, <2>1 DEF Files
  <2>3. g.asked = f.asked /\ g.data = f.data /\ g.len = f.len
    BY <1>5 DEF Files
  <2> QED
    BY <1>2, <1>4, <2>2, <2>3 DEF Led
<1>7. file' = [file EXCEPT ![h] = g]
  BY <1>2, <1>3, <1>5 DEF fs_read, FsInv
<1>8. IInv' /\ pc' = pc /\ Led(g)' /\ \A r : Led(r)' <=> Led(r)
  BY <1>1, <1>6, TableStays
<1> QED
  BY <1>1, <1>6, <1>7, <1>8 DEF FsInv

LEMMA CloseKeeps ==
  ASSUME FsInv, NEW h \in Handles, fs_close(h)
  PROVE  FsInv'
<1>1. IInv /\ UNCHANGED vars /\ file' = [file EXCEPT ![h] = Null]
  BY DEF FsInv, fs_close
<1>2. IInv' /\ pc' = pc /\ \A f : Led(f)' <=> Led(f)
  BY <1>1, TableStays
<1> QED
  BY <1>1, <1>2 DEF FsInv

LEMMA FsStutters == FsInv /\ UNCHANGED fsVars => FsInv'
<1> SUFFICES ASSUME FsInv, UNCHANGED fsVars PROVE FsInv'
  OBVIOUS
<1>1. UNCHANGED vars /\ file' = file
  BY DEF fsVars
<1>2. IInv' /\ pc' = pc /\ \A f : Led(f)' <=> Led(f)
  BY <1>1, TableStays DEF FsInv
<1> QED
  BY <1>1, <1>2 DEF FsInv

LEMMA FsInductive == FsSpec => []FsInv
<1>1. FsInv /\ [FsNext]_fsVars => FsInv'
  BY FsgenKeeps, OpenKeeps, ReadKeeps, CloseKeeps, FsStutters DEF FsNext
<1> QED
  BY <1>1, FsInitHolds, PTL DEF FsSpec

-----------------------------------------------------------------------------
(* Theorems.                                                                *)

(* An open file has its types and, whatever the server opens, reads and    *)
(* closes, nothing left to read: it is sent once, from data and len        *)
(* (httpd_fs_for_rc.c:43-45 and 67).                                       *)
THEOREM HandleTypeCorrect == FsSpec => []FileTypeOK
<1>1. FsInv => FileTypeOK
  BY DEF FsInv, Files, Led, FileTypeOK
<1> QED
  BY <1>1, FsInductive, PTL

(* Whatever way the server spells a name and whatever else it has open,    *)
(* the handle leads to the whole of the file fsgen read under the          *)
(* directory, or to nothing if there is none, and never elsewhere          *)
(* (httpd_fs_for_rc.c:26-57 over RC.c and fsgen.cpp).                      *)
THEOREM OneshotServed == FsSpec => []HandlesServeOneshot
<1>1. FsInv => HandlesServeOneshot
  <2> SUFFICES ASSUME FsInv, NEW h \in Handles, file[h] # Null
               PROVE  LET q == Canonical(Dir \o file[h].asked)
                          f == file[h]
                      IN  IF q \in readable
                          THEN /\ f.data # Null
                               /\ SubSeq(data, f.data + 1, f.data + f.len) = Content[q]
                          ELSE f.data = Null /\ f.len = 0
    BY DEF HandlesServeOneshot
  <2>1. PICK f \in Files : f = file[h] /\ Led(f)
    BY DEF FsInv
  <2>2. PICK n \in Requests : n = f.asked
    BY DEF Files
  <2>3. RcName(n) = Canonical(Dir \o n)
    BY LookedUp
  <2>4. IInv /\ pc = "done"
    BY DEF FsInv
  <2> QED
    BY <2>1, <2>2, <2>3, <2>4, Answers DEF Led
<1> QED
  BY <1>1, FsInductive, PTL

=============================================================================
