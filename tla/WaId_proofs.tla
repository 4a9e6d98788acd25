----------------------------- MODULE WaId_proofs ----------------------------
(***************************************************************************)
(* The id boxes give out the next free id, going round, for any width of   *)
(* the id and any size of the list: the search of WaId implements IdBox.   *)
(***************************************************************************)
EXTENDS WaId, SequenceTheorems, FiniteSetTheorems, TLAPS

-----------------------------------------------------------------------------
(* Sequences.                                                              *)

\* What InsertAt gives.
LEMMA InsertAtElements ==
    ASSUME NEW S, NEW s \in Seq(S), NEW p \in 1..(Len(s) + 1), NEW e \in S
    PROVE  /\ InsertAt(s, p, e) \in Seq(S)
           /\ Len(InsertAt(s, p, e)) = Len(s) + 1
           /\ \A k \in 1..(Len(s) + 1) :
                InsertAt(s, p, e)[k] =
                    IF k < p THEN s[k] ELSE IF k = p THEN e ELSE s[k - 1]
<1> DEFINE front == SubSeq(s, 1, p - 1)
           back == SubSeq(s, p, Len(s))
<1>1. Len(s) \in Nat
  BY LenProperties
<1>2. /\ front \in Seq(S) /\ Len(front) = p - 1
      /\ \A k \in 1..(p - 1) : front[k] = s[k]
  <2>1. \A k \in 1..(p - 1) : s[k] \in S
    BY <1>1, ElementOfSeq
  <2> QED
    BY <2>1, <1>1, SubSeqProperties
<1>3. /\ back \in Seq(S) /\ Len(back) = Len(s) - p + 1
      /\ \A k \in 1..(Len(s) - p + 1) : back[k] = s[p + k - 1]
  <2>1. \A k \in p..Len(s) : s[k] \in S
    BY <1>1, ElementOfSeq
  <2> QED
    BY <2>1, <1>1, SubSeqProperties
<1>4. /\ <<e>> \in Seq(S) /\ Len(<<e>>) = 1 /\ <<e>>[1] = e
  OBVIOUS
<1> HIDE DEF front, back
<1> DEFINE left == front \o <<e>>
<1>5. /\ left \in Seq(S) /\ Len(left) = p
      /\ \A k \in 1..p : left[k] = IF k < p THEN front[k] ELSE e
  BY <1>1, <1>2, <1>4, ConcatProperties
<1> HIDE DEF left
<1>6. /\ left \o back \in Seq(S) /\ Len(left \o back) = Len(s) + 1
      /\ \A k \in 1..(Len(s) + 1) :
           (left \o back)[k] = IF k <= p THEN left[k] ELSE back[k - p]
  BY <1>1, <1>3, <1>5, ConcatProperties
<1>7. InsertAt(s, p, e) = left \o back
  BY DEF InsertAt, left, front, back
<1>8. ASSUME NEW k \in 1..(Len(s) + 1)
      PROVE  InsertAt(s, p, e)[k] =
                 IF k < p THEN s[k] ELSE IF k = p THEN e ELSE s[k - 1]
  <2>1. InsertAt(s, p, e)[k] = IF k <= p THEN left[k] ELSE back[k - p]
    BY <1>6, <1>7
  <2>2. CASE k <= p
    BY <2>1, <2>2, <1>1, <1>2, <1>5
  <2>3. CASE k > p
    <3>1. k - p \in 1..(Len(s) - p + 1)
      BY <2>3, <1>1
    <3>2. back[k - p] = s[p + (k - p) - 1] /\ p + (k - p) - 1 = k - 1
      BY <3>1, <1>3
    <3> QED
      BY <2>1, <2>3, <3>2
  <2> QED
    BY <2>2, <2>3
<1> QED
  BY <1>6, <1>7, <1>8

\* What RemoveAt gives.
LEMMA RemoveAtElements ==
    ASSUME NEW S, NEW s \in Seq(S), NEW p \in 1..Len(s)
    PROVE  /\ RemoveAt(s, p) \in Seq(S)
           /\ Len(RemoveAt(s, p)) = Len(s) - 1
           /\ \A k \in 1..(Len(s) - 1) :
                RemoveAt(s, p)[k] = IF k < p THEN s[k] ELSE s[k + 1]
<1> DEFINE front == SubSeq(s, 1, p - 1)
           back == SubSeq(s, p + 1, Len(s))
<1>1. Len(s) \in Nat
  BY LenProperties
<1>2. /\ front \in Seq(S) /\ Len(front) = p - 1
      /\ \A k \in 1..(p - 1) : front[k] = s[k]
  <2>1. \A k \in 1..(p - 1) : s[k] \in S
    BY <1>1, ElementOfSeq
  <2> QED
    BY <2>1, <1>1, SubSeqProperties
<1>3. /\ back \in Seq(S) /\ Len(back) = Len(s) - p
      /\ \A k \in 1..(Len(s) - p) : back[k] = s[p + k]
  <2>1. \A k \in (p + 1)..Len(s) : s[k] \in S
    BY <1>1, ElementOfSeq
  <2> QED
    BY <2>1, <1>1, SubSeqProperties
<1> HIDE DEF front, back
<1>4. /\ front \o back \in Seq(S) /\ Len(front \o back) = Len(s) - 1
      /\ \A k \in 1..(Len(s) - 1) :
           (front \o back)[k] = IF k <= p - 1 THEN front[k] ELSE back[k - (p - 1)]
  <2>1. /\ front \o back \in Seq(S) /\ Len(front \o back) = Len(front) + Len(back)
        /\ \A k \in 1..(Len(front) + Len(back)) :
             (front \o back)[k] =
                 IF k <= Len(front) THEN front[k] ELSE back[k - Len(front)]
    BY <1>2, <1>3, ConcatProperties
  <2>2. Len(front) + Len(back) = Len(s) - 1
    BY <1>1, <1>2, <1>3
  <2> QED
    BY <2>1, <2>2, <1>2
<1>5. RemoveAt(s, p) = front \o back
  BY DEF RemoveAt, front, back
<1>6. ASSUME NEW k \in 1..(Len(s) - 1)
      PROVE  RemoveAt(s, p)[k] = IF k < p THEN s[k] ELSE s[k + 1]
  <2>1. RemoveAt(s, p)[k] = IF k <= p - 1 THEN front[k] ELSE back[k - (p - 1)]
    BY <1>4, <1>5
  <2>2. CASE k < p
    BY <2>1, <2>2, <1>1, <1>2
  <2>3. CASE k >= p
    <3>1. k - (p - 1) \in 1..(Len(s) - p)
      BY <2>3, <1>1
    <3>2. back[k - (p - 1)] = s[p + (k - (p - 1))] /\ p + (k - (p - 1)) = k + 1
      BY <3>1, <1>3
    <3> QED
      BY <2>1, <2>3, <3>2
  <2> QED
    BY <2>2, <2>3
<1> QED
  BY <1>4, <1>5, <1>6

-----------------------------------------------------------------------------
(* The inductive invariant: how far the search has come.                   *)

\* The elements passed are 0, 1, 2, ... up to the first gap, which is remembered.
Gap ==
    /\ afterFree = 0 => /\ idPrev = pos - 2
                        /\ \A k \in 1..(pos - 1) : list[k] = k - 1
    /\ afterFree # 0 => /\ afterFree < pos /\ idPrev = afterFree - 2
                        /\ \A k \in 1..(afterFree - 1) : list[k] = k - 1
                        /\ list[afterFree] > afterFree - 1

\* All ids from the last one on and before the one tried are in use.
Forward ==
    /\ last < id
    /\ \A k \in 1..(pos - 1) : list[k] < id
    /\ \A j \in IdType : last < j /\ j < id => \E k \in 1..(pos - 1) : list[k] = j

\* The last id was the largest, the search has begun at 0.
FromZero ==
    /\ last = MaxId /\ id = pos - 1
    /\ \A k \in 1..(pos - 1) : list[k] = k - 1

\* All ids after the last one are in use, and the list is at its end.
Wrapped ==
    /\ last # MaxId /\ id = 0
    /\ pos = Len(list) + 1 /\ pos > 1 /\ list[pos - 1] = MaxId
    /\ \A j \in IdType : last < j => \E k \in 1..(pos - 1) : list[k] = j

Searching ==
    pc = "scan" => Len(list) <= MaxId /\ Gap /\ (Forward \/ FromZero \/ Wrapped)

Idle == pc = "idle" => last = id /\ pos = 1 /\ afterFree = 0

IdInv == TypeOK /\ Sorted /\ Idle /\ Searching

\* Modulo the number of ids, which is all the arithmetic of the type there is.
LEMMA IncrementedId ==
    ASSUME NEW i \in IdType
    PROVE  Incremented(i) = IF i = MaxId THEN 0 ELSE i + 1
<1>1. CASE i = MaxId
  BY <1>1, ConstAssumption DEF Incremented, IdType
<1>2. CASE i # MaxId
  BY <1>2, ConstAssumption DEF Incremented, IdType
<1> QED
  BY <1>1, <1>2

LEMMA IdInit == Init => IdInv
BY ConstAssumption, EmptySeq
   DEF Init, IdInv, TypeOK, Sorted, Idle, Searching, IdType

-----------------------------------------------------------------------------
(* The place that is found.                                                *)

Used == {list[k] : k \in DOMAIN list}

\* Id i belongs before element p.
FitsAt(i, p) ==
    /\ i \in IdType /\ p \in 1..(Len(list) + 1)
    /\ \A k \in 1..Len(list) : IF k < p THEN list[k] < i ELSE i < list[k]

\* An id that fits somewhere is free.
LEMMA FitsFree ==
    ASSUME IdInv, NEW i, NEW p, FitsAt(i, p)
    PROVE  i \in IdType \ Used
<1>1. ASSUME NEW k \in DOMAIN list PROVE list[k] # i
  BY <1>1, LenProperties, ElementOfSeq DEF FitsAt, IdInv, TypeOK, IdType
<1> QED
  BY <1>1 DEF FitsAt, Used

\* The elements are in use.
LEMMA UsedElement ==
    ASSUME IdInv, NEW k \in 1..Len(list)
    PROVE  list[k] \in Used
<1>1. k \in DOMAIN list
  BY LenProperties DEF IdInv, TypeOK
<1> QED
  BY <1>1 DEF Used

\* The search stops at a greater element.
LEMMA FoundHere ==
    ASSUME IdInv, pc = "scan", pos <= Len(list), id < list[pos]
    PROVE  FitsAt(id, pos) /\ Box!IsNextFree(id, last, Used)
<1> USE ConstAssumption DEF IdType, Box!IdType
<1>1. /\ list \in Seq(IdType) /\ Len(list) \in Nat /\ DOMAIN list = 1..Len(list)
      /\ id \in IdType /\ last \in IdType /\ pos \in 1..Len(list)
      /\ \A k \in 1..Len(list) : list[k] \in IdType
  BY LenProperties, ElementOfSeq DEF IdInv, TypeOK
<1>2. \A k, l \in 1..Len(list) : k < l => list[k] < list[l]
  BY <1>1 DEF IdInv, Sorted
<1>3. Forward \/ FromZero
  BY <1>1 DEF IdInv, Searching, Wrapped
<1>4. FitsAt(id, pos)
  <2>1. ASSUME NEW k \in 1..Len(list), k < pos PROVE list[k] < id
    BY <1>1, <1>3, <2>1 DEF Forward, FromZero
  <2>2. ASSUME NEW k \in 1..Len(list), k >= pos PROVE id < list[k]
    BY <1>1, <1>2, <2>2
  <2> QED
    BY <1>1, <2>1, <2>2 DEF FitsAt
<1>5. id \in IdType \ Used
  BY <1>4, FitsFree
<1>6. CASE Forward
  <2>1. ASSUME NEW j \in IdType, last < j, j < id PROVE j \in Used
    <3>1. PICK k \in 1..(pos - 1) : list[k] = j
      BY <1>6, <2>1 DEF Forward
    <3> QED
      BY <1>1, <3>1, UsedElement
  <2> QED
    BY <1>4, <1>5, <1>6, <2>1 DEF Forward, Box!IsNextFree
<1>7. CASE FromZero
  <2>1. ~(last < id)
    BY <1>1, <1>7 DEF FromZero
  <2>2. ASSUME NEW j \in IdType, last < j \/ j < id PROVE j \in Used
    <3>1. j < id
      BY <1>1, <1>7, <2>2 DEF FromZero
    <3>2. j + 1 \in 1..(pos - 1) /\ list[j + 1] = j
      BY <1>1, <1>7, <3>1 DEF FromZero
    <3> QED
      BY <1>1, <3>2, UsedElement
  <2> QED
    BY <1>4, <1>5, <2>1, <2>2 DEF Box!IsNextFree
<1> QED
  BY <1>3, <1>6, <1>7

\* It comes to the end of the list.
LEMMA FoundAtEnd ==
    ASSUME IdInv, pc = "scan", pos > Len(list), id # 0 \/ afterFree = 0
    PROVE  FitsAt(id, pos) /\ Box!IsNextFree(id, last, Used)
<1> USE ConstAssumption DEF IdType, Box!IdType
<1>1. /\ list \in Seq(IdType) /\ Len(list) \in Nat /\ DOMAIN list = 1..Len(list)
      /\ id \in IdType /\ last \in IdType /\ pos = Len(list) + 1
      /\ \A k \in 1..Len(list) : list[k] \in IdType
  BY LenProperties, ElementOfSeq DEF IdInv, TypeOK
<1>2. Len(list) <= MaxId /\ Gap
  BY DEF IdInv, Searching
<1>3. ~Wrapped
  <2>1. SUFFICES ASSUME Wrapped PROVE FALSE
    OBVIOUS
  <2>2. afterFree = 0
    BY <2>1 DEF Wrapped
  <2>3. list[pos - 1] = (pos - 1) - 1
    <3>1. pos - 1 \in 1..(pos - 1)
      BY <1>1, <2>1 DEF Wrapped
    <3> QED
      BY <1>2, <2>2, <3>1 DEF Gap
  <2>4. list[pos - 1] = MaxId
    BY <2>1 DEF Wrapped
  <2> QED
    BY <1>1, <1>2, <2>3, <2>4
<1>4. Forward \/ FromZero
  BY <1>3 DEF IdInv, Searching
<1>5. FitsAt(id, pos)
  <2>1. ASSUME NEW k \in 1..Len(list) PROVE k < pos /\ list[k] < id
    <3>1. k \in 1..(pos - 1) /\ k < pos
      BY <1>1
    <3>2. CASE Forward
      BY <3>1, <3>2 DEF Forward
    <3>3. CASE FromZero
      BY <1>1, <3>1, <3>3 DEF FromZero
    <3> QED
      BY <1>4, <3>1, <3>2, <3>3
  <2> QED
    BY <1>1, <2>1 DEF FitsAt
<1>6. id \in IdType \ Used
  BY <1>5, FitsFree
<1>7. CASE Forward
  <2>1. ASSUME NEW j \in IdType, last < j, j < id PROVE j \in Used
    <3>1. PICK k \in 1..(pos - 1) : list[k] = j
      BY <1>7, <2>1 DEF Forward
    <3> QED
      BY <1>1, <3>1, UsedElement
  <2> QED
    BY <1>5, <1>6, <1>7, <2>1 DEF Forward, Box!IsNextFree
<1>8. CASE FromZero
  <2>1. ~(last < id)
    BY <1>1, <1>8 DEF FromZero
  <2>2. ASSUME NEW j \in IdType, last < j \/ j < id PROVE j \in Used
    <3>1. j < id
      BY <1>1, <1>8, <2>2 DEF FromZero
    <3>2. j + 1 \in 1..(pos - 1) /\ list[j + 1] = j
      BY <1>1, <1>8, <3>1 DEF FromZero
    <3> QED
      BY <1>1, <3>2, UsedElement
  <2> QED
    BY <1>5, <1>6, <2>1, <2>2 DEF Box!IsNextFree
<1> QED
  BY <1>4, <1>7, <1>8

\* It has gone round at the end of the list and takes the first gap.
LEMMA FoundInGap ==
    ASSUME IdInv, pc = "scan", pos > Len(list), id = 0, afterFree # 0
    PROVE  FitsAt(idPrev + 1, afterFree) /\ Box!IsNextFree(idPrev + 1, last, Used)
<1> USE ConstAssumption DEF IdType, Box!IdType
<1>1. /\ list \in Seq(IdType) /\ Len(list) \in Nat /\ DOMAIN list = 1..Len(list)
      /\ last \in IdType /\ pos = Len(list) + 1 /\ afterFree \in 1..Len(list)
      /\ \A k \in 1..Len(list) : list[k] \in IdType
  BY LenProperties, ElementOfSeq DEF IdInv, TypeOK
<1>2. \A k, l \in 1..Len(list) : k < l => list[k] < list[l]
  BY <1>1 DEF IdInv, Sorted
<1>3. /\ idPrev = afterFree - 2
      /\ \A k \in 1..(afterFree - 1) : list[k] = k - 1
      /\ list[afterFree] > afterFree - 1
  BY <1>1 DEF IdInv, Searching, Gap
<1>4. Wrapped
  <2>1. ~Forward
    BY <1>1 DEF Forward
  <2>2. ~FromZero
    BY <1>1 DEF FromZero
  <2> QED
    BY <2>1, <2>2 DEF IdInv, Searching
<1> DEFINE i == afterFree - 1
<1>5. FitsAt(i, afterFree)
  <2>1. i \in IdType
    BY <1>1, <1>3
  <2>2. ASSUME NEW k \in 1..Len(list), k < afterFree PROVE list[k] < i
    BY <1>1, <1>3, <2>2
  <2>3. ASSUME NEW k \in 1..Len(list), k >= afterFree PROVE i < list[k]
    BY <1>1, <1>2, <1>3, <2>3
  <2> QED
    BY <1>1, <2>1, <2>2, <2>3 DEF FitsAt
<1>6. i \in IdType \ Used
  BY <1>5, FitsFree
<1>7. ASSUME NEW j \in IdType, last < j PROVE j \in Used
  <2>1. PICK k \in 1..(pos - 1) : list[k] = j
    BY <1>4, <1>7 DEF Wrapped
  <2> QED
    BY <1>1, <2>1, UsedElement
<1>8. ASSUME NEW j \in IdType, j < i PROVE j \in Used
  <2>1. j + 1 \in 1..(afterFree - 1) /\ list[j + 1] = j
    BY <1>1, <1>3, <1>8
  <2> QED
    BY <1>1, <2>1, UsedElement
<1>9. ~(last < i)
  BY <1>6, <1>7
<1>10. Box!IsNextFree(i, last, Used)
  BY <1>6, <1>7, <1>8, <1>9 DEF Box!IsNextFree
<1> QED
  BY <1>1, <1>3, <1>5, <1>10

-----------------------------------------------------------------------------
(* The steps.                                                              *)

\* What the steps need of the types.
LEMMA Types ==
    ASSUME IdInv
    PROVE  /\ MaxId \in Nat /\ max \in 1..(MaxId + 1)
           /\ list \in Seq(IdType) /\ Len(list) \in Nat /\ Len(list) <= max
           /\ DOMAIN list = 1..Len(list)
           /\ \A k \in 1..Len(list) : list[k] \in IdType
           /\ id \in IdType /\ last \in IdType
           /\ pos \in 1..(Len(list) + 1) /\ afterFree \in 0..Len(list)
           /\ idPrev \in -1..MaxId
           /\ \A k, l \in 1..Len(list) : k < l => list[k] < list[l]
BY ConstAssumption, LenProperties, ElementOfSeq DEF IdInv, TypeOK, Sorted

LEMMA GenerateKeeps == IdInv /\ Generate => IdInv'
<1> SUFFICES ASSUME IdInv, Generate PROVE IdInv'
  OBVIOUS
<1> USE DEF IdType
<1>1. id' = IF id = MaxId THEN 0 ELSE id + 1
  BY Types, IncrementedId DEF Generate
<1>2. last = id
  BY DEF IdInv, Idle, Generate
<1>3. TypeOK' /\ Sorted'
  BY Types, <1>1 DEF IdInv, TypeOK, Sorted, Generate
<1>4. Gap' /\ (Forward \/ FromZero)'
  BY Types, <1>1, <1>2 DEF Generate, Gap, Forward, FromZero
<1> QED
  BY <1>3, <1>4, Types DEF IdInv, Idle, Searching, Generate

\* The list with the new id in its place.
LEMMA Inserted ==
    ASSUME IdInv, NEW i, NEW p, FitsAt(i, p), Insert(i, p), Len(list) < max
    PROVE  /\ list' \in Seq(IdType) /\ Len(list') = Len(list) + 1
           /\ DOMAIN list' = 1..(Len(list) + 1)
           /\ \A k \in 1..(Len(list) + 1) :
                list'[k] = IF k < p THEN list[k] ELSE IF k = p THEN i ELSE list[k - 1]
<1>1. list \in Seq(IdType) /\ i \in IdType /\ p \in 1..(Len(list) + 1)
  BY Types DEF FitsAt
<1>2. list' = InsertAt(list, p, i)
  BY DEF Insert
<1>3. /\ InsertAt(list, p, i) \in Seq(IdType)
      /\ Len(InsertAt(list, p, i)) = Len(list) + 1
      /\ \A k \in 1..(Len(list) + 1) :
           InsertAt(list, p, i)[k] =
               IF k < p THEN list[k] ELSE IF k = p THEN i ELSE list[k - 1]
  BY <1>1, InsertAtElements
<1>4. DOMAIN list' = 1..(Len(list) + 1)
  BY <1>2, <1>3, LenProperties
<1> QED
  BY <1>2, <1>3, <1>4

LEMMA InsertKeeps ==
    ASSUME IdInv, NEW i, NEW p, FitsAt(i, p), Insert(i, p)
    PROVE  IdInv'
<1> USE DEF IdType
<1>1. i \in IdType /\ p \in 1..(Len(list) + 1)
  BY DEF FitsAt
<1>2. CASE Len(list) < max
  <2>1. /\ list' \in Seq(IdType) /\ Len(list') = Len(list) + 1
        /\ \A k \in 1..(Len(list) + 1) :
             list'[k] = IF k < p THEN list[k] ELSE IF k = p THEN i ELSE list[k - 1]
    BY <1>2, Inserted
  <2>2. DOMAIN list' = 1..(Len(list) + 1)
    BY <1>2, Inserted
  <2>3. ASSUME NEW k \in 1..(Len(list) + 1), NEW l \in 1..(Len(list) + 1), k < l
        PROVE  list'[k] < list'[l]
    <3>1. CASE l < p
      <4>1. k \in 1..Len(list) /\ l \in 1..Len(list)
        BY <1>1, <2>3, <3>1, Types
      <4>2. k < p
        BY <4>1, <1>1, <2>3, <3>1, Types
      <4>3. list'[k] = list[k] /\ list'[l] = list[l]
        BY <2>1, <2>3, <3>1, <4>2
      <4> QED
        BY <4>1, <4>3, <2>3, Types
    <3>2. CASE l = p
      <4>1. k \in 1..Len(list) /\ k < p
        BY <1>1, <2>3, <3>2, Types
      <4> QED
        BY <4>1, <2>1, <2>3, <3>2 DEF FitsAt
    <3>3. CASE l > p /\ k < p
      <4>1. k \in 1..Len(list) /\ l - 1 \in 1..Len(list) /\ k < l - 1
        BY <1>1, <2>3, <3>3, Types
      <4>2. list'[k] = list[k] /\ list'[l] = list[l - 1]
        BY <2>1, <3>3, <1>1
      <4> QED
        BY <4>1, <4>2, Types
    <3>4. CASE l > p /\ k = p
      <4>1. l - 1 \in 1..Len(list) /\ ~(l - 1 < p)
        BY <1>1, <3>4, Types
      <4> QED
        BY <4>1, <2>1, <3>4, <1>1 DEF FitsAt
    <3>5. CASE l > p /\ k > p
      <4>1. k - 1 \in 1..Len(list) /\ l - 1 \in 1..Len(list) /\ k - 1 < l - 1
        BY <1>1, <2>3, <3>5, Types
      <4>2. list'[k] = list[k - 1] /\ list'[l] = list[l - 1]
        BY <2>1, <3>5, <1>1
      <4> QED
        BY <4>1, <4>2, Types
    <3> QED
      BY <1>1, <2>3, <3>1, <3>2, <3>3, <3>4, <3>5, Types
  <2>4. Sorted'
    BY <2>2, <2>3 DEF Sorted
  <2>5. TypeOK'
    BY <1>1, <1>2, <2>1, Types DEF IdInv, TypeOK, Insert
  <2> QED
    BY <2>4, <2>5 DEF IdInv, Idle, Searching, Insert
<1>3. CASE ~(Len(list) < max)
  <2>1. list' = list
    BY <1>3 DEF Insert
  <2>2. TypeOK' /\ Sorted'
    BY <1>1, <2>1, Types DEF IdInv, TypeOK, Sorted, Insert
  <2> QED
    BY <2>2 DEF IdInv, Idle, Searching, Insert
<1> QED
  BY <1>2, <1>3

LEMMA ScanKeeps == IdInv /\ Scan => IdInv'
<1> SUFFICES ASSUME IdInv, Scan PROVE IdInv'
  OBVIOUS
<1> USE DEF IdType
<1>1. pos \in 1..Len(list) /\ list[pos] <= id /\ pos' = pos + 1 /\ list' = list
      /\ last' = last /\ max' = max /\ pc' = pc /\ pc = "scan"
  BY Types DEF Scan
<1>2. Len(list) <= MaxId /\ Gap /\ (Forward \/ FromZero)
  BY <1>1, Types DEF IdInv, Searching, Wrapped
<1>3. id' = IF id = list[pos] THEN IF id = MaxId THEN 0 ELSE id + 1 ELSE id
  BY Types, IncrementedId DEF Scan
<1>4. /\ Gap' /\ afterFree' \in 0..Len(list') /\ idPrev' \in -1..MaxId
  <2>1. CASE afterFree = 0 /\ idPrev # list[pos] - 1
    <3>1. afterFree' = pos /\ idPrev' = idPrev
      BY <2>1 DEF Scan, Track
    <3>2. /\ idPrev = pos - 2 /\ \A k \in 1..(pos - 1) : list[k] = k - 1
      BY <1>2, <2>1 DEF Gap
    <3>3. list[pos] > pos - 1
      <4>1. CASE pos = 1
        BY <2>1, <3>2, <4>1, <1>1, Types
      <4>2. CASE pos > 1
        <5>1. pos - 1 \in 1..(pos - 1) /\ pos - 1 \in 1..Len(list)
          BY <1>1, <4>2
        <5>2. list[pos - 1] = pos - 2 /\ list[pos - 1] < list[pos]
          BY <1>1, <3>2, <5>1, Types
        <5> QED
          BY <2>1, <3>2, <5>2, <1>1, Types
      <4> QED
        BY <1>1, <4>1, <4>2
    <3> QED
      BY <1>1, <3>1, <3>2, <3>3, Types DEF Gap
  <2>2. CASE afterFree = 0 /\ idPrev = list[pos] - 1
    <3>1. afterFree' = 0 /\ idPrev' = list[pos]
      BY <2>2 DEF Scan, Track
    <3>2. /\ idPrev = pos - 2 /\ \A k \in 1..(pos - 1) : list[k] = k - 1
      BY <1>2, <2>2 DEF Gap
    <3>3. list[pos] = pos - 1
      <4>1. list[pos] \in Int /\ pos \in Int
        BY <1>1, Types
      <4> QED
        BY <2>2, <3>2, <4>1
    <3>4. \A k \in 1..pos : list[k] = k - 1
      BY <1>1, <3>2, <3>3
    <3> QED
      BY <1>1, <3>1, <3>3, <3>4, Types DEF Gap
  <2>3. CASE afterFree # 0
    <3>1. afterFree' = afterFree /\ idPrev' = idPrev
      BY <2>3 DEF Scan, Track
    <3> QED
      BY <1>1, <1>2, <2>3, <3>1, Types DEF Gap
  <2> QED
    BY <2>1, <2>2, <2>3
<1>5. (Forward \/ FromZero \/ Wrapped)'
  <2>1. CASE FromZero
    <3>1. list[pos] >= pos - 1
      <4>1. CASE pos = 1
        BY <4>1, <1>1, Types
      <4>2. CASE pos > 1
        <5>1. pos - 1 \in 1..(pos - 1) /\ pos - 1 \in 1..Len(list)
          BY <1>1, <4>2
        <5>2. list[pos - 1] = pos - 2 /\ list[pos - 1] < list[pos]
          BY <1>1, <2>1, <5>1, Types DEF FromZero
        <5> QED
          BY <5>2, <1>1, Types
      <4> QED
        BY <1>1, <4>1, <4>2
    <3>2. id = pos - 1 /\ list[pos] = id /\ id # MaxId
      BY <1>1, <1>2, <2>1, <3>1, Types DEF FromZero
    <3>3. \A k \in 1..pos : list[k] = k - 1
      BY <1>1, <2>1, <3>2 DEF FromZero
    <3>4. id' = pos' - 1 /\ last' = MaxId
      BY <1>1, <1>3, <2>1, <3>2 DEF FromZero
    <3> QED
      BY <1>1, <3>3, <3>4 DEF FromZero
  <2>2. CASE Forward /\ list[pos] < id
    <3>1. id' = id /\ \A k \in 1..pos : list[k] < id
      <4>1. id # list[pos]
        BY <1>1, <2>2, Types
      <4> QED
        BY <1>1, <1>3, <2>2, <4>1 DEF Forward
    <3>2. ASSUME NEW j \in IdType, last < j, j < id PROVE \E k \in 1..pos : list[k] = j
      <4>1. PICK k \in 1..(pos - 1) : list[k] = j
        BY <2>2, <3>2 DEF Forward
      <4> QED
        BY <1>1, <4>1
    <3>3. last' < id' /\ pos' - 1 = pos
      BY <1>1, <2>2, <3>1 DEF Forward
    <3> QED
      BY <1>1, <3>1, <3>2, <3>3 DEF Forward
  <2>3. CASE Forward /\ list[pos] = id /\ id # MaxId
    <3>1. id' = id + 1
      BY <1>3, <2>3
    <3>2. \A k \in 1..pos : list[k] < id'
      BY <1>1, <2>3, <3>1, Types DEF Forward
    <3>3. ASSUME NEW j \in IdType, last < j, j < id' PROVE \E k \in 1..pos : list[k] = j
      <4>1. CASE j = id
        BY <1>1, <2>3, <4>1
      <4>2. CASE j < id
        <5>1. PICK k \in 1..(pos - 1) : list[k] = j
          BY <2>3, <3>3, <4>2 DEF Forward
        <5> QED
          BY <1>1, <5>1
      <4>3. id \in Int /\ j \in Int
        BY <3>3, Types
      <4>4. j = id \/ j < id
        BY <3>1, <3>3, <4>3
      <4> QED
        BY <4>1, <4>2, <4>4
    <3> QED
      BY <1>1, <2>3, <3>1, <3>2, <3>3, Types DEF Forward
  <2>4. CASE Forward /\ list[pos] = id /\ id = MaxId
    <3>1. id' = 0 /\ last # MaxId
      BY <1>3, <2>4, Types DEF Forward
    <3>2. pos = Len(list)
      <4>1. SUFFICES ASSUME pos # Len(list) PROVE FALSE
        OBVIOUS
      <4>4. Len(list) \in Nat
        BY Types
      <4>2. Len(list) \in 1..Len(list) /\ pos < Len(list)
        BY <4>1, <1>1, <4>4
      <4>3. list[pos] < list[Len(list)] /\ list[Len(list)] \in IdType
        BY <4>2, <1>1, Types
      <4> QED
        BY <4>3, <2>4, Types
    <3>3. ASSUME NEW j \in IdType, last < j PROVE \E k \in 1..pos : list[k] = j
      <4>1. CASE j = id
        BY <1>1, <2>4, <4>1
      <4>2. CASE j < id
        <5>1. PICK k \in 1..(pos - 1) : list[k] = j
          BY <2>4, <3>3, <4>2 DEF Forward
        <5> QED
          BY <1>1, <5>1
      <4>3. j = id \/ j < id
        BY <2>4, ConstAssumption
      <4> QED
        BY <4>1, <4>2, <4>3
    <3> QED
      BY <1>1, <2>4, <3>1, <3>2, <3>3, Types DEF Wrapped
  <2> QED
    BY <1>1, <1>2, <2>1, <2>2, <2>3, <2>4, Types
<1>6. TypeOK' /\ Sorted'
  BY <1>1, <1>3, <1>4, Types DEF IdInv, TypeOK, Sorted
<1> QED
  BY <1>1, <1>2, <1>4, <1>5, <1>6 DEF IdInv, Idle, Searching

\* The list without the id that was in place p.
LEMMA Removed ==
    ASSUME IdInv, NEW p \in 1..Len(list), list' = RemoveAt(list, p)
    PROVE  /\ list' \in Seq(IdType) /\ Len(list') = Len(list) - 1
           /\ DOMAIN list' = 1..(Len(list) - 1)
           /\ \A k \in 1..(Len(list) - 1) :
                list'[k] = IF k < p THEN list[k] ELSE list[k + 1]
<1>1. list \in Seq(IdType)
  BY Types
<1>2. /\ RemoveAt(list, p) \in Seq(IdType)
      /\ Len(RemoveAt(list, p)) = Len(list) - 1
      /\ \A k \in 1..(Len(list) - 1) :
           RemoveAt(list, p)[k] = IF k < p THEN list[k] ELSE list[k + 1]
  BY <1>1, RemoveAtElements
<1>3. DOMAIN list' = 1..(Len(list) - 1)
  BY <1>2, LenProperties
<1> QED
  BY <1>2, <1>3

LEMMA ReleaseKeeps == IdInv /\ Release => IdInv'
<1> SUFFICES ASSUME IdInv, Release PROVE IdInv'
  OBVIOUS
<1> USE DEF IdType
<1>1. PICK p \in 1..Len(list) : list' = RemoveAt(list, p)
  BY Types DEF Release
<1>2. /\ list' \in Seq(IdType) /\ Len(list') = Len(list) - 1
      /\ \A k \in 1..(Len(list) - 1) :
           list'[k] = IF k < p THEN list[k] ELSE list[k + 1]
  BY <1>1, Removed
<1>3. DOMAIN list' = 1..(Len(list) - 1)
  BY <1>1, Removed
<1>4. Sorted'
  <2>1. SUFFICES ASSUME NEW k \in 1..(Len(list) - 1), NEW l \in 1..(Len(list) - 1), k < l
                 PROVE  list'[k] < list'[l]
    BY <1>3 DEF Sorted
  <2> DEFINE at(n) == IF n < p THEN n ELSE n + 1
  <2>2. /\ at(k) \in 1..Len(list) /\ at(l) \in 1..Len(list) /\ at(k) < at(l)
    BY <2>1, Types
  <2>3. list'[k] = list[at(k)] /\ list'[l] = list[at(l)]
    BY <1>2
  <2> HIDE DEF at
  <2> QED
    BY <2>2, <2>3, Types
<1>5. TypeOK'
  BY <1>2, Types DEF IdInv, Idle, TypeOK, Release, loop
<1> QED
  BY <1>4, <1>5 DEF IdInv, Idle, Searching, Release, loop

LEMMA StepKeeps == IdInv /\ [Next]_vars => IdInv'
<1> SUFFICES ASSUME IdInv, [Next]_vars PROVE IdInv'
  OBVIOUS
<1>1. CASE Generate
  BY <1>1, GenerateKeeps
<1>2. CASE Scan
  BY <1>2, ScanKeeps
<1>3. CASE InsertHere
  BY <1>3, FoundHere, InsertKeeps DEF InsertHere
<1>4. CASE InsertInGap
  BY <1>4, FoundInGap, InsertKeeps DEF InsertInGap
<1>5. CASE AddBack
  BY <1>5, FoundAtEnd, InsertKeeps DEF AddBack
<1>6. CASE Release
  BY <1>6, ReleaseKeeps
<1>7. CASE UNCHANGED vars
  BY <1>7 DEF vars, loop, IdInv, TypeOK, Sorted, Idle, Searching, Gap, Forward,
              FromZero, Wrapped
<1> QED
  BY <1>1, <1>2, <1>3, <1>4, <1>5, <1>6, <1>7 DEF Next

\* The search never leaves what it has found out, nor the box its order.
LEMMA Always == Spec => []IdInv
BY IdInit, StepKeeps, PTL DEF Spec

\* TypeOK: the list is within the pool, the ids within their type (wa_id.c:159-238).
THEOREM TypeCorrect == Spec => []TypeOK
<1>1. IdInv => TypeOK
  BY DEF IdInv
<1> QED
  BY <1>1, Always, PTL

\* Sorted: the list of ids in use is in ascending order, without duplicates.
THEOREM InOrder == Spec => []Sorted
<1>1. IdInv => Sorted
  BY DEF IdInv
<1> QED
  BY <1>1, Always, PTL

-----------------------------------------------------------------------------
(* The refinement.                                                         *)

\* As many ids are in use as the list has elements.
LEMMA UsedCount ==
    ASSUME IdInv
    PROVE  Cardinality(Used) = Len(list)
<1>1. Len(list) \in Nat /\ DOMAIN list = 1..Len(list)
  BY Types
<1> DEFINE f == [k \in 1..Len(list) |-> list[k]]
<1>2. f \in Bijection(1..Len(list), Used)
  <2>1. f \in [1..Len(list) -> Used]
    BY UsedElement
  <2>2. ASSUME NEW k \in 1..Len(list), NEW l \in 1..Len(list), list[k] = list[l]
        PROVE  k = l
    <3>1. list[k] \in Int /\ list[l] \in Int
      BY Types DEF IdType
    <3>2. ~(k < l) /\ ~(l < k)
      BY <2>2, <3>1, Types
    <3> QED
      BY <1>1, <3>2
  <2>3. \A e \in Used : \E k \in 1..Len(list) : f[k] = e
    BY <1>1 DEF Used
  <2> QED
    BY <2>1, <2>2, <2>3 DEF Bijection, Injection, Surjection, IsInjective
<1>3. IsFiniteSet(1..Len(list)) /\ Cardinality(1..Len(list)) = Len(list)
  <2> DEFINE n == Len(list)
  <2>1. n \in Nat
    BY <1>1
  <2> HIDE DEF n
  <2>2. IsFiniteSet(1..n) /\ Cardinality(1..n) = IF 1 > n THEN 0 ELSE n - 1 + 1
    BY <2>1, FS_Interval
  <2>3. IsFiniteSet(1..n) /\ Cardinality(1..n) = n
    BY <2>1, <2>2
  <2> QED
    BY <2>3 DEF n
<1> QED
  BY <1>2, <1>3, FS_Bijection DEF ExistsBijection

\* A search that ends gives out the next free id, or finds no room for it.
LEMMA InsertGives ==
    ASSUME IdInv, NEW i, NEW p, FitsAt(i, p), Insert(i, p),
           Box!IsNextFree(i, last, Used)
    PROVE  Box!Next
<1>1. i \in IdType /\ p \in 1..(Len(list) + 1)
  BY DEF FitsAt
<1>2. CASE Len(list) < max
  <2>2. \A k \in 1..(Len(list) + 1) :
             list'[k] = IF k < p THEN list[k] ELSE IF k = p THEN i ELSE list[k - 1]
    BY <1>2, Inserted
  <2>3. DOMAIN list' = 1..(Len(list) + 1) /\ DOMAIN list = 1..Len(list)
    BY <1>2, Inserted, Types
  <2>4. Used' = Used \cup {i}
    <3>1. ASSUME NEW k \in 1..(Len(list) + 1) PROVE list'[k] \in Used \cup {i}
      <4>1. CASE k < p
        BY <1>1, <2>2, <4>1, UsedElement, Types
      <4>2. CASE k = p
        BY <2>2, <4>2
      <4>3. CASE k > p
        <5>1. k - 1 \in 1..Len(list) /\ list'[k] = list[k - 1]
          BY <1>1, <2>2, <4>3, Types
        <5> QED
          BY <5>1, UsedElement
      <4> QED
        BY <1>1, <4>1, <4>2, <4>3, Types
    <3>2. ASSUME NEW k \in 1..Len(list)
          PROVE  \E l \in 1..(Len(list) + 1) : list'[l] = list[k]
      <4>1. CASE k < p
        BY <1>1, <2>2, <4>1, Types
      <4>2. CASE k >= p
        <5>1. k + 1 \in 1..(Len(list) + 1) /\ list'[k + 1] = list[(k + 1) - 1]
          BY <1>1, <2>2, <4>2, Types
        <5> QED
          BY <5>1, Types
      <4> QED
        BY <1>1, <4>1, <4>2, Types
    <3>3. list'[p] = i
      BY <1>1, <2>2
    <3> QED
      BY <1>1, <2>3, <3>1, <3>2, <3>3 DEF Used
  <2>5. Box!Generate
    BY <1>1, <2>4 DEF Box!Generate, Box!IdType, IdType, Used, Insert
  <2> QED
    BY <2>5 DEF Box!Next
<1>3. CASE ~(Len(list) < max)
  <2>1. list' = list /\ last' = i /\ max' = max
    BY <1>3 DEF Insert
  <2>2. Box!Cardinality(Used) = max
    <3>1. Cardinality(Used) = max
      BY <1>3, UsedCount, Types
    <3>2. Box!Cardinality(Used) = Cardinality(Used)
      BY DEF Box!Cardinality, Cardinality
    <3> QED
      BY <3>1, <3>2
  <2>3. Box!GenerateFails
    BY <1>1, <2>1, <2>2 DEF Box!GenerateFails, Box!IdType, IdType, Used
  <2> QED
    BY <2>3 DEF Box!Next
<1> QED
  BY <1>2, <1>3

\* An id that is released is in use no longer, all others are.
LEMMA ReleaseGives == IdInv /\ Release => Box!Next
<1> SUFFICES ASSUME IdInv, Release PROVE Box!Next
  OBVIOUS
<1>1. PICK p \in 1..Len(list) : list' = RemoveAt(list, p)
  BY Types DEF Release
<1>2. list \in Seq(IdType) /\ DOMAIN list = 1..Len(list)
  BY Types
<1>3. /\ list' \in Seq(IdType) /\ Len(list') = Len(list) - 1
      /\ \A k \in 1..(Len(list) - 1) :
           list'[k] = IF k < p THEN list[k] ELSE list[k + 1]
  BY <1>1, Removed
<1>4. DOMAIN list' = 1..(Len(list) - 1)
  BY <1>1, Removed
<1>5. Used' = Used \ {list[p]}
  <2>1. ASSUME NEW k \in 1..(Len(list) - 1) PROVE list'[k] \in Used \ {list[p]}
    <3> DEFINE at == IF k < p THEN k ELSE k + 1
    <3>1. at \in 1..Len(list) /\ at # p /\ (at < p \/ p < at)
      BY Types
    <3>2. list'[k] = list[at]
      BY <1>3
    <3> HIDE DEF at
    <3>3. list[at] # list[p]
      <4>1. list[at] \in Int /\ list[p] \in Int
        BY <3>1, Types DEF IdType
      <4> QED
        BY <3>1, <4>1, Types
    <3> QED
      BY <3>1, <3>2, <3>3, UsedElement
  <2>2. ASSUME NEW k \in 1..Len(list), k # p
        PROVE  \E l \in 1..(Len(list) - 1) : list'[l] = list[k]
    <3>1. CASE k < p
      BY <1>3, <3>1, Types
    <3>2. CASE k > p
      <4>1. k - 1 \in 1..(Len(list) - 1) /\ list'[k - 1] = list[(k - 1) + 1]
        BY <1>3, <3>2, Types
      <4> QED
        BY <4>1, Types
    <3> QED
      BY <2>2, <3>1, <3>2, Types
  <2> QED
    <3>1. Used' \subseteq Used \ {list[p]}
      BY <1>4, <2>1 DEF Used
    <3>2. ASSUME NEW e \in Used, e # list[p] PROVE e \in Used'
      <4>1. PICK k \in 1..Len(list) : list[k] = e
        BY <1>2 DEF Used
      <4>2. PICK l \in 1..(Len(list) - 1) : list'[l] = e
        BY <2>2, <3>2, <4>1
      <4> QED
        BY <1>4, <4>2 DEF Used
    <3> QED
      BY <3>1, <3>2
<1>6. list[p] \in Used
  BY UsedElement
<1>7. Box!Release
  BY <1>5, <1>6 DEF Box!Release, Release, Used
<1> QED
  BY <1>7 DEF Box!Next

\* Each step of the search is a step of the box, or one that its user does not see.
LEMMA StepGives == IdInv /\ [Next]_vars => [Box!Next]_<<Used, last, max>>
<1> SUFFICES ASSUME IdInv, [Next]_vars PROVE Box!Next \/ UNCHANGED <<Used, last, max>>
  OBVIOUS
<1>1. CASE Generate
  BY <1>1 DEF Generate, Used
<1>2. CASE Scan
  BY <1>2 DEF Scan, Used
<1>3. CASE InsertHere
  BY <1>3, FoundHere, InsertGives DEF InsertHere
<1>4. CASE InsertInGap
  BY <1>4, FoundInGap, InsertGives DEF InsertInGap
<1>5. CASE AddBack
  BY <1>5, FoundAtEnd, InsertGives DEF AddBack
<1>6. CASE Release
  BY <1>6, ReleaseGives
<1>7. CASE UNCHANGED vars
  BY <1>7 DEF vars, Used
<1> QED
  BY <1>1, <1>2, <1>3, <1>4, <1>5, <1>6, <1>7 DEF Next

\* GivesNextFree: the ids are unique, and one that was released is given out only
\* after all that follow it and are free (wa_id.c:179-229).
THEOREM NextFree == Spec => GivesNextFree
<1>1. Init => Box!Init
  BY EmptySeq DEF Init, Box!Init
<1>2. IdInv /\ [Next]_vars =>
          [Box!Next]_<<{list[k] : k \in DOMAIN list}, last, max>>
  BY StepGives DEF Used
<1> QED
  BY <1>1, <1>2, Always, PTL DEF Spec, GivesNextFree, Box!Spec
=============================================================================
