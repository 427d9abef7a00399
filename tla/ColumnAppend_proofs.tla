------------------------- MODULE ColumnAppend_proofs -------------------------
(***************************************************************************)
(* Proofs about ColumnAppend: a block is built with all its columns and    *)
(* their parts in step, for every tree of types and whatever the rows are; *)
(* and about CellValues: what a scalar column stores and shows.            *)
(***************************************************************************)
EXTENDS ColumnAppend, SequenceTheorems, TLAPS

-----------------------------------------------------------------------------
(* Sequences                                                               *)

LEMMA SeqIsList == ASSUME NEW S, NEW s \in Seq(S) PROVE IsList(s)
<1> DEFINE items == {s[k] : k \in DOMAIN s}
<1>1. Len(s) \in Nat /\ DOMAIN s = 1 .. Len(s) /\ s \in [1 .. Len(s) -> S]
  BY LenProperties
<1>2. s \in [1 .. Len(s) -> items]  BY <1>1
<1>3. s \in Seq(items)
  <2> HIDE DEF items
  <2> QED  BY <1>1, <1>2, SeqDef
<1> QED  BY <1>3 DEF IsList

LEMMA ListFacts ==
  ASSUME NEW s, IsList(s)
  PROVE  Len(s) \in Nat /\ DOMAIN s = 1 .. Len(s)
<1> QED  BY LenProperties DEF IsList

LEMMA AppendList ==
  ASSUME NEW s, NEW e, IsList(s)
  PROVE  /\ IsList(Append(s, e))
         /\ Len(s) \in Nat /\ Len(Append(s, e)) = Len(s) + 1
         /\ DOMAIN Append(s, e) = 1 .. Len(s) + 1 /\ DOMAIN s = 1 .. Len(s)
         /\ \A k \in 1 .. Len(s) : Append(s, e)[k] = s[k]
         /\ Append(s, e)[Len(s) + 1] = e
         /\ Append(s, e) # <<>>
<1> DEFINE S == {s[k] : k \in DOMAIN s} \cup {e}
<1>1. s \in Seq(S)
  <2>1. {s[k] : k \in DOMAIN s} \subseteq S  OBVIOUS
  <2> HIDE DEF S
  <2> QED  BY <2>1, SeqMonotonic DEF IsList
<1>2. e \in S  OBVIOUS
<1> HIDE DEF S
<1>3. /\ Append(s, e) \in Seq(S)
      /\ Len(Append(s, e)) = Len(s) + 1
      /\ \A k \in 1 .. Len(s) : Append(s, e)[k] = s[k]
      /\ Append(s, e)[Len(s) + 1] = e
  BY <1>1, <1>2, AppendProperties
<1>4. IsList(Append(s, e)) /\ IsList(s)  BY <1>3, <1>1, SeqIsList
<1>5. Len(s) \in Nat /\ DOMAIN s = 1 .. Len(s) /\ DOMAIN Append(s, e) = 1 .. Len(s) + 1
  BY <1>4, <1>3, ListFacts
<1>6. Append(s, e) # <<>>  BY <1>3, <1>5, EmptySeq
<1> QED  BY <1>3, <1>4, <1>5, <1>6

LEMMA ConcatList ==
  ASSUME NEW s, NEW t, IsList(s), IsList(t)
  PROVE  /\ IsList(s \o t)
         /\ Len(s) \in Nat /\ Len(t) \in Nat /\ Len(s \o t) = Len(s) + Len(t)
         /\ DOMAIN s = 1 .. Len(s) /\ DOMAIN t = 1 .. Len(t)
         /\ DOMAIN (s \o t) = 1 .. Len(s) + Len(t)
         /\ \A k \in 1 .. Len(s) : (s \o t)[k] = s[k]
         /\ \A k \in 1 .. Len(t) : (s \o t)[Len(s) + k] = t[k]
<1> DEFINE A == {s[k] : k \in DOMAIN s}
           B == {t[k] : k \in DOMAIN t}
           S == A \cup B
<1>1. A \subseteq S /\ B \subseteq S  OBVIOUS
<1>2. s \in Seq(A) /\ t \in Seq(B)  BY DEF IsList
<1> HIDE DEF A, B, S
<1>3. s \in Seq(S) /\ t \in Seq(S)  BY <1>1, <1>2, SeqMonotonic
<1>4. /\ s \o t \in Seq(S)
      /\ Len(s \o t) = Len(s) + Len(t)
      /\ \A i_1 \in 1 .. Len(s) + Len(t) :
           (s \o t)[i_1] = IF i_1 <= Len(s) THEN s[i_1] ELSE t[i_1 - Len(s)]
  BY <1>3, ConcatProperties
<1>5. Len(s) \in Nat /\ Len(t) \in Nat /\ DOMAIN s = 1 .. Len(s) /\ DOMAIN t = 1 .. Len(t)
  BY ListFacts
<1>6. IsList(s \o t)  BY <1>4, SeqIsList
<1>7. DOMAIN (s \o t) = 1 .. Len(s) + Len(t)  BY <1>4, <1>6, ListFacts
<1>8. \A k \in 1 .. Len(s) : (s \o t)[k] = s[k]  BY <1>4, <1>5
<1>9. \A k \in 1 .. Len(t) : (s \o t)[Len(s) + k] = t[k]
  <2> TAKE k \in 1 .. Len(t)
  <2>1. Len(s) + k \in 1 .. Len(s) + Len(t) /\ ~(Len(s) + k <= Len(s)) /\ (Len(s) + k) - Len(s) = k
    BY <1>5
  <2> QED  BY <2>1, <1>4
<1> QED  BY <1>4, <1>5, <1>6, <1>7, <1>8, <1>9

-----------------------------------------------------------------------------
(* Offsets                                                                 *)

LEMMA EmptyOffsets == IsOffsets(<<>>) /\ EndOf(<<>>) = 0 /\ IsList(<<>>) /\ Len(<<>>) = 0
<1>1. <<>> \in Seq(Nat) /\ Len(<<>>) = 0  BY EmptySeq
<1>2. IsList(<<>>)  BY <1>1, SeqIsList
<1>3. EndOf(<<>>) = 0  BY DEF EndOf
<1>4. IsOffsets(<<>>)  BY <1>1 DEF IsOffsets
<1> QED  BY <1>1, <1>2, <1>3, <1>4

LEMMA OffsetFacts ==
  ASSUME NEW s, IsOffsets(s)
  PROVE  IsList(s) /\ Len(s) \in Nat /\ EndOf(s) \in Nat /\ \A k \in 1 .. Len(s) : s[k] \in Nat
<1>1. s \in Seq(Nat)  BY DEF IsOffsets
<1>2. Len(s) \in Nat /\ s \in [1 .. Len(s) -> Nat]  BY <1>1, LenProperties
<1>3. EndOf(s) \in Nat
  <2>1. CASE s = <<>>  BY <2>1 DEF EndOf
  <2>2. CASE s # <<>>
    <3>1. Len(s) \in 1 .. Len(s)  BY <2>2, <1>1, <1>2, EmptySeq
    <3> QED  BY <3>1, <1>2, <2>2 DEF EndOf
  <2> QED  BY <2>1, <2>2
<1> QED  BY <1>1, <1>2, <1>3, SeqIsList

(* One more row: the offsets stay in order and end where it ends.          *)
LEMMA AppendOffset ==
  ASSUME NEW s, NEW d \in Nat, IsOffsets(s)
  PROVE  LET t == Append(s, EndOf(s) + d) IN IsOffsets(t) /\ EndOf(t) = EndOf(s) + d
<1> DEFINE e == EndOf(s) + d
           t == Append(s, e)
<1>1. s \in Seq(Nat) /\ Len(s) \in Nat /\ EndOf(s) \in Nat /\ IsList(s)
  BY OffsetFacts DEF IsOffsets
<1>2. e \in Nat  BY <1>1
<1>3. EndOf(s) <= e  BY <1>1
<1> HIDE DEF e
<1>4. t \in Seq(Nat)  BY <1>1, <1>2, AppendProperties
<1>5. /\ Len(t) = Len(s) + 1 /\ t # <<>> /\ t[Len(s) + 1] = e
      /\ \A k \in 1 .. Len(s) : t[k] = s[k]
  BY <1>1, AppendList
<1> HIDE DEF t
<1>6. EndOf(t) = e  BY <1>5 DEF EndOf
<1>7. ASSUME NEW k \in 1 .. Len(t) - 1 PROVE t[k] <= t[k + 1]
  <2>1. CASE k = Len(s)
    <3>1. s # <<>>  BY <2>1, <1>1, EmptyOffsets
    <3>2. EndOf(s) = s[Len(s)]  BY <3>1 DEF EndOf
    <3> QED  BY <3>2, <2>1, <1>5, <1>3, <1>1
  <2>2. CASE k # Len(s)
    <3>1. k \in 1 .. Len(s) - 1 /\ k \in 1 .. Len(s) /\ k + 1 \in 1 .. Len(s)  BY <2>2, <1>5, <1>1
    <3>2. s[k] <= s[k + 1]  BY <3>1 DEF IsOffsets
    <3> QED  BY <3>1, <3>2, <1>5
  <2> QED  BY <2>1, <2>2
<1>8. IsOffsets(t)  BY <1>4, <1>7 DEF IsOffsets
<1> QED  BY <1>6, <1>8 DEF t, e

(* Offsets that are appended go on where the ones before end.              *)
LEMMA ConcatOffsets ==
  ASSUME NEW s, NEW u, IsOffsets(s), IsOffsets(u)
  PROVE  LET t == s \o [k \in DOMAIN u |-> EndOf(s) + u[k]]
         IN IsOffsets(t) /\ EndOf(t) = EndOf(s) + EndOf(u) /\ Len(t) = Len(s) + Len(u)
<1> DEFINE w == [k \in DOMAIN u |-> EndOf(s) + u[k]]
           t == s \o w
<1>1. s \in Seq(Nat) /\ Len(s) \in Nat /\ EndOf(s) \in Nat /\ IsList(s)
  BY OffsetFacts DEF IsOffsets
<1>2. /\ u \in Seq(Nat) /\ Len(u) \in Nat /\ EndOf(u) \in Nat /\ IsList(u)
      /\ DOMAIN u = 1 .. Len(u) /\ \A k \in 1 .. Len(u) : u[k] \in Nat
  BY OffsetFacts, ListFacts DEF IsOffsets
<1>3. w \in [1 .. Len(u) -> Nat] /\ \A k \in 1 .. Len(u) : w[k] = EndOf(s) + u[k]
  BY <1>1, <1>2
<1> HIDE DEF w
<1>4. w \in Seq(Nat) /\ Len(w) = Len(u)
  <2>1. w \in Seq(Nat)  BY <1>3, <1>2, SeqDef
  <2>2. DOMAIN w = 1 .. Len(w) /\ Len(w) \in Nat  BY <2>1, LenProperties
  <2>3. DOMAIN w = 1 .. Len(u)  BY <1>3
  <2>4. ASSUME NEW a \in Nat, NEW b \in Nat, 1 .. a = 1 .. b PROVE a = b
    <3>1. a < b => b \in 1 .. b /\ b \notin 1 .. a  OBVIOUS
    <3>2. b < a => a \in 1 .. a /\ a \notin 1 .. b  OBVIOUS
    <3> QED  BY <3>1, <3>2, <2>4
  <2>5. Len(w) = Len(u)  BY ONLY <2>2, <2>3, <2>4, <1>2
  <2> QED  BY <2>1, <2>5
<1>5. IsList(w)  BY <1>4, SeqIsList
<1>6. t \in Seq(Nat)  BY <1>1, <1>4, ConcatProperties
<1>7. /\ Len(t) = Len(s) + Len(u)
      /\ \A k \in 1 .. Len(s) : t[k] = s[k]
      /\ \A k \in 1 .. Len(u) : t[Len(s) + k] = EndOf(s) + u[k]
  <2>1. /\ Len(t) = Len(s) + Len(w)
        /\ \A k \in 1 .. Len(s) : t[k] = s[k]
        /\ \A k \in 1 .. Len(w) : t[Len(s) + k] = w[k]
    BY ONLY <1>1, <1>5, ConcatList
  <2> QED  BY ONLY <2>1, <1>3, <1>4
<1> HIDE DEF t
<1>8. EndOf(t) = EndOf(s) + EndOf(u)
  <2>1. CASE u = <<>>
    <3>1. Len(u) = 0 /\ EndOf(u) = 0  BY <2>1, EmptyOffsets
    <3>2. Len(t) = Len(s)  BY <3>1, <1>7, <1>1
    <3>3. CASE s = <<>>
      <4>1. t = <<>>  BY <3>2, <3>3, <1>6, EmptySeq, EmptyOffsets
      <4> QED  BY <4>1, <3>1, <3>3, EmptyOffsets
    <3>4. CASE s # <<>>
      <4>1. Len(s) \in 1 .. Len(s)  BY <3>4, <1>1, EmptySeq
      <4>2. t # <<>>  BY <4>1, <3>2, EmptyOffsets
      <4>3. t[Len(s)] = s[Len(s)]  BY <4>1, <1>7
      <4> QED  BY <4>2, <4>3, <3>1, <3>2, <3>4, <1>1 DEF EndOf
    <3> QED  BY <3>3, <3>4
  <2>2. CASE u # <<>>
    <3>1. Len(u) \in 1 .. Len(u)  BY <2>2, <1>2, EmptySeq
    <3>2. t # <<>>  BY <3>1, <1>1, <1>2, <1>7, EmptyOffsets
    <3>3. t[Len(s) + Len(u)] = EndOf(s) + u[Len(u)]  BY <3>1, <1>7
    <3>4. EndOf(u) = u[Len(u)] /\ EndOf(t) = t[Len(t)]  BY <2>2, <3>2 DEF EndOf
    <3> QED  BY <3>3, <3>4, <1>7
  <2> QED  BY <2>1, <2>2
<1>9. ASSUME NEW k \in 1 .. Len(t) - 1 PROVE t[k] <= t[k + 1]
  <2>1. CASE k < Len(s)
    <3>1. k \in 1 .. Len(s) - 1 /\ k \in 1 .. Len(s) /\ k + 1 \in 1 .. Len(s)  BY <2>1, <1>1, <1>7, <1>2
    <3>2. s[k] <= s[k + 1]  BY <3>1 DEF IsOffsets
    <3> QED  BY <3>1, <3>2, <1>7
  <2>2. CASE k = Len(s)
    <3>1. s # <<>> /\ k \in 1 .. Len(s)  BY <2>2, <1>1, EmptyOffsets
    <3>2. EndOf(s) = s[Len(s)]  BY <3>1 DEF EndOf
    <3>3. 1 \in 1 .. Len(u)  BY <2>2, <1>7, <1>1, <1>2
    <3>4. t[Len(s) + 1] = EndOf(s) + u[1] /\ u[1] \in Nat  BY <3>3, <1>7, <1>2
    <3> QED  BY <3>1, <3>2, <3>4, <2>2, <1>7, <1>1
  <2>3. CASE k > Len(s)
    <3> DEFINE j == k - Len(s)
    <3>1. /\ j \in 1 .. Len(u) - 1 /\ j \in 1 .. Len(u) /\ j + 1 \in 1 .. Len(u)
          /\ Len(s) + j = k /\ Len(s) + (j + 1) = k + 1
      BY <2>3, <1>7, <1>1, <1>2
    <3> HIDE DEF j
    <3>2. u[j] <= u[j + 1]  BY <3>1 DEF IsOffsets
    <3>3. t[Len(s) + j] = EndOf(s) + u[j] /\ t[Len(s) + (j + 1)] = EndOf(s) + u[j + 1]
      BY <3>1, <1>7
    <3>4. u[j] \in Nat /\ u[j + 1] \in Nat  BY <3>1, <1>2
    <3> QED  BY <3>1, <3>2, <3>3, <3>4, <1>1
  <2> QED  BY <2>1, <2>2, <2>3, <1>1, <1>7, <1>2
<1>10. IsOffsets(t)  BY <1>6, <1>9 DEF IsOffsets
<1> QED  BY <1>7, <1>8, <1>10 DEF t, w

-----------------------------------------------------------------------------
(* Paths: a part of a column is named by the path to the column and one    *)
(* number more.                                                            *)

LEMMA PartOfPath ==
  ASSUME NEW n \in Seq(Nat), NEW k \in Nat
  PROVE  /\ Append(n, k) \in Seq(Nat) /\ Len(n) \in Nat
         /\ Len(Append(n, k)) = Len(n) + 1 /\ Append(n, k)[Len(n) + 1] = k
         /\ \A j \in 1 .. Len(n) : Append(n, k)[j] = n[j]
         /\ Append(n, k) # <<>> /\ Append(n, k) # n
         /\ Caller(Append(n, k)) = n
<1> DEFINE c == Append(n, k)
<1>1. c \in Seq(Nat) /\ Len(n) \in Nat /\ Len(c) = Len(n) + 1
  BY AppendProperties, LenProperties
<1>2. c[Len(n) + 1] = k /\ \A j \in 1 .. Len(n) : c[j] = n[j]
  BY AppendProperties
<1>3. c # <<>> /\ c # n  BY <1>1, EmptySeq
<1> HIDE DEF c
<1>4. \A j \in 1 .. Len(n) : c[j] \in Nat  BY <1>2, ElementOfSeq
<1>5. /\ SubSeq(c, 1, Len(n)) \in Seq(Nat) /\ Len(SubSeq(c, 1, Len(n))) = Len(n)
      /\ \A j \in 1 .. Len(n) : SubSeq(c, 1, Len(n))[j] = n[j]
  <2>1. /\ SubSeq(c, 1, Len(n)) \in Seq(Nat)
        /\ Len(SubSeq(c, 1, Len(n))) = IF 1 <= Len(n) THEN Len(n) - 1 + 1 ELSE 0
        /\ \A j \in 1 .. Len(n) - 1 + 1 : SubSeq(c, 1, Len(n))[j] = c[1 + j - 1]
    BY <1>1, <1>4, SubSeqProperties
  <2>2. \A j \in 1 .. Len(n) : 1 + j - 1 = j /\ j \in 1 .. Len(n) - 1 + 1  BY <1>1
  <2> QED  BY <2>1, <2>2, <1>1, <1>2
<1>6. SubSeq(c, 1, Len(n)) = n  BY <1>5, SeqEqual
<1>7. Caller(c) = n
  <2>1. Len(c) - 1 = Len(n)  BY <1>1
  <2> QED  BY <1>6, <2>1 DEF Caller
<1> QED  BY <1>1, <1>2, <1>3, <1>7 DEF c

LEMMA CallerOfPath ==
  ASSUME NEW n \in Seq(Nat), n # <<>>
  PROVE  /\ Caller(n) \in Seq(Nat) /\ Len(n) \in Nat \ {0} /\ Len(Caller(n)) = Len(n) - 1
         /\ n[Len(n)] \in Nat /\ n = Append(Caller(n), n[Len(n)])
         /\ \A j \in 1 .. Len(n) - 1 : Caller(n)[j] = n[j]
<1> DEFINE m == Len(n) - 1
<1>1. Len(n) \in Nat \ {0} /\ m \in Nat /\ m < Len(n)  BY EmptySeq
<1>2. \A j \in 1 .. Len(n) : n[j] \in Nat  BY ElementOfSeq
<1>3. \A j \in 1 .. m : n[j] \in Nat  BY <1>1, <1>2
<1>4. /\ SubSeq(n, 1, m) \in Seq(Nat)
      /\ Len(SubSeq(n, 1, m)) = IF 1 <= m THEN m - 1 + 1 ELSE 0
      /\ \A j \in 1 .. m - 1 + 1 : SubSeq(n, 1, m)[j] = n[1 + j - 1]
  <2> HIDE DEF m
  <2> QED  BY <1>1, <1>3, SubSeqProperties
<1>5. \A j \in 1 .. m : 1 + j - 1 = j /\ j \in 1 .. m - 1 + 1  BY <1>1
<1>6. /\ Caller(n) \in Seq(Nat) /\ Len(Caller(n)) = m
      /\ \A j \in 1 .. m : Caller(n)[j] = n[j]
  <2>1. Caller(n) = SubSeq(n, 1, m)  BY DEF Caller
  <2> DEFINE u == SubSeq(n, 1, m)
  <2>2. u \in Seq(Nat) /\ \A j \in 1 .. m : u[j] = n[j]  BY <1>4, <1>5
  <2>3. Len(u) = m
    <3>1. Len(u) = IF 1 <= m THEN m - 1 + 1 ELSE 0  BY <1>4
    <3> HIDE DEF m, u
    <3> QED  BY <3>1, <1>1
  <2> QED  BY ONLY <2>1, <2>2, <2>3
<1>7. n[Len(n)] \in Nat  BY <1>1, <1>2
<1> DEFINE c == Append(Caller(n), n[Len(n)])
<1>8. /\ c \in Seq(Nat) /\ Len(c) = m + 1 /\ c[m + 1] = n[Len(n)]
      /\ \A j \in 1 .. m : c[j] = Caller(n)[j]
  <2> HIDE DEF m
  <2> QED  BY <1>6, <1>7, PartOfPath
<1> HIDE DEF c
<1>9. Len(c) = Len(n) /\ \A j \in 1 .. Len(c) : c[j] = n[j]
  <2>1. Len(c) = Len(n) /\ m + 1 = Len(n)  BY <1>8, <1>1
  <2>2. ASSUME NEW j \in 1 .. Len(c) PROVE c[j] = n[j]
    <3>1. CASE j = Len(n)  BY <3>1, <2>1, <1>8
    <3>2. CASE j # Len(n)
      <4>1. j \in 1 .. m  BY <3>2, <2>1, <1>1
      <4> QED  BY <4>1, <1>8, <1>6
    <3> QED  BY <3>1, <3>2
  <2> QED  BY <2>1, <2>2
<1>10. c = n  BY <1>8, <1>9, SeqEqual
<1> QED  BY <1>1, <1>6, <1>7, <1>10 DEF c

LEMMA PartsDiffer ==
  ASSUME NEW n \in Seq(Nat), NEW m \in Seq(Nat), NEW k \in Nat, NEW j \in Nat,
         Append(n, k) = Append(m, j)
  PROVE  n = m /\ k = j
<1>1. n = m
  <2>1. Caller(Append(n, k)) = n  BY PartOfPath
  <2>2. Caller(Append(m, j)) = m  BY PartOfPath
  <2> QED  BY <2>1, <2>2
<1>2. Append(n, k)[Len(n) + 1] = k /\ Append(m, j)[Len(m) + 1] = j  BY PartOfPath
<1> QED  BY <1>1, <1>2

(* The path n leads on to m.                                               *)
LeadsTo(n, m) == Len(n) <= Len(m) /\ \A k \in 1 .. Len(n) : n[k] = m[k]

LEMMA LeadsToFacts ==
  ASSUME NEW n \in Seq(Nat), NEW m \in Seq(Nat)
  PROVE  /\ LeadsTo(m, m) /\ LeadsTo(<<>>, m)
         /\ LeadsTo(n, m) /\ n # m => Len(n) < Len(m)
         /\ LeadsTo(n, m) /\ n # <<>> => LeadsTo(Caller(n), m) /\ Caller(n) # m
         /\ m # <<>> => (LeadsTo(n, Caller(m)) <=> LeadsTo(n, m) /\ n # m)
<1>1. Len(n) \in Nat /\ Len(m) \in Nat /\ Len(<<>>) = 0  BY LenProperties, EmptySeq
<1>2. LeadsTo(m, m) /\ LeadsTo(<<>>, m)  BY <1>1 DEF LeadsTo
<1>3. ASSUME LeadsTo(n, m), n # m PROVE Len(n) < Len(m)
  <2>1. Len(n) # Len(m)  BY <1>3, SeqEqual DEF LeadsTo
  <2> QED  BY <2>1, <1>3, <1>1 DEF LeadsTo
<1>4. ASSUME LeadsTo(n, m), n # <<>> PROVE LeadsTo(Caller(n), m) /\ Caller(n) # m
  <2>1. /\ Caller(n) \in Seq(Nat) /\ Len(n) \in Nat \ {0} /\ Len(Caller(n)) = Len(n) - 1
        /\ \A j \in 1 .. Len(n) - 1 : Caller(n)[j] = n[j]
    BY <1>4, CallerOfPath
  <2>2. Len(Caller(n)) < Len(m)  BY <2>1, <1>4, <1>1 DEF LeadsTo
  <2>3. ASSUME NEW j \in 1 .. Len(Caller(n)) PROVE Caller(n)[j] = m[j]
    <3>1. j \in 1 .. Len(n) - 1 /\ j \in 1 .. Len(n)  BY <2>1
    <3> QED  BY <3>1, <2>1, <1>4 DEF LeadsTo
  <2> QED  BY <2>1, <2>2, <2>3, <1>1 DEF LeadsTo
<1>5. ASSUME m # <<>> PROVE LeadsTo(n, Caller(m)) <=> LeadsTo(n, m) /\ n # m
  <2>1. /\ Caller(m) \in Seq(Nat) /\ Len(m) \in Nat \ {0} /\ Len(Caller(m)) = Len(m) - 1
        /\ \A j \in 1 .. Len(m) - 1 : Caller(m)[j] = m[j]
    BY <1>5, CallerOfPath
  <2>2. ASSUME LeadsTo(n, Caller(m)) PROVE LeadsTo(n, m) /\ n # m
    <3>1. Len(n) <= Len(m) - 1  BY <2>2, <2>1 DEF LeadsTo
    <3>2. \A k \in 1 .. Len(n) : k \in 1 .. Len(m) - 1  BY <3>1, <1>1
    <3>3. \A k \in 1 .. Len(n) : n[k] = m[k]  BY <3>2, <2>1, <2>2 DEF LeadsTo
    <3> QED  BY <3>1, <3>3, <1>1 DEF LeadsTo
  <2>3. ASSUME LeadsTo(n, m), n # m PROVE LeadsTo(n, Caller(m))
    <3>1. Len(n) <= Len(m) - 1  BY <2>3, <1>3, <1>1
    <3>2. \A k \in 1 .. Len(n) : k \in 1 .. Len(m) - 1  BY <3>1, <1>1
    <3>3. \A k \in 1 .. Len(n) : n[k] = Caller(m)[k]  BY <3>2, <2>1, <2>3 DEF LeadsTo
    <3> QED  BY <3>1, <3>3, <2>1 DEF LeadsTo
  <2> QED  BY <2>2, <2>3
<1> QED  BY <1>2, <1>3, <1>4, <1>5

LEMMA LeadsToPart ==
  ASSUME NEW n \in Seq(Nat), NEW m \in Seq(Nat), NEW k \in Nat
  PROVE  LeadsTo(n, Append(m, k)) <=> LeadsTo(n, m) \/ n = Append(m, k)
<1> DEFINE c == Append(m, k)
<1>1. c \in Seq(Nat) /\ c # <<>> /\ Caller(c) = m  BY PartOfPath
<1> HIDE DEF c
<1>2. LeadsTo(n, m) <=> LeadsTo(n, c) /\ n # c  BY <1>1, LeadsToFacts
<1>3. LeadsTo(c, c)  BY <1>1, LeadsToFacts
<1> QED  BY <1>2, <1>3 DEF c

(* The columns of a table, and the parts of a column.                      *)
LEMMA TreeFacts ==
  ASSUME NEW t, TypeTree(t)
  PROVE  /\ <<>> \in DOMAIN t /\ DOMAIN t \subseteq Seq(Nat) /\ t[<<>>].code = "Tuple"
         /\ \A n \in DOMAIN t : t[n].parts \in Nat /\ Len(n) \in Nat
         /\ \A n \in DOMAIN t : n # <<>> =>
              /\ Caller(n) \in DOMAIN t /\ n[Len(n)] \in 1 .. t[Caller(n)].parts
              /\ Len(Caller(n)) = Len(n) - 1 /\ n = Append(Caller(n), n[Len(n)])
         /\ \A n \in DOMAIN t : \A k \in 1 .. t[n].parts :
              /\ Append(n, k) \in DOMAIN t /\ Len(Append(n, k)) = Len(n) + 1
              /\ Append(n, k) # <<>> /\ Append(n, k) # n /\ Caller(Append(n, k)) = n
<1>1. /\ DOMAIN t \subseteq Seq(Nat) /\ <<>> \in DOMAIN t /\ t[<<>>].code = "Tuple"
      /\ \A n \in DOMAIN t : t[n].parts \in Nat
      /\ \A n \in DOMAIN t \ {<<>>} :
           Caller(n) \in DOMAIN t /\ n[Len(n)] \in 1 .. t[Caller(n)].parts
      /\ \A n \in DOMAIN t : \A k \in 1 .. t[n].parts : Append(n, k) \in DOMAIN t
  BY DEF TypeTree
<1>2. \A n \in DOMAIN t : Len(n) \in Nat  BY <1>1, LenProperties
<1>3. \A n \in DOMAIN t : n # <<>> =>
        Len(Caller(n)) = Len(n) - 1 /\ n = Append(Caller(n), n[Len(n)])
  BY <1>1, CallerOfPath
<1>4. \A n \in DOMAIN t : \A k \in 1 .. t[n].parts :
        /\ Len(Append(n, k)) = Len(n) + 1
        /\ Append(n, k) # <<>> /\ Append(n, k) # n /\ Caller(Append(n, k)) = n
  BY <1>1, PartOfPath
<1> QED  BY <1>1, <1>2, <1>3, <1>4

-----------------------------------------------------------------------------
(* Cells                                                                   *)

(* A cast keeps what is in range, and always ends in range.                *)
LEMMA WrappedFacts ==
  ASSUME NEW n \in Int, NEW half \in Nat \ {0}
  PROVE  /\ Wrapped(n, half) \in Int /\ - half <= Wrapped(n, half) /\ Wrapped(n, half) < half
         /\ - half <= n /\ n < half => Wrapped(n, half) = n
<1> DEFINE d == 2 * half
           m == n % d
<1>1. d \in Nat \ {0} /\ d = half + half  OBVIOUS
<1>2. m \in 0 .. d - 1 /\ (0 <= n /\ n < d => m = n) /\ (- d <= n /\ n < 0 => m = n + d)
  <2> HIDE DEF d
  <2>1. m \in 0 .. d - 1  BY <1>1
  <2>2. 0 <= n /\ n < d => m = n  BY <1>1
  <2>3. - d <= n /\ n < 0 => m = n + d  BY <1>1
  <2> QED  BY <2>1, <2>2, <2>3
<1>3. Wrapped(n, half) = IF m < half THEN m ELSE m - d  BY DEF Wrapped
<1> HIDE DEF m, d
<1> QED  BY <1>1, <1>2, <1>3

LEMMA NumbersOfValues ==
  ASSUME NEW v \in PhpValues
  PROVE  Deref(v) \in PhpValues /\ ToLong(v) \in Int /\ Timestamp(v) \in Int
<1>1. /\ Kind(v) = "reference" => v[2] \in PhpValues
      /\ Kind(v) = "time" => v[2][1] \in Int
      /\ \A w \in PhpValues : Kind(w) = "int" => w[2] \in Int
      /\ \A w \in PhpValues : Kind(w) = "float" => w[2][1] \in Int /\ w[2][2] \in Nat \ {0}
  BY ValuesAssumption
<1>2. Deref(v) \in PhpValues  BY <1>1 DEF Deref
<1>3. ToLong(v) \in Int
  <2> DEFINE w == Deref(v)
             f == Wrapped(Quot(w[2][1], w[2][2]), LongHalf)
  <2>1. Kind(w) = "int" => w[2] \in Int  BY <1>1, <1>2
  <2>2. Kind(w) = "float" => f \in Int
    <3> SUFFICES ASSUME Kind(w) = "float" PROVE f \in Int  OBVIOUS
    <3>1. w[2][1] \in Int /\ w[2][2] \in Nat \ {0}  BY <1>1, <1>2
    <3>2. ASSUME NEW a \in Int, NEW b \in Nat \ {0} PROVE Quot(a, b) \in Int  BY DEF Quot
    <3>3. Quot(w[2][1], w[2][2]) \in Int  BY <3>1, <3>2
    <3>4. LongHalf \in Nat \ {0}  BY WidthAssumption
    <3> QED  BY ONLY <3>3, <3>4, WrappedFacts
  <2> HIDE DEF w, f
  <2>3. ToLong(v) = CASE Kind(w) = "int" -> w[2]
                      [] Kind(w) = "float" -> f
                      [] Kind(w) = "bool" -> IF w[2] THEN 1 ELSE 0
                      [] Kind(w) = "array" -> IF w[2] = <<>> THEN 0 ELSE 1
                      [] Kind(w) = "time" -> 1
                      [] OTHER -> 0
    BY DEF ToLong, w, f
  <2> QED  BY <2>1, <2>2, <2>3
<1> QED  BY <1>1, <1>2, <1>3 DEF Timestamp

LEMMA UuidHasAllDigits == ASSUME NEW text PROVE Len(ParseUuid(text)) = 32
<1>1. ASSUME NEW nibbles PROVE IsList(Word(nibbles)) /\ Len(Word(nibbles)) = 16
  <2> DEFINE w == Word(nibbles)
             S == {w[k] : k \in 1 .. 16}
  <2>1. w \in [1 .. 16 -> S]  BY DEF Word
  <2>2. DOMAIN w = 1 .. 16  BY DEF Word
  <2> HIDE DEF w, S
  <2>3. w \in Seq(S)  BY <2>1, SeqDef
  <2>4. IsList(w) /\ Len(w) \in Nat /\ DOMAIN w = 1 .. Len(w)  BY <2>3, SeqIsList, LenProperties
  <2>5. Len(w) = 16
    <3>1. Len(w) \in 1 .. Len(w) \/ Len(w) = 0  BY <2>4
    <3>2. Len(w) <= 16  BY <3>1, <2>2, <2>4
    <3>3. 16 \in 1 .. Len(w)  BY <2>2, <2>4
    <3> QED  BY <3>2, <3>3, <2>4
  <2> QED  BY <2>4, <2>5 DEF w
<1>2. PICK u, w : ParseUuid(text) = Word(u) \o Word(w)  BY DEF ParseUuid
<1>3. Len(Word(u) \o Word(w)) = Len(Word(u)) + Len(Word(w))  BY <1>1, ConcatList
<1>4. Len(Word(u)) = 16 /\ Len(Word(w)) = 16  BY <1>1
<1>5. Len(Word(u) \o Word(w)) = 32  BY ONLY <1>3, <1>4
<1> QED  BY ONLY <1>2, <1>5

(* Whatever the value, the cell is one that the column can hold.           *)
LEMMA EncodedFits ==
  ASSUME NEW ty, NEW v \in PhpValues, ty.code \in Scalars,
         ty.code = "Int" => ty.half \in Nat \ {0},
         ty.code \in {"UInt", "DateTime"} => ty.size \in Nat \ {0}
  PROVE  Fits(ty, Encoded(ty, v))
<1>1. ToLong(v) \in Int /\ Timestamp(v) \in Int  BY NumbersOfValues
<1>2. CASE ty.code = "Int"
  <2>1. Encoded(ty, v) = Wrapped(ToLong(v), ty.half)  BY <1>2 DEF Encoded
  <2>2. /\ Encoded(ty, v) \in Int /\ - ty.half <= Encoded(ty, v) /\ Encoded(ty, v) < ty.half
    BY <1>1, <1>2, <2>1, WrappedFacts
  <2> QED  BY <2>2, <1>2 DEF Fits, InColumn
<1>3. CASE ty.code \in {"UInt", "DateTime"}
  <2>1. PICK n \in Int : Encoded(ty, v) = n % ty.size
    <3>1. CASE ty.code = "UInt"  BY <3>1, <1>1 DEF Encoded
    <3>2. CASE ty.code = "DateTime"  BY <3>2, <1>1 DEF Encoded
    <3> QED  BY <3>1, <3>2, <1>3
  <2>2. ASSUME NEW d \in Nat \ {0} PROVE n % d \in 0 .. d - 1  BY <2>2
  <2>3. Encoded(ty, v) \in 0 .. ty.size - 1  BY ONLY <2>1, <2>2, <1>3,
          ty.code \in {"UInt", "DateTime"} => ty.size \in Nat \ {0}
  <2> HIDE DEF Fits
  <2>4. Encoded(ty, v) \in Int /\ InColumn(ty, Encoded(ty, v))
    BY <2>3, <1>3 DEF InColumn
  <2> QED  BY <2>4, <1>3 DEF Fits
<1>4. CASE ty.code = "UUID"
  <2>1. Len(Encoded(ty, v)) = 32  BY <1>4, UuidHasAllDigits DEF Encoded
  <2> QED  BY <2>1, <1>4 DEF Fits
<1> QED  BY <1>2, <1>3, <1>4 DEF Fits

(* The contents of a column are cells of its type.                         *)
Holds(ty, s) == IsList(s) /\ \A k \in DOMAIN s : Fits(ty, s[k])

LEMMA EmptyHolds == \A ty : Holds(ty, <<>>)
<1>1. Len(<<>>) = 0  BY EmptySeq
<1>2. DOMAIN <<>> = 1 .. Len(<<>>)  BY EmptyOffsets, ListFacts
<1> QED  BY <1>1, <1>2, EmptyOffsets DEF Holds

LEMMA AppendHolds ==
  ASSUME NEW ty, NEW s, NEW e, Holds(ty, s), Fits(ty, e)
  PROVE  Holds(ty, Append(s, e)) /\ Len(s) \in Nat /\ Len(Append(s, e)) = Len(s) + 1
<1>1. /\ IsList(Append(s, e)) /\ Len(s) \in Nat /\ Len(Append(s, e)) = Len(s) + 1
      /\ DOMAIN Append(s, e) = 1 .. Len(s) + 1 /\ DOMAIN s = 1 .. Len(s)
      /\ \A k \in 1 .. Len(s) : Append(s, e)[k] = s[k]
      /\ Append(s, e)[Len(s) + 1] = e
  BY AppendList DEF Holds
<1>2. ASSUME NEW k \in 1 .. Len(s) + 1 PROVE Fits(ty, Append(s, e)[k])
  <2>1. CASE k = Len(s) + 1  BY <2>1, <1>1
  <2>2. CASE k # Len(s) + 1
    <3>1. k \in 1 .. Len(s)  BY <2>2, <1>1
    <3> QED  BY <3>1, <1>1 DEF Holds
  <2> QED  BY <2>1, <2>2
<1> QED  BY <1>1, <1>2 DEF Holds

LEMMA ConcatHolds ==
  ASSUME NEW ty, NEW s, NEW u, Holds(ty, s), Holds(ty, u)
  PROVE  Holds(ty, s \o u) /\ Len(s \o u) = Len(s) + Len(u)
<1>1. /\ IsList(s \o u) /\ Len(s) \in Nat /\ Len(u) \in Nat /\ Len(s \o u) = Len(s) + Len(u)
      /\ DOMAIN s = 1 .. Len(s) /\ DOMAIN u = 1 .. Len(u)
      /\ DOMAIN (s \o u) = 1 .. Len(s) + Len(u)
      /\ \A k \in 1 .. Len(s) : (s \o u)[k] = s[k]
      /\ \A k \in 1 .. Len(u) : (s \o u)[Len(s) + k] = u[k]
  BY ConcatList DEF Holds
<1>2. ASSUME NEW k \in 1 .. Len(s) + Len(u) PROVE Fits(ty, (s \o u)[k])
  <2>1. CASE k <= Len(s)
    <3>1. k \in 1 .. Len(s)  BY <2>1, <1>1
    <3> QED  BY <3>1, <1>1 DEF Holds
  <2>2. CASE k > Len(s)
    <3>1. PICK j \in 1 .. Len(u) : k = Len(s) + j
      <4>1. k - Len(s) \in 1 .. Len(u) /\ k = Len(s) + (k - Len(s))  BY <2>2, <1>1
      <4> QED  BY <4>1
    <3> QED  BY <3>1, <1>1 DEF Holds
  <2> QED  BY <2>1, <2>2, <1>1
<1> QED  BY <1>1, <1>2 DEF Holds

-----------------------------------------------------------------------------
(* Calls                                                                   *)

Frame == [value : PhpValues, into : DOMAIN table,
          todo : Seq(PhpValues \X PhpValues), next : Nat]

LEMMA FrameFacts ==
  ASSUME BuildTypeOK, NEW n \in DOMAIN table
  PROVE  /\ frames[n] \in Frame /\ DOMAIN frames = DOMAIN table
         /\ frames[n].value \in PhpValues /\ frames[n].into \in DOMAIN table
         /\ frames[n].todo \in Seq(PhpValues \X PhpValues)
         /\ frames[n].next \in 1 .. table[n].parts + 1 /\ frames[n].next \in Nat \ {0}
         /\ table[n].parts \in Nat
<1>1. frames \in [DOMAIN table -> Frame] /\ frames[n].next \in 1 .. table[n].parts + 1
  BY DEF BuildTypeOK, Frame
<1>2. table[n].parts \in Nat  BY TreeFacts DEF BuildTypeOK
<1> QED  BY <1>1, <1>2 DEF Frame

LEMMA PartFacts ==
  ASSUME BuildTypeOK, NEW n \in DOMAIN table
  PROVE  /\ table[n].code \in {"Nullable", "Array"} => table[n].parts = 1
         /\ table[n].code = "Map" => table[n].parts = 2
         /\ table[n].code \notin {"Nullable", "Array", "Tuple", "Map"} => table[n].parts = 0
         /\ table[n].code = "Int" => table[n].half \in Nat \ {0}
         /\ table[n].code \in {"UInt", "DateTime"} => table[n].size \in Nat \ {0}
         /\ Collects(n) <=> table[n].code \in {"Array", "Map"}
<1> QED  BY DEF BuildTypeOK, TypeTree, Collects

LEMMA PathsOfTable ==
  ASSUME BuildTypeOK
  PROVE  /\ <<>> \in DOMAIN table /\ DOMAIN table \subseteq Seq(Nat) /\ table[<<>>].code = "Tuple"
         /\ top \in DOMAIN table
         /\ \A n \in DOMAIN table : table[n].parts \in Nat /\ Len(n) \in Nat
         /\ \A n \in DOMAIN table : n # <<>> =>
              /\ Caller(n) \in DOMAIN table /\ n[Len(n)] \in 1 .. table[Caller(n)].parts
              /\ Len(Caller(n)) = Len(n) - 1 /\ n = Append(Caller(n), n[Len(n)])
         /\ \A n \in DOMAIN table : \A k \in 1 .. table[n].parts :
              /\ Append(n, k) \in DOMAIN table /\ Len(Append(n, k)) = Len(n) + 1
              /\ Append(n, k) # <<>> /\ Append(n, k) # n /\ Caller(Append(n, k)) = n
<1>1. TypeTree(table) /\ top \in DOMAIN table  BY DEF BuildTypeOK
<1> QED  BY <1>1, TreeFacts

LEMMA GivenFacts ==
  ASSUME BuildTypeOK, HandsOn
  PROVE  /\ Given \in PhpValues /\ frames[top].next \in 1 .. table[top].parts
         /\ frames[top].todo # <<>>
         /\ Callee \in DOMAIN table /\ Len(Callee) = Len(top) + 1
         /\ Callee # <<>> /\ Callee # top /\ Caller(Callee) = top
<1>1. top \in DOMAIN table  BY PathsOfTable
<1>2. /\ frames[top].todo \in Seq(PhpValues \X PhpValues) /\ frames[top].next \in Nat \ {0}
      /\ table[top].parts \in Nat
  BY <1>1, FrameFacts
<1>3. frames[top].next \in 1 .. table[top].parts /\ frames[top].todo # <<>>
  BY <1>2 DEF HandsOn
<1>4. Head(frames[top].todo) \in PhpValues \X PhpValues
  BY <1>2, <1>3, HeadTailProperties
<1>5. Given \in PhpValues  BY <1>4 DEF Given
<1>6. /\ Callee \in DOMAIN table /\ Len(Callee) = Len(top) + 1
      /\ Callee # <<>> /\ Callee # top /\ Caller(Callee) = top
  BY <1>1, <1>3, PathsOfTable DEF Callee
<1> QED  BY <1>3, <1>5, <1>6

LEMMA CallFacts ==
  ASSUME BuildTypeOK, NEW n \in DOMAIN table, NEW v \in PhpValues, NEW b \in DOMAIN table,
         table[n].code = "Nullable" \/ Kind(v) = "array"
  PROVE  /\ Call(n, v, b) \in Frame
         /\ Call(n, v, b).next = 1 /\ Call(n, v, b).into = b
         /\ table[n].code = "Nullable" => Len(Call(n, v, b).todo) = 1
<1> DEFINE E == PhpValues \X PhpValues
<1>1. Null \in PhpValues /\ Long(0) \in PhpValues  BY ValuesAssumption
<1>2. Entries(n, v) \in Seq(E) /\ (table[n].code = "Nullable" => Len(Entries(n, v)) = 1)
  <2>1. CASE table[n].code # "Nullable"
    <3>1. v[2] \in Seq(E)  BY <2>1, ValuesAssumption
    <3> QED  BY <2>1, <3>1 DEF Entries
  <2>2. CASE table[n].code = "Nullable"
    <3>1. PICK e \in E : Entries(n, v) = <<e>>  BY <2>2, <1>1 DEF Entries
    <3> HIDE DEF E
    <3>2. <<e>> \in Seq(E) /\ Len(<<e>>) = 1  OBVIOUS
    <3> QED  BY <3>1, <3>2
  <2> QED  BY <2>1, <2>2
<1> HIDE DEF E
<1>3. Call(n, v, b) = [value |-> v, into |-> b, todo |-> Entries(n, v), next |-> 1]
  BY DEF Call
<1> QED  BY <1>2, <1>3 DEF Frame, E

(* When a call returns, its caller's loop is one step on.                  *)
LEMMA ReturnedFacts ==
  ASSUME BuildTypeOK, NEW n \in DOMAIN table, frames[n].todo # <<>>,
         frames[n].next <= table[n].parts
  PROVE  /\ Returned(n) \in Frame
         /\ Returned(n).into = frames[n].into
         /\ Returned(n).next \in 1 .. table[n].parts + 1
         /\ ~Collects(n) => /\ Returned(n).next = frames[n].next + 1
                            /\ Len(Returned(n).todo) = Len(frames[n].todo) - 1
         /\ table[n].code = "Array" => frames[n].next = 1 /\ Returned(n).next = 1
         /\ table[n].code = "Map" =>
              \/ frames[n].next = 1 /\ Returned(n).next = 2 /\ Returned(n).todo = frames[n].todo
              \/ frames[n].next = 2 /\ Returned(n).next = 1
<1> DEFINE E == PhpValues \X PhpValues
           f == frames[n]
<1>1. /\ f \in Frame /\ f.todo \in Seq(E) /\ f.next \in Nat \ {0} /\ table[n].parts \in Nat
      /\ f.next \in 1 .. table[n].parts
  BY FrameFacts
<1>2. Tail(f.todo) \in Seq(E) /\ Len(Tail(f.todo)) = Len(f.todo) - 1
  BY <1>1, HeadTailProperties
<1>3. /\ table[n].code = "Array" => table[n].parts = 1
      /\ table[n].code = "Map" => table[n].parts = 2
  BY PartFacts
<1> HIDE DEF E
<1>4. CASE TakesKey(n)
  <2>1. table[n].code = "Map" /\ f.next = 1 /\ Collects(n)  BY <1>4 DEF TakesKey, Collects
  <2>2. Returned(n) = [f EXCEPT !.next = 2]  BY <1>4 DEF Returned
  <2> QED  BY <2>1, <2>2, <1>1, <1>3 DEF Frame, E
<1>5. CASE ~TakesKey(n)
  <2>1. Returned(n) = [f EXCEPT !.todo = Tail(f.todo),
                                !.next = IF Collects(n) THEN 1 ELSE f.next + 1]
    BY <1>5 DEF Returned
  <2>2. table[n].code = "Map" => f.next = 2  BY <1>5, <1>1, <1>3 DEF TakesKey
  <2>3. table[n].code = "Array" => f.next = 1  BY <1>1, <1>3
  <2>4. table[n].code \in {"Array", "Map"} <=> Collects(n)  BY DEF Collects
  <2> DEFINE x == IF Collects(n) THEN 1 ELSE f.next + 1
             u == Tail(f.todo)
             R == [f EXCEPT !.todo = u, !.next = x]
  <2>5. x \in Nat /\ x \in 1 .. table[n].parts + 1  BY <1>1
  <2>6. u \in Seq(E)  BY <1>2
  <2>7. (Collects(n) => x = 1) /\ (~Collects(n) => x = f.next + 1)  OBVIOUS
  <2> HIDE DEF x, u
  <2>8. R \in Frame /\ R.into = f.into /\ R.next = x /\ R.todo = u
    BY <2>5, <2>6, <1>1 DEF Frame, E
  <2>9. Returned(n) = R  BY <2>1 DEF u, x
  <2>10. Len(u) = Len(f.todo) - 1  BY <1>2 DEF u
  <2> HIDE DEF R, f
  <2> QED  BY ONLY <2>2, <2>3, <2>4, <2>5, <2>7, <2>8, <2>9, <2>10 DEF f
<1> QED  BY <1>4, <1>5

LEMMA BufferFacts ==
  ASSUME BuildTypeOK, CallsNest, RowLoop, NEW n \in DOMAIN table, UnderWay(n)
  PROVE  /\ Buffer(n) \in DOMAIN table /\ Len(Buffer(n)) <= Len(n)
         /\ Collects(n) => Buffer(n) = n
         /\ ~Collects(n) => Buffer(n) = frames[n].into
         /\ n # <<>> => Len(frames[n].into) < Len(n)
<1>1. frames[n].into \in DOMAIN table  BY FrameFacts
<1>2. n # <<>> => Len(frames[n].into) < Len(n)  BY DEF CallsNest
<1>3. n = <<>> => frames[n].into = n  BY DEF RowLoop
<1>4. Len(n) \in Nat /\ Len(frames[n].into) \in Nat  BY <1>1, PathsOfTable
<1> QED  BY <1>1, <1>2, <1>3, <1>4 DEF Buffer

(* The calls under way are those on the path to the running one.           *)
LEMMA UnderWayFacts ==
  ASSUME BuildTypeOK
  PROVE  /\ \A n : UnderWay(n) <=> LeadsTo(n, top)
         /\ UnderWay(top) /\ UnderWay(<<>>)
         /\ \A n \in DOMAIN table : UnderWay(n) => Len(n) <= Len(top)
         /\ \A n \in DOMAIN table : UnderWay(n) /\ n # top => Len(n) < Len(top)
         /\ \A n \in DOMAIN table : UnderWay(n) /\ n # <<>> =>
              UnderWay(Caller(n)) /\ Caller(n) # top
<1>1. \A n : UnderWay(n) <=> LeadsTo(n, top)  BY DEF UnderWay, LeadsTo
<1>2. top \in Seq(Nat) /\ DOMAIN table \subseteq Seq(Nat)  BY PathsOfTable
<1>3. UnderWay(top) /\ UnderWay(<<>>)  BY <1>1, <1>2, LeadsToFacts
<1>4. \A n \in DOMAIN table : UnderWay(n) => Len(n) <= Len(top)  BY DEF UnderWay
<1>5. ASSUME NEW n \in DOMAIN table
      PROVE  /\ UnderWay(n) /\ n # top => Len(n) < Len(top)
             /\ UnderWay(n) /\ n # <<>> => UnderWay(Caller(n)) /\ Caller(n) # top
  <2>1. n \in Seq(Nat)  BY <1>2
  <2> QED  BY <2>1, <1>1, <1>2, LeadsToFacts
<1> QED  BY <1>1, <1>3, <1>4, <1>5

-----------------------------------------------------------------------------
(* The calls stay nested                                                   *)

LEMMA CallerWaits ==
  ASSUME BuildTypeOK, CallsNest, top # <<>>, NEW p, p = Caller(top)
  PROVE  /\ p \in DOMAIN table /\ p # top /\ Len(p) = Len(top) - 1 /\ UnderWay(p)
         /\ frames[p].todo # <<>>
         /\ frames[p].next \in 1 .. table[p].parts /\ top = Append(p, frames[p].next)
         /\ frames[top].into = Buffer(p) /\ Len(frames[top].into) < Len(top)
<1>1. top \in DOMAIN table /\ UnderWay(top)  BY PathsOfTable, UnderWayFacts
<1>2. /\ p \in DOMAIN table /\ top[Len(top)] \in 1 .. table[p].parts
      /\ Len(p) = Len(top) - 1 /\ top = Append(p, top[Len(top)])
  BY <1>1, PathsOfTable
<1>3. UnderWay(p) /\ p # top  BY <1>1, UnderWayFacts
<1>4. frames[p].todo # <<>>  BY <1>2, <1>3 DEF CallsNest
<1>5. /\ top[Len(top)] = frames[p].next
      /\ frames[top].into = Buffer(p) /\ Len(frames[top].into) < Len(top)
  BY <1>1 DEF CallsNest
<1> QED  BY <1>2, <1>3, <1>4, <1>5

(* The step of loop q, the running one or the one that it returns to.      *)
LEMMA ReturnKeepsNesting ==
  ASSUME BuildTypeOK, CallsNest, table' = table, NEW q \in DOMAIN table, UnderWay(q),
         frames[q].todo # <<>>, frames[q].next <= table[q].parts,
         frames'[q] = Returned(q), q # top => frames'[top] = Idle,
         \A n \in DOMAIN table : n # q /\ n # top => frames'[n] = frames[n],
         top' = q,
         \A n \in DOMAIN table : UnderWay(n)' <=> UnderWay(n) /\ (q # top => n # top),
         \A n \in DOMAIN table : UnderWay(n)' /\ n # q => Len(n) < Len(q)
  PROVE  CallsNest'
<1>1. /\ \A n \in DOMAIN table : Len(n) \in Nat
      /\ \A n \in DOMAIN table : n # <<>> => Caller(n) \in DOMAIN table /\ Len(Caller(n)) = Len(n) - 1
      /\ top \in DOMAIN table
  BY PathsOfTable
<1>2. Len(q) <= Len(top)  BY UnderWayFacts
<1>3. /\ Returned(q).into = frames[q].into
      /\ ~Collects(q) => /\ Returned(q).next = frames[q].next + 1
                         /\ Len(Returned(q).todo) = Len(frames[q].todo) - 1
      /\ table[q].code = "Map" =>
           \/ frames[q].next = 1 /\ Returned(q).next = 2 /\ Returned(q).todo = frames[q].todo
           \/ frames[q].next = 2 /\ Returned(q).next = 1
  BY ReturnedFacts
<1>4. frames[q].next \in Nat /\ Len(frames[q].todo) \in Nat
  BY FrameFacts, LenProperties
<1>5. ASSUME NEW n \in DOMAIN table, UnderWay(n)', n # <<>>
      PROVE  /\ n[Len(n)] = frames'[Caller(n)].next /\ Len(frames'[n].into) < Len(n)
             /\ frames'[n].into = Buffer(Caller(n))'
  <2>1. UnderWay(n) /\ (q # top => n # top)  BY <1>5
  <2>2. Len(n) <= Len(q)  BY <1>5, <1>1
  <2> DEFINE m == Caller(n)
  <2>3. m \in DOMAIN table /\ m # q /\ m # top  BY <2>2, <1>1, <1>2, <1>5
  <2>4. frames'[m] = frames[m]  BY <2>3
  <2>5. /\ n[Len(n)] = frames[m].next /\ frames[n].into = Buffer(m)
        /\ Len(frames[n].into) < Len(n)
    BY <2>1, <1>5 DEF CallsNest
  <2>6. frames'[n].into = frames[n].into
    <3>1. CASE n = q  BY <3>1, <1>3
    <3>2. CASE n # q  BY <3>2, <2>1
    <3> QED  BY <3>1, <3>2
  <2> HIDE DEF m
  <2>7. Buffer(m)' = Buffer(m)  BY <2>4 DEF Buffer, Collects, m
  <2> QED  BY <2>4, <2>5, <2>6, <2>7 DEF m
<1>6. ASSUME NEW n \in DOMAIN table
      PROVE  /\ ~UnderWay(n)' => frames'[n].next = 1
             /\ UnderWay(n)' => table[n].code \in {"Nullable", "Array", "Tuple", "Map"}
             /\ UnderWay(n)' /\ n # top' => frames'[n].todo # <<>>
             /\ UnderWay(n)' /\ table[n].code = "Nullable" =>
                  frames'[n].next + Len(frames'[n].todo) = 2
             /\ table[n].code = "Map" /\ frames'[n].next = 2 => frames'[n].todo # <<>>
  <2>1. CASE n = q
    <3>1. UnderWay(n)'  BY <2>1
    <3>2. table[n].code = "Nullable" => frames'[n].next + Len(frames'[n].todo) = 2
      <4>1. table[n].code = "Nullable" => frames[n].next + Len(frames[n].todo) = 2
        BY <2>1 DEF CallsNest
      <4>2. table[n].code = "Nullable" => ~Collects(q)  BY <2>1 DEF Collects
      <4> QED  BY <4>1, <4>2, <2>1, <1>3, <1>4
    <3>3. table[n].code = "Map" /\ frames'[n].next = 2 => frames'[n].todo # <<>>
      BY <2>1, <1>3
    <3>4. table[n].code \in {"Nullable", "Array", "Tuple", "Map"}  BY <2>1 DEF CallsNest
    <3> QED  BY <2>1, <3>1, <3>2, <3>3, <3>4
  <2>2. CASE n # q /\ n = top
    <3>1. frames'[n].next = 1  BY <2>2 DEF Idle
    <3>2. ~UnderWay(n)'  BY <2>2
    <3> QED  BY <3>1, <3>2
  <2>3. CASE n # q /\ n # top
    <3>1. frames'[n] = frames[n] /\ (UnderWay(n)' <=> UnderWay(n))  BY <2>3
    <3> QED  BY <3>1, <2>3 DEF CallsNest
  <2> QED  BY <2>1, <2>2, <2>3
<1> QED  BY <1>5, <1>6 DEF CallsNest

LEMMA EnterKeepsNesting ==
  ASSUME BuildTypeOK, CallsNest, RowLoop, EnterColumn
  PROVE  CallsNest'
<1> DEFINE c == Callee
<1>1. /\ table' = table /\ HandsOn /\ top' = c
      /\ frames' = [frames EXCEPT ![c] = Call(c, Given, Buffer(top))]
      /\ table[c].code \notin Scalars /\ Accepts(c, Given)
  BY DEF EnterColumn
<1>2. /\ Given \in PhpValues /\ c \in DOMAIN table /\ Len(c) = Len(top) + 1
      /\ c # <<>> /\ c # top /\ Caller(c) = top /\ top \in DOMAIN table
      /\ frames[top].next \in Nat /\ frames[top].todo # <<>>
  BY <1>1, GivenFacts, PathsOfTable
<1>3. /\ Buffer(top) \in DOMAIN table /\ Len(Buffer(top)) <= Len(top)
  BY <1>2, BufferFacts, UnderWayFacts
<1>4. table[c].code = "Nullable" \/ Kind(Given) = "array"
  BY <1>1 DEF Accepts, Encodable
<1>5. /\ Call(c, Given, Buffer(top)).next = 1 /\ Call(c, Given, Buffer(top)).into = Buffer(top)
      /\ table[c].code = "Nullable" => Len(Call(c, Given, Buffer(top)).todo) = 1
  BY <1>2, <1>3, <1>4, CallFacts
<1>6. /\ frames'[c] = Call(c, Given, Buffer(top))
      /\ \A n \in DOMAIN table : n # c => frames'[n] = frames[n]
  BY <1>1, <1>2, FrameFacts
<1>7. DOMAIN table \subseteq Seq(Nat) /\ \A n \in DOMAIN table : Len(n) \in Nat
  BY PathsOfTable
<1>8. ASSUME NEW n \in DOMAIN table PROVE UnderWay(n)' <=> UnderWay(n) \/ n = c
  <2>1. LeadsTo(n, Append(top, frames[top].next)) <=>
          LeadsTo(n, top) \/ n = Append(top, frames[top].next)
    BY <1>2, <1>7, LeadsToPart
  <2>2. UnderWay(n)' <=> LeadsTo(n, c)  BY <1>1 DEF UnderWay, LeadsTo
  <2> QED  BY <2>1, <2>2, UnderWayFacts DEF Callee
<1>9. c[Len(c)] = frames[top].next
  <2>1. c = Append(top, frames[top].next)  BY DEF Callee
  <2> QED  BY <2>1, <1>2, <1>7, PartOfPath
<1>10. table[c].code \in {"Nullable", "Array", "Tuple", "Map"}
  BY <1>1 DEF Accepts, Encodable
<1> HIDE DEF c
<1>11. ASSUME NEW m \in DOMAIN table, m # c PROVE Buffer(m)' = Buffer(m)
  BY <1>1, <1>6, <1>11 DEF Buffer, Collects
<1>12. ASSUME NEW n \in DOMAIN table, UnderWay(n)', n # <<>>
       PROVE  /\ n[Len(n)] = frames'[Caller(n)].next /\ Len(frames'[n].into) < Len(n)
              /\ frames'[n].into = Buffer(Caller(n))'
  <2>1. CASE n = c
    <3>1. PICK m \in DOMAIN table : m = Caller(n) /\ m = top  BY <2>1, <1>2
    <3>2. Buffer(m)' = Buffer(m) /\ frames'[m] = frames[m]  BY <3>1, <1>2, <1>6, <1>11
    <3>3. frames'[n].into = Buffer(m)  BY <3>1, <2>1, <1>5, <1>6
    <3> QED  BY <3>1, <3>2, <3>3, <2>1, <1>2, <1>3, <1>7, <1>9
  <2>2. CASE n # c
    <3>1. UnderWay(n)  BY <2>2, <1>8, <1>12
    <3>2. PICK m \in DOMAIN table : m = Caller(n) /\ Len(m) = Len(n) - 1  BY <1>12, PathsOfTable
    <3>3. m # c
      <4>1. Len(n) <= Len(top)  BY <3>1, UnderWayFacts
      <4> QED  BY <4>1, <3>2, <1>2, <1>7
    <3>4. Buffer(m)' = Buffer(m) /\ frames'[m] = frames[m]  BY <3>3, <1>6, <1>11
    <3>5. /\ n[Len(n)] = frames[m].next /\ frames[n].into = Buffer(m)
          /\ Len(frames[n].into) < Len(n)
      BY <3>1, <3>2, <1>12 DEF CallsNest
    <3> QED  BY <3>2, <3>4, <3>5, <2>2, <1>6
  <2> QED  BY <2>1, <2>2
<1>13. ASSUME NEW n \in DOMAIN table
       PROVE  /\ ~UnderWay(n)' => frames'[n].next = 1
              /\ UnderWay(n)' => table[n].code \in {"Nullable", "Array", "Tuple", "Map"}
              /\ UnderWay(n)' /\ n # top' => frames'[n].todo # <<>>
              /\ UnderWay(n)' /\ table[n].code = "Nullable" =>
                   frames'[n].next + Len(frames'[n].todo) = 2
              /\ table[n].code = "Map" /\ frames'[n].next = 2 => frames'[n].todo # <<>>
  <2>1. CASE n = c
    <3>1. UnderWay(n)' /\ n = top'  BY <2>1, <1>1, <1>8
    <3>2. PICK f : f = Call(c, Given, Buffer(top))  OBVIOUS
    <3>3. f.next = 1 /\ (table[c].code = "Nullable" => Len(f.todo) = 1) /\ frames'[n] = f
      BY <3>2, <2>1, <1>5, <1>6
    <3>4. table[n].code = "Nullable" => frames'[n].next + Len(frames'[n].todo) = 2
      <4>1. ASSUME table[n].code = "Nullable" PROVE Len(f.todo) = 1  BY <4>1, <3>3, <2>1
      <4>2. f.next = 1 /\ frames'[n] = f  BY <3>3
      <4>3. ASSUME NEW a, NEW b, a = 1, b = 1 PROVE a + b = 2  BY <4>3
      <4>4. ASSUME table[n].code = "Nullable" PROVE f.next + Len(f.todo) = 2
        BY ONLY <4>1, <4>2, <4>3, <4>4
      <4> QED  BY <4>2, <4>4
    <3> QED  BY ONLY <3>1, <3>3, <3>4, <2>1, <1>10
  <2>2. CASE n # c
    <3>1. frames'[n] = frames[n] /\ (UnderWay(n)' <=> UnderWay(n))  BY <2>2, <1>6, <1>8
    <3>2. n = top => frames[n].todo # <<>>  BY <1>2
    <3> QED  BY <3>1, <3>2, <2>2 DEF CallsNest
  <2> QED  BY <2>1, <2>2
<1> QED  BY <1>1, <1>12, <1>13 DEF CallsNest

(* A row is begun or ended.                                                *)
LEMMA RowKeepsNesting ==
  ASSUME BuildTypeOK, CallsNest, table' = table, top = <<>>, top' = <<>>,
         \A n \in DOMAIN table : n # <<>> => frames'[n] = frames[n]
  PROVE  CallsNest'
<1>1. ASSUME NEW n \in DOMAIN table PROVE UnderWay(n)' <=> n = <<>>
  <2>1. UnderWay(n)' <=> UnderWay(n)  BY DEF UnderWay
  <2>2. UnderWay(<<>>) /\ (UnderWay(n) /\ n # <<>> => Len(n) < Len(<<>>))
    BY UnderWayFacts
  <2>3. Len(n) \in Nat /\ Len(<<>>) = 0  BY PathsOfTable, EmptySeq
  <2> QED  BY <2>1, <2>2, <2>3
<1>2. \A n \in DOMAIN table : UnderWay(n) <=> UnderWay(n)'  BY DEF UnderWay
<1>3. table[<<>>].code = "Tuple"  BY PathsOfTable
<1>4. ASSUME NEW n \in DOMAIN table, n # <<>>
      PROVE  /\ frames'[n].next = 1
             /\ table[n].code = "Map" /\ frames'[n].next = 2 => frames'[n].todo # <<>>
  BY <1>1, <1>2, <1>4 DEF CallsNest
<1> QED  BY <1>1, <1>3, <1>4 DEF CallsNest

-----------------------------------------------------------------------------
(* What a step does to the columns                                         *)

LEMMA ColumnFacts ==
  ASSUME BuildTypeOK
  PROVE  /\ DOMAIN cols = DOMAIN table
         /\ \A b \in DOMAIN table : DOMAIN cols[b] = DOMAIN table
         /\ \A b, n \in DOMAIN table :
              Holds(table[n], cols[b][n]) /\ IsList(cols[b][n]) /\ Len(cols[b][n]) \in Nat
<1>1. /\ DOMAIN cols = DOMAIN table
      /\ \A b \in DOMAIN table : DOMAIN cols[b] = DOMAIN table
      /\ \A b, n \in DOMAIN table :
           IsList(cols[b][n]) /\ \A k \in DOMAIN cols[b][n] : Fits(table[n], cols[b][n][k])
  BY DEF BuildTypeOK
<1>2. \A b, n \in DOMAIN table : Holds(table[n], cols[b][n])  BY <1>1 DEF Holds
<1>3. \A b, n \in DOMAIN table : Len(cols[b][n]) \in Nat  BY <1>1, ListFacts
<1> QED  BY <1>1, <1>2, <1>3

LEMMA AppendToColumn ==
  ASSUME BuildTypeOK, NEW b0 \in DOMAIN table, NEW c \in DOMAIN table, NEW e,
         Fits(table[c], e), cols' = [cols EXCEPT ![b0][c] = Append(@, e)]
  PROVE  /\ DOMAIN cols' = DOMAIN table
         /\ \A b \in DOMAIN table : DOMAIN cols'[b] = DOMAIN table
         /\ \A b, n \in DOMAIN table : Holds(table[n], cols'[b][n])
         /\ \A b, n \in DOMAIN table : b # b0 \/ n # c => cols'[b][n] = cols[b][n]
         /\ Len(cols'[b0][c]) = Len(cols[b0][c]) + 1
<1>1. /\ DOMAIN cols = DOMAIN table
      /\ \A b \in DOMAIN table : DOMAIN cols[b] = DOMAIN table
      /\ \A b, n \in DOMAIN table : Holds(table[n], cols[b][n])
  BY ColumnFacts
<1>2. /\ DOMAIN cols' = DOMAIN table
      /\ \A b \in DOMAIN table : DOMAIN cols'[b] = DOMAIN table
      /\ \A b, n \in DOMAIN table : b # b0 \/ n # c => cols'[b][n] = cols[b][n]
      /\ cols'[b0][c] = Append(cols[b0][c], e)
  BY <1>1
<1>3. Holds(table[c], cols'[b0][c]) /\ Len(cols'[b0][c]) = Len(cols[b0][c]) + 1
  BY <1>1, <1>2, AppendHolds
<1> QED  BY <1>1, <1>2, <1>3

LEMMA HoldsOffsets ==
  ASSUME BuildTypeOK, NEW n \in DOMAIN table, Collects(n), NEW s, IsOffsets(s)
  PROVE  Holds(table[n], s)
<1>1. table[n].code \notin {"Int", "UInt", "DateTime", "UUID"}  BY DEF Collects
<1>2. \A e : Fits(table[n], e)  BY <1>1 DEF Fits
<1> QED  BY <1>2, OffsetFacts DEF Holds

LEMMA JoinedColumn ==
  ASSUME BuildTypeOK, PartsInStep,
         NEW b0 \in DOMAIN table, NEW c \in DOMAIN table, NEW n \in DOMAIN table
  PROVE  LET s == Joined(cols[b0], cols[c])[n]
         IN /\ Holds(table[n], s) /\ Len(s) = Len(cols[b0][n]) + Len(cols[c][n])
            /\ Collects(n) => /\ IsOffsets(s)
                              /\ EndOf(s) = EndOf(cols[b0][n]) + EndOf(cols[c][n])
<1> DEFINE u == cols[b0][n]
           w == cols[c][n]
           s == Joined(cols[b0], cols[c])[n]
<1>1. DOMAIN cols[b0] = DOMAIN table /\ Holds(table[n], u) /\ Holds(table[n], w)
  BY ColumnFacts
<1>2. s = IF Collects(n) THEN u \o [k \in DOMAIN w |-> EndOf(u) + w[k]] ELSE u \o w
  BY <1>1 DEF Joined
<1>3. Collects(n) => IsOffsets(u) /\ IsOffsets(w)  BY DEF PartsInStep, InStep
<1> HIDE DEF u, w, s
<1>4. CASE Collects(n)
  <2>1. IsOffsets(s) /\ EndOf(s) = EndOf(u) + EndOf(w) /\ Len(s) = Len(u) + Len(w)
    BY <1>2, <1>3, <1>4, ConcatOffsets
  <2> QED  BY <1>3, <1>4, <2>1, HoldsOffsets DEF u, w, s
<1>5. CASE ~Collects(n)  BY <1>1, <1>2, <1>5, ConcatHolds DEF u, w, s
<1> QED  BY <1>4, <1>5

JoinedTo(b0, c) ==
  [cols EXCEPT ![b0] = AsOneRow(c, @, cols[c]), ![c] = EmptyColumns(table)]

LEMMA JoinColumns ==
  ASSUME BuildTypeOK, PartsInStep,
         NEW b0 \in DOMAIN table, NEW c \in DOMAIN table, b0 # c, Collects(c),
         cols' = JoinedTo(b0, c)
  PROVE  /\ DOMAIN cols' = DOMAIN table
         /\ \A b \in DOMAIN table : DOMAIN cols'[b] = DOMAIN table
         /\ \A b, n \in DOMAIN table : Holds(table[n], cols'[b][n])
         /\ \A b \in DOMAIN table : b # b0 /\ b # c => cols'[b] = cols[b]
         /\ \A n \in DOMAIN table : cols'[c][n] = <<>>
         /\ \A n \in DOMAIN table : n # c =>
              /\ Len(cols'[b0][n]) = Len(cols[b0][n]) + Len(cols[c][n])
              /\ Collects(n) => /\ IsOffsets(cols'[b0][n])
                                /\ EndOf(cols'[b0][n]) = EndOf(cols[b0][n]) + EndOf(cols[c][n])
         /\ Len(cols'[b0][c]) = Len(cols[b0][c]) + 1 /\ IsOffsets(cols'[b0][c])
         /\ EndOf(cols'[b0][c]) = EndOf(cols[b0][c]) + Len(cols[c][Append(c, 1)])
<1> DEFINE new == AsOneRow(c, cols[b0], cols[c])
           d == Len(cols[c][Append(c, 1)])
<1>1. /\ DOMAIN cols = DOMAIN table
      /\ \A b \in DOMAIN table : DOMAIN cols[b] = DOMAIN table
      /\ \A b, n \in DOMAIN table : Holds(table[n], cols[b][n]) /\ Len(cols[b][n]) \in Nat
  BY ColumnFacts
<1>2. cols'[b0] = new /\ cols'[c] = EmptyColumns(table)
  <2> HIDE DEF new
  <2>1. cols' = [cols EXCEPT ![b0] = new, ![c] = EmptyColumns(table)]  BY DEF new, JoinedTo
  <2> QED  BY <2>1, <1>1
<1>3. DOMAIN cols' = DOMAIN table /\ \A b \in DOMAIN table : b # b0 /\ b # c => cols'[b] = cols[b]
  BY <1>1 DEF JoinedTo
<1>4. DOMAIN cols'[c] = DOMAIN table /\ \A n \in DOMAIN table : cols'[c][n] = <<>>
  BY <1>2 DEF EmptyColumns
<1>5. /\ DOMAIN cols'[b0] = DOMAIN table
      /\ \A n \in DOMAIN table : n # c => cols'[b0][n] = Joined(cols[b0], cols[c])[n]
      /\ cols'[b0][c] = Append(cols[b0][c], EndOf(cols[b0][c]) + d)
  <2>1. DOMAIN Joined(cols[b0], cols[c]) = DOMAIN table  BY <1>1 DEF Joined
  <2>2. new = [Joined(cols[b0], cols[c]) EXCEPT ![c] = Append(cols[b0][c], EndOf(cols[b0][c]) + d)]
    BY DEF AsOneRow
  <2> HIDE DEF new, d
  <2> QED  BY <2>1, <2>2, <1>2
<1>6. ASSUME NEW n \in DOMAIN table, n # c
      PROVE  /\ Holds(table[n], cols'[b0][n])
             /\ Len(cols'[b0][n]) = Len(cols[b0][n]) + Len(cols[c][n])
             /\ Collects(n) => /\ IsOffsets(cols'[b0][n])
                               /\ EndOf(cols'[b0][n]) = EndOf(cols[b0][n]) + EndOf(cols[c][n])
  <2> DEFINE s == Joined(cols[b0], cols[c])[n]
  <2>1. /\ Holds(table[n], s) /\ Len(s) = Len(cols[b0][n]) + Len(cols[c][n])
        /\ Collects(n) => /\ IsOffsets(s)
                          /\ EndOf(s) = EndOf(cols[b0][n]) + EndOf(cols[c][n])
    BY JoinedColumn
  <2>2. s = cols'[b0][n]  BY <1>5, <1>6
  <2> HIDE DEF s
  <2> QED  BY <2>1, <2>2
<1>7. /\ Holds(table[c], cols'[b0][c]) /\ IsOffsets(cols'[b0][c])
      /\ EndOf(cols'[b0][c]) = EndOf(cols[b0][c]) + d
      /\ Len(cols'[b0][c]) = Len(cols[b0][c]) + 1
  <2>1. IsOffsets(cols[b0][c])  BY DEF PartsInStep, InStep
  <2>2. d \in Nat
    <3>1. Append(c, 1) \in DOMAIN table
      <4>1. 1 \in 1 .. table[c].parts  BY PartFacts DEF Collects
      <4> QED  BY <4>1, PathsOfTable
    <3> QED  BY <3>1, <1>1
  <2> HIDE DEF d, new
  <2>3. IsOffsets(cols'[b0][c]) /\ EndOf(cols'[b0][c]) = EndOf(cols[b0][c]) + d
    BY <2>1, <2>2, <1>5, AppendOffset
  <2>4. Len(cols'[b0][c]) = Len(cols[b0][c]) + 1
    BY <2>1, <1>5, OffsetFacts, AppendList
  <2> QED  BY <2>3, <2>4, HoldsOffsets
<1>8. ASSUME NEW b \in DOMAIN table, NEW n \in DOMAIN table
      PROVE  Holds(table[n], cols'[b][n])
  <2>1. CASE b = b0
    <3>1. Holds(table[n], cols'[b0][n])
      <4>1. CASE n = c  BY <4>1, <1>7
      <4>2. CASE n # c  BY <4>2, <1>6
      <4> QED  BY <4>1, <4>2
    <3> QED  BY <3>1, <2>1
  <2>2. CASE b = c
    <3>1. cols'[b][n] = <<>>  BY <2>2, <1>4
    <3> QED  BY <3>1, EmptyHolds
  <2>3. CASE b # b0 /\ b # c
    <3>1. cols'[b] = cols[b]  BY <2>3, <1>3
    <3> QED  BY <3>1, <1>1
  <2> QED  BY <2>1, <2>2, <2>3
<1>9. \A b \in DOMAIN table : DOMAIN cols'[b] = DOMAIN table
  BY <1>1, <1>3, <1>4, <1>5
<1> HIDE DEF new
<1> QED  BY <1>3, <1>4, <1>6, <1>7, <1>8, <1>9

-----------------------------------------------------------------------------
(* The parts stay in step                                                  *)

LEMMA AheadIsZero ==
  ASSUME NEW b, NEW n, NEW k \in Nat \ {0}
  PROVE  /\ frames[n].next = 1 => Ahead(b, n, k) = 0
         /\ frames[n].into # b => Ahead(b, n, k) = 0
<1> QED  BY DEF Ahead

(* A temporary is not the buffer of a column above.                        *)
LEMMA NotAheadAbove ==
  ASSUME BuildTypeOK, CallsNest, RowLoop, NEW b \in DOMAIN table, b # <<>>,
         Len(top) <= Len(b), NEW n \in DOMAIN table, NEW k \in Nat \ {0}
  PROVE  Ahead(b, n, k) = 0
<1>1. Len(n) \in Nat /\ Len(b) \in Nat /\ Len(top) \in Nat /\ Len(frames[n].into) \in Nat
  BY PathsOfTable, FrameFacts
<1>2. CASE n = <<>>
  <2>1. frames[n].into = <<>>  BY <1>2 DEF RowLoop
  <2> QED  BY <2>1, AheadIsZero
<1>3. CASE n # <<>> /\ UnderWay(n)
  <2>1. Len(frames[n].into) < Len(n) /\ Len(n) <= Len(top)  BY <1>3, UnderWayFacts DEF CallsNest
  <2>2. frames[n].into # b  BY <2>1, <1>1
  <2> QED  BY <2>2, AheadIsZero
<1>4. CASE ~UnderWay(n)
  <2>1. frames[n].next = 1  BY <1>4 DEF CallsNest
  <2> QED  BY <2>1, AheadIsZero
<1> QED  BY <1>2, <1>3, <1>4

LEMMA InStepWithoutParts ==
  ASSUME BuildTypeOK, NEW b \in DOMAIN table, NEW n \in DOMAIN table,
         table[n].code \notin {"Nullable", "Array", "Tuple", "Map"}
  PROVE  InStep(b, n)
<1> QED  BY DEF InStep, Collects

LEMMA InStepUntouched ==
  ASSUME BuildTypeOK, table' = table, NEW b \in DOMAIN table, NEW n \in DOMAIN table,
         InStep(b, n), Len(cols'[b][n]) = Len(cols[b][n]),
         Collects(n) => IsOffsets(cols'[b][n]) /\ EndOf(cols'[b][n]) = EndOf(cols[b][n]),
         \A k \in 1 .. table[n].parts :
           /\ Len(cols'[b][Append(n, k)]) = Len(cols[b][Append(n, k)])
           /\ Ahead(b, n, k)' = Ahead(b, n, k),
         frames'[n].next = 2 <=> frames[n].next = 2
  PROVE  InStep(b, n)'
<1>1. /\ table[n].code = "Map" => table[n].parts = 2
      /\ Collects(n) <=> table[n].code \in {"Array", "Map"}
  BY PartFacts
<1>2. Collects(n)' <=> Collects(n)  BY DEF Collects
<1>3. ASSUME table[n].code \in {"Nullable", "Tuple"}, NEW k \in 1 .. table[n].parts
      PROVE  Len(cols'[b][Append(n, k)]) = Len(cols'[b][n]) + Ahead(b, n, k)'
  BY <1>3 DEF InStep
<1>4. ASSUME Collects(n), n # b, NEW k \in 1 .. table[n].parts
      PROVE  Len(cols'[b][Append(n, k)]) = EndOf(cols'[b][n])
  BY <1>4 DEF InStep
<1>5. ASSUME table[n].code = "Map", n = b
      PROVE  Len(cols'[b][Append(n, 1)]) =
               Len(cols'[b][Append(n, 2)]) + IF frames'[n].next = 2 THEN 1 ELSE 0
  <2>1. 1 \in 1 .. table[n].parts /\ 2 \in 1 .. table[n].parts  BY <1>1, <1>5
  <2>2. Len(cols[b][Append(n, 1)]) =
          Len(cols[b][Append(n, 2)]) + IF frames[n].next = 2 THEN 1 ELSE 0
    BY <1>5 DEF InStep
  <2> QED  BY <2>1, <2>2
<1> QED  BY <1>2, <1>3, <1>4, <1>5 DEF InStep

(* The loop that a call returns to: its part has the row that it lacked.   *)
LEMMA InStepAfterReturn ==
  ASSUME BuildTypeOK, table' = table, NEW b \in DOMAIN table, NEW p \in DOMAIN table,
         InStep(b, p), frames[p].todo # <<>>, frames[p].next <= table[p].parts,
         frames'[p] = Returned(p), Len(cols'[b][p]) = Len(cols[b][p]),
         Collects(p) => IsOffsets(cols'[b][p]) /\ EndOf(cols'[b][p]) = EndOf(cols[b][p]),
         \A k \in 1 .. table[p].parts :
           Len(cols'[b][Append(p, k)]) = Len(cols[b][Append(p, k)]) +
             IF b = Buffer(p) /\ k = frames[p].next THEN 1 ELSE 0
  PROVE  InStep(b, p)'
<1> DEFINE x == frames[p].next
<1>1. /\ table[p].code = "Map" => table[p].parts = 2
      /\ table[p].code = "Array" => table[p].parts = 1
      /\ Collects(p) <=> table[p].code \in {"Array", "Map"}
  BY PartFacts
<1>2. Collects(p)' <=> Collects(p)  BY DEF Collects
<1>3. /\ Returned(p).into = frames[p].into
      /\ ~Collects(p) => Returned(p).next = x + 1
      /\ table[p].code = "Map" =>
           \/ x = 1 /\ Returned(p).next = 2
           \/ x = 2 /\ Returned(p).next = 1
  <2>1. /\ Returned(p).into = frames[p].into
        /\ ~Collects(p) => Returned(p).next = frames[p].next + 1
    BY ReturnedFacts
  <2>2. table[p].code = "Map" =>
           \/ frames[p].next = 1 /\ Returned(p).next = 2
           \/ frames[p].next = 2 /\ Returned(p).next = 1
    BY ReturnedFacts
  <2> QED  BY <2>1, <2>2
<1>4. x \in Nat /\ table[p].parts \in Nat  BY FrameFacts
<1>5. /\ Len(cols[b][p]) \in Nat
      /\ \A k \in 1 .. table[p].parts : Len(cols[b][Append(p, k)]) \in Nat
  BY ColumnFacts, PathsOfTable
<1>6. ASSUME table[p].code \in {"Nullable", "Tuple"}, NEW k \in 1 .. table[p].parts
      PROVE  Len(cols'[b][Append(p, k)]) = Len(cols'[b][p]) + Ahead(b, p, k)'
  <2>1. ~Collects(p)  BY <1>1, <1>6
  <2>2. Buffer(p) = frames[p].into  BY <2>1 DEF Buffer
  <2>3. Len(cols[b][Append(p, k)]) = Len(cols[b][p]) + Ahead(b, p, k)  BY <1>6 DEF InStep
  <2>4. Ahead(b, p, k) = IF frames[p].into = b /\ k < x THEN 1 ELSE 0  BY DEF Ahead
  <2>5. Ahead(b, p, k)' = IF frames[p].into = b /\ k < x + 1 THEN 1 ELSE 0
    BY <2>1, <1>3 DEF Ahead
  <2>6. Len(cols'[b][Append(p, k)]) = Len(cols[b][Append(p, k)]) +
          IF frames[p].into = b /\ k = x THEN 1 ELSE 0
    BY <2>2
  <2>7. k \in Nat  BY <1>4
  <2>8. Len(cols[b][Append(p, k)]) \in Nat /\ Len(cols'[b][p]) \in Nat  BY <1>5
  <2>9. Len(cols[b][Append(p, k)]) = Len(cols'[b][p]) + Ahead(b, p, k)  BY <2>3
  <2> HIDE DEF x
  <2>10. CASE frames[p].into = b /\ k < x
    <3>1. Ahead(b, p, k) = 1  BY ONLY <2>4, <2>10
    <3>2. k < x + 1  BY ONLY <2>7, <1>4, <2>10
    <3>3. Ahead(b, p, k)' = 1  BY ONLY <2>5, <3>2, <2>10
    <3>4. k # x  BY ONLY <2>7, <1>4, <2>10
    <3>5. Len(cols'[b][Append(p, k)]) = Len(cols[b][Append(p, k)])  BY ONLY <2>6, <3>4, <2>8
    <3> QED  BY ONLY <3>1, <3>3, <3>5, <2>8, <2>9
  <2>11. CASE frames[p].into = b /\ k = x
    <3>1. Ahead(b, p, k) = 0  BY ONLY <2>4, <2>11, <2>7, <1>4
    <3>2. Ahead(b, p, k)' = 1  BY ONLY <2>5, <2>11, <2>7, <1>4
    <3>3. Len(cols'[b][Append(p, k)]) = Len(cols[b][Append(p, k)]) + 1  BY ONLY <2>6, <2>11
    <3> QED  BY ONLY <3>1, <3>2, <3>3, <2>8, <2>9
  <2>12. CASE ~(frames[p].into = b /\ k < x) /\ ~(frames[p].into = b /\ k = x)
    <3>1. Ahead(b, p, k) = 0  BY ONLY <2>4, <2>12
    <3>2. ~(frames[p].into = b /\ k < x + 1)  BY ONLY <2>12, <2>7, <1>4
    <3>3. Ahead(b, p, k)' = 0  BY ONLY <2>5, <3>2
    <3>4. Len(cols'[b][Append(p, k)]) = Len(cols[b][Append(p, k)]) + 0
      <4>1. (IF frames[p].into = b /\ k = x THEN 1 ELSE 0) = 0  BY ONLY <2>12
      <4> QED  BY ONLY <2>6, <4>1
    <3> QED  BY ONLY <3>1, <3>3, <3>4, <2>8, <2>9
  <2> QED  BY ONLY <2>10, <2>11, <2>12
<1>7. ASSUME Collects(p), p # b, NEW k \in 1 .. table[p].parts
      PROVE  Len(cols'[b][Append(p, k)]) = EndOf(cols'[b][p])
  <2>1. Buffer(p) # b  BY <1>7 DEF Buffer
  <2>2. Len(cols'[b][Append(p, k)]) = Len(cols[b][Append(p, k)])
    <3>1. Len(cols[b][Append(p, k)]) \in Nat  BY <1>5
    <3>2. ASSUME NEW l \in Nat PROVE l + 0 = l  BY <3>2
    <3>3. Len(cols'[b][Append(p, k)]) = Len(cols[b][Append(p, k)]) + 0  BY <2>1
    <3> QED  BY ONLY <3>1, <3>2, <3>3
  <2> QED  BY <2>2, <1>7 DEF InStep
<1>8. ASSUME table[p].code = "Map", p = b
      PROVE  Len(cols'[b][Append(p, 1)]) =
               Len(cols'[b][Append(p, 2)]) + IF frames'[p].next = 2 THEN 1 ELSE 0
  <2>1. 1 \in 1 .. table[p].parts /\ 2 \in 1 .. table[p].parts  BY <1>1, <1>8
  <2>2. Len(cols[b][Append(p, 1)]) = Len(cols[b][Append(p, 2)]) + IF x = 2 THEN 1 ELSE 0
    BY <1>8 DEF InStep
  <2>3. Buffer(p) = b  BY <1>1, <1>8 DEF Buffer
  <2>4. /\ Len(cols'[b][Append(p, 1)]) = Len(cols[b][Append(p, 1)]) + IF x = 1 THEN 1 ELSE 0
        /\ Len(cols'[b][Append(p, 2)]) = Len(cols[b][Append(p, 2)]) + IF x = 2 THEN 1 ELSE 0
    BY <2>1, <2>3
  <2>5. \/ x = 1 /\ frames'[p].next = 2
        \/ x = 2 /\ frames'[p].next = 1
    BY <1>3, <1>8
  <2>6. Len(cols[b][Append(p, 1)]) \in Nat /\ Len(cols[b][Append(p, 2)]) \in Nat
    BY <2>1, <1>5
  <2> HIDE DEF x
  <2> QED  BY <2>2, <2>4, <2>5, <2>6
<1> QED  BY <1>2, <1>6, <1>7, <1>8 DEF InStep

-----------------------------------------------------------------------------
(* The steps                                                               *)

LEMMA TypeKept ==
  ASSUME BuildTypeOK, table' = table, rows' = rows, i' \in Nat \ {0},
         top' \in DOMAIN table, phase' \in {"rows", "cells", "sent", "failed"},
         frames' \in [DOMAIN table -> Frame],
         \A n \in DOMAIN table : frames'[n].next \in 1 .. table[n].parts + 1,
         DOMAIN cols' = DOMAIN table,
         \A b \in DOMAIN table : DOMAIN cols'[b] = DOMAIN table,
         \A b, n \in DOMAIN table : Holds(table[n], cols'[b][n])
  PROVE  BuildTypeOK'
<1>1. TypeTree(table) /\ rows \in Seq(PhpValues)  BY DEF BuildTypeOK
<1>2. \A b, n \in DOMAIN table :
        IsList(cols'[b][n]) /\ \A k \in DOMAIN cols'[b][n] : Fits(table[n], cols'[b][n][k])
  BY DEF Holds
<1> QED  BY <1>1, <1>2 DEF BuildTypeOK, Frame

LEMMA SameColumns ==
  ASSUME BuildTypeOK, cols' = cols
  PROVE  /\ DOMAIN cols' = DOMAIN table
         /\ \A b \in DOMAIN table : DOMAIN cols'[b] = DOMAIN table
         /\ \A b, n \in DOMAIN table : Holds(table[n], cols'[b][n])
<1> QED  BY ColumnFacts

LEMMA FramesWith ==
  ASSUME BuildTypeOK, NEW c \in DOMAIN table, NEW f \in Frame,
         f.next \in 1 .. table[c].parts + 1, frames' = [frames EXCEPT ![c] = f]
  PROVE  /\ frames' \in [DOMAIN table -> Frame]
         /\ \A n \in DOMAIN table : frames'[n].next \in 1 .. table[n].parts + 1
         /\ frames'[c] = f
         /\ \A n \in DOMAIN table : n # c => frames'[n] = frames[n]
<1>1. frames \in [DOMAIN table -> Frame]  BY DEF BuildTypeOK, Frame
<1>2. \A n \in DOMAIN table : frames[n].next \in 1 .. table[n].parts + 1  BY FrameFacts
<1> QED  BY <1>1, <1>2

LEMMA IdleFacts ==
  ASSUME BuildTypeOK
  PROVE  /\ Idle \in Frame /\ Idle.next = 1 /\ Idle.into = <<>>
         /\ \A n \in DOMAIN table : Idle.next \in 1 .. table[n].parts + 1
<1>1. Null \in PhpValues /\ <<>> \in DOMAIN table  BY ValuesAssumption, PathsOfTable
<1>2. \A n \in DOMAIN table : table[n].parts \in Nat  BY PathsOfTable
<1>3. <<>> \in Seq(PhpValues \X PhpValues)  BY EmptySeq
<1> QED  BY <1>1, <1>2, <1>3 DEF Idle, Frame

(* The frames change, the columns do not, and no part is further ahead.    *)
LEMMA InStepSameColumns ==
  ASSUME BuildTypeOK, PartsInStep, table' = table, cols' = cols,
         NEW c \in DOMAIN table, frames[c].next = 1, frames'[c].next = 1,
         \A n \in DOMAIN table : n # c => frames'[n] = frames[n]
  PROVE  PartsInStep'
<1>1. ASSUME NEW b \in DOMAIN table, NEW n \in DOMAIN table PROVE InStep(b, n)'
  <2>1. InStep(b, n)  BY DEF PartsInStep
  <2>2. table[n].parts \in Nat  BY PathsOfTable
  <2>3. \A k \in 1 .. table[n].parts : Ahead(b, n, k)' = Ahead(b, n, k)
    <3>1. CASE n = c  BY <3>1, <2>2 DEF Ahead
    <3>2. CASE n # c  BY <3>2 DEF Ahead
    <3> QED  BY <3>1, <3>2
  <2>4. frames'[n].next = 2 <=> frames[n].next = 2
    <3>1. CASE n = c  BY <3>1
    <3>2. CASE n # c  BY <3>2
    <3> QED  BY <3>1, <3>2
  <2>5. Collects(n) => IsOffsets(cols[b][n])  BY <2>1 DEF InStep
  <2> QED  BY <2>1, <2>3, <2>4, <2>5, InStepUntouched
<1> QED  BY <1>1 DEF PartsInStep

LEMMA TakeRowKeepsInv == ASSUME BuildInv, TakeRow PROVE BuildInv'
<1>1. BuildTypeOK /\ CallsNest /\ RowLoop /\ OnlyBelow /\ PartsInStep  BY DEF BuildInv
<1> DEFINE f == Call(<<>>, rows[i], <<>>)
<1>2. /\ phase = "rows" /\ i <= Len(rows) /\ Kind(rows[i]) = "array" /\ phase' = "cells"
      /\ frames' = [frames EXCEPT ![<<>>] = f]
      /\ table' = table /\ rows' = rows /\ i' = i /\ top' = top /\ cols' = cols
  BY DEF TakeRow
<1>3. top = <<>> /\ <<>> \in DOMAIN table /\ frames[<<>>].next = 1 /\ frames[<<>>].into = <<>>
  BY <1>1, <1>2, PathsOfTable DEF RowLoop
<1>4. i \in Nat \ {0} /\ rows \in Seq(PhpValues)  BY <1>1 DEF BuildTypeOK
<1>5. rows[i] \in PhpValues
  <2>1. i \in 1 .. Len(rows)  BY <1>2, <1>4, LenProperties
  <2> QED  BY <2>1, <1>4, ElementOfSeq
<1>6. f \in Frame /\ f.next = 1 /\ f.into = <<>>
  BY <1>1, <1>2, <1>3, <1>5, CallFacts
<1>7. table[<<>>].parts \in Nat  BY <1>1, PathsOfTable
<1> HIDE DEF f
<1>8. /\ frames' \in [DOMAIN table -> Frame]
      /\ \A n \in DOMAIN table : frames'[n].next \in 1 .. table[n].parts + 1
      /\ frames'[<<>>] = f
      /\ \A n \in DOMAIN table : n # <<>> => frames'[n] = frames[n]
  <2>1. f.next \in 1 .. table[<<>>].parts + 1  BY <1>6, <1>7
  <2> QED  BY <2>1, <1>1, <1>2, <1>3, <1>6, FramesWith
<1>9. BuildTypeOK'  BY <1>1, <1>2, <1>3, <1>4, <1>8, TypeKept, SameColumns
<1>10. CallsNest'  BY <1>1, <1>2, <1>3, <1>8, RowKeepsNesting
<1>11. RowLoop'  BY <1>1, <1>2, <1>3, <1>6, <1>8 DEF RowLoop
<1>12. OnlyBelow'  BY <1>1, <1>2 DEF OnlyBelow
<1>13. PartsInStep'  BY <1>1, <1>2, <1>3, <1>6, <1>8, InStepSameColumns
<1> QED  BY <1>9, <1>10, <1>11, <1>12, <1>13 DEF BuildInv

LEMMA EnterColumnKeepsInv == ASSUME BuildInv, EnterColumn PROVE BuildInv'
<1>1. BuildTypeOK /\ CallsNest /\ RowLoop /\ OnlyBelow /\ PartsInStep  BY DEF BuildInv
<1> DEFINE f == Call(Callee, Given, Buffer(top))
<1>2. /\ phase = "cells" /\ HandsOn /\ table[Callee].code \notin Scalars
      /\ Accepts(Callee, Given) /\ top' = Callee
      /\ frames' = [frames EXCEPT ![Callee] = f]
      /\ table' = table /\ rows' = rows /\ i' = i /\ phase' = phase /\ cols' = cols
  BY DEF EnterColumn
<1>3. PICK c : c = Callee  OBVIOUS
<1>4. /\ Given \in PhpValues /\ c \in DOMAIN table /\ Len(c) = Len(top) + 1
      /\ c # <<>> /\ top \in DOMAIN table /\ Len(top) \in Nat /\ table[c].parts \in Nat
  BY <1>1, <1>2, <1>3, GivenFacts, PathsOfTable
<1>5. Buffer(top) \in DOMAIN table  BY <1>1, <1>4, BufferFacts, UnderWayFacts
<1>6. table[c].code = "Nullable" \/ Kind(Given) = "array"
  BY <1>2, <1>3 DEF Accepts, Encodable
<1>7. f \in Frame /\ f.next = 1 /\ f.into = Buffer(top)
  BY <1>1, <1>3, <1>4, <1>5, <1>6, CallFacts
<1>8. frames[c].next = 1
  <2>1. ~UnderWay(c)  BY <1>1, <1>4, UnderWayFacts
  <2> QED  BY <2>1, <1>1, <1>4 DEF CallsNest
<1> HIDE DEF f
<1>9. /\ frames' \in [DOMAIN table -> Frame]
      /\ \A n \in DOMAIN table : frames'[n].next \in 1 .. table[n].parts + 1
      /\ frames'[c] = f
      /\ \A n \in DOMAIN table : n # c => frames'[n] = frames[n]
  <2>1. f.next \in 1 .. table[c].parts + 1  BY <1>4, <1>7
  <2> QED  BY <2>1, <1>1, <1>2, <1>3, <1>4, <1>7, FramesWith
<1>10. BuildTypeOK'
  <2>1. i \in Nat \ {0}  BY <1>1 DEF BuildTypeOK
  <2> QED  BY <2>1, <1>1, <1>2, <1>3, <1>4, <1>9, TypeKept, SameColumns
<1>11. CallsNest'  BY <1>1, EnterKeepsNesting
<1>12. RowLoop'
  <2>1. <<>> \in DOMAIN table  BY <1>1, PathsOfTable
  <2>2. frames'[<<>>] = frames[<<>>]  BY <2>1, <1>4, <1>9
  <2> QED  BY <2>2, <1>1, <1>2 DEF RowLoop
<1>13. OnlyBelow'  BY <1>1, <1>2 DEF OnlyBelow
<1>14. PartsInStep'  BY <1>1, <1>2, <1>4, <1>7, <1>8, <1>9, InStepSameColumns
<1> QED  BY <1>10, <1>11, <1>12, <1>13, <1>14 DEF BuildInv

LEMMA EndOfBuildKeepsInv == ASSUME BuildInv, Throw \/ SendInsertBlock PROVE BuildInv'
<1>1. BuildTypeOK /\ CallsNest /\ RowLoop /\ OnlyBelow /\ PartsInStep  BY DEF BuildInv
<1>2. /\ table' = table /\ rows' = rows /\ i' = i /\ top' = top /\ frames' = frames /\ cols' = cols
      /\ phase' = "failed" \/ (phase' = "sent" /\ phase = "rows")
  BY DEF Throw, SendInsertBlock
<1>3. BuildTypeOK'  BY <1>1, <1>2 DEF BuildTypeOK
<1>4. CallsNest'  BY <1>1, <1>2 DEF CallsNest, UnderWay, Buffer, Collects
<1>5. RowLoop'
  <2>1. phase # "read"  BY DEF Throw, SendInsertBlock
  <2> QED  BY <2>1, <1>1, <1>2 DEF RowLoop
<1>6. OnlyBelow'  BY <1>1, <1>2 DEF OnlyBelow
<1>7. PartsInStep'
  <2>1. ASSUME NEW b \in DOMAIN table, NEW n \in DOMAIN table PROVE InStep(b, n)'
    <3>1. InStep(b, n)  BY <1>1 DEF PartsInStep
    <3>2. \A k : Ahead(b, n, k)' = Ahead(b, n, k)  BY <1>2 DEF Ahead
    <3>3. Collects(n) => IsOffsets(cols[b][n])  BY <3>1 DEF InStep
    <3> QED  BY <3>1, <3>2, <3>3, <1>1, <1>2, InStepUntouched
  <2> QED  BY <2>1, <1>2 DEF PartsInStep
<1> QED  BY <1>3, <1>4, <1>5, <1>6, <1>7 DEF BuildInv

LEMMA AppendCellKeepsInv == ASSUME BuildInv, AppendCell PROVE BuildInv'
<1>1. BuildTypeOK /\ CallsNest /\ RowLoop /\ OnlyBelow /\ PartsInStep  BY DEF BuildInv
<1>2. /\ phase = "cells" /\ HandsOn /\ Encodable(table[Callee], Given)
      /\ cols' = [cols EXCEPT ![Buffer(top)][Callee] = Append(@, Encoded(table[Callee], Given))]
      /\ frames' = [frames EXCEPT ![top] = Returned(top)]
      /\ table' = table /\ rows' = rows /\ i' = i /\ phase' = phase /\ top' = top
  BY DEF AppendCell
<1>3. PICK c : c = Callee  OBVIOUS
<1>4. PICK b0 : b0 = Buffer(top)  OBVIOUS
<1>5. PICK p : p = top  OBVIOUS
<1>6. PICK e : e = Encoded(table[Callee], Given)  OBVIOUS
<1>7. /\ Given \in PhpValues /\ c \in DOMAIN table /\ Len(c) = Len(p) + 1 /\ c # p
      /\ c = Append(p, frames[p].next) /\ frames[p].next \in 1 .. table[p].parts
      /\ frames[p].todo # <<>> /\ p \in DOMAIN table /\ c # <<>>
      /\ table[p].parts \in Nat /\ \A n \in DOMAIN table : Len(n) \in Nat
  BY <1>1, <1>2, <1>3, <1>5, GivenFacts, PathsOfTable DEF Callee
<1>8. UnderWay(p) /\ b0 \in DOMAIN table /\ Len(b0) <= Len(p)
  BY <1>1, <1>4, <1>5, <1>7, BufferFacts, UnderWayFacts
<1>9. table[c].code \in Scalars  BY <1>2, <1>3 DEF Encodable
<1>10. table[c].code \notin {"Nullable", "Array", "Tuple", "Map"}  BY <1>9 DEF Scalars
<1>11. Fits(table[c], e)
  <2>1. /\ table[c].code = "Int" => table[c].half \in Nat \ {0}
        /\ table[c].code \in {"UInt", "DateTime"} => table[c].size \in Nat \ {0}
    BY <1>1, <1>7, PartFacts
  <2> QED  BY <2>1, <1>3, <1>6, <1>7, <1>9, EncodedFits
<1>12. /\ DOMAIN cols' = DOMAIN table
       /\ \A b \in DOMAIN table : DOMAIN cols'[b] = DOMAIN table
       /\ \A b, n \in DOMAIN table : Holds(table[n], cols'[b][n])
       /\ \A b, n \in DOMAIN table : b # b0 \/ n # c => cols'[b][n] = cols[b][n]
       /\ Len(cols'[b0][c]) = Len(cols[b0][c]) + 1
  <2>1. cols' = [cols EXCEPT ![b0][c] = Append(@, e)]  BY <1>2, <1>3, <1>4, <1>6
  <2>2. BuildTypeOK /\ b0 \in DOMAIN table /\ c \in DOMAIN table  BY ONLY <1>1, <1>7, <1>8
  <2> QED  BY ONLY <2>1, <2>2, <1>11, AppendToColumn
<1>13. /\ Returned(p) \in Frame /\ Returned(p).into = frames[p].into
       /\ Returned(p).next \in 1 .. table[p].parts + 1
       /\ ~Collects(p) => Returned(p).next = frames[p].next + 1
  BY <1>1, <1>7, ReturnedFacts
<1>14. /\ frames' \in [DOMAIN table -> Frame]
       /\ \A n \in DOMAIN table : frames'[n].next \in 1 .. table[n].parts + 1
       /\ frames'[p] = Returned(p)
       /\ \A n \in DOMAIN table : n # p => frames'[n] = frames[n]
  <2>1. frames' = [frames EXCEPT ![p] = Returned(p)]  BY <1>2, <1>5
  <2> QED  BY <2>1, <1>1, <1>7, <1>13, FramesWith
<1>15. BuildTypeOK'
  <2>1. i \in Nat \ {0}  BY <1>1 DEF BuildTypeOK
  <2> QED  BY <2>1, <1>1, <1>2, <1>5, <1>7, <1>12, <1>14, TypeKept
<1>16. CallsNest'
  <2>1. \A n \in DOMAIN table : UnderWay(n)' <=> UnderWay(n)  BY <1>2 DEF UnderWay
  <2>2. \A n \in DOMAIN table : UnderWay(n)' /\ n # p => Len(n) < Len(p)
    BY <2>1, <1>1, <1>5, UnderWayFacts
  <2> QED  BY <2>1, <2>2, <1>1, <1>2, <1>5, <1>7, <1>8, <1>14, ReturnKeepsNesting
<1>17. RowLoop'
  <2>1. frames'[<<>>].into = frames[<<>>].into
    <3>1. <<>> \in DOMAIN table  BY <1>1, PathsOfTable
    <3> QED  BY <3>1, <1>13, <1>14
  <2>2. cols'[<<>>][<<>>] = cols[<<>>][<<>>]  BY <1>1, <1>7, <1>12, PathsOfTable
  <2> QED  BY <2>1, <2>2, <1>1, <1>2 DEF RowLoop
<1>18. OnlyBelow'
  <2>1. ASSUME NEW b \in DOMAIN table, NEW n \in DOMAIN table, b # <<>>, Len(n) <= Len(b)
        PROVE  cols'[b][n] = <<>>
    <3>1. b # b0 \/ n # c  BY <2>1, <1>7, <1>8
    <3>2. cols'[b][n] = cols[b][n]  BY <3>1, <1>12
    <3> QED  BY <3>2, <2>1, <1>1 DEF OnlyBelow
  <2> QED  BY <2>1, <1>2 DEF OnlyBelow
<1>19. PartsInStep'
  <2>1. ASSUME NEW b \in DOMAIN table, NEW n \in DOMAIN table PROVE InStep(b, n)'
    <3>1. InStep(b, n)  BY <1>1 DEF PartsInStep
    <3>2. Collects(n) => IsOffsets(cols[b][n])  BY <3>1 DEF InStep
    <3>3. CASE n = c
      <4>1. BuildTypeOK' => (table[n].code \notin {"Nullable", "Array", "Tuple", "Map"} => InStep(b, n))'
        BY <1>2 DEF InStep, Collects
      <4> QED  BY <4>1, <3>3, <1>2, <1>10, <1>15
    <3>4. CASE n = p
      <4>1. cols'[b][p] = cols[b][p]  BY <1>7, <1>12
      <4>2. ASSUME NEW k \in 1 .. table[p].parts
            PROVE  Len(cols'[b][Append(p, k)]) = Len(cols[b][Append(p, k)]) +
                     IF b = Buffer(p) /\ k = frames[p].next THEN 1 ELSE 0
        <5> DEFINE d == Append(p, k)
        <5>1. d \in DOMAIN table /\ Len(cols[b][d]) \in Nat
          BY <1>1, <1>7, PathsOfTable, ColumnFacts
        <5>2. CASE k = frames[p].next /\ b = b0
          <6>1. d = c  BY <5>2, <1>7
          <6>2. Len(cols'[b][d]) = Len(cols[b][d]) + 1  BY <6>1, <5>2, <1>12
          <6> QED  BY <6>2, <5>2, <1>4, <1>5
        <5>3. CASE ~(k = frames[p].next /\ b = b0)
          <6>1. b # b0 \/ d # c
            <7>1. p \in Seq(Nat) /\ k \in Nat /\ frames[p].next \in Nat
              BY <1>1, <1>7, PathsOfTable
            <7>2. d = c => k = frames[p].next  BY <7>1, <1>7, PartsDiffer
            <7> QED  BY <7>2, <5>3
          <6>2. cols'[b][d] = cols[b][d]  BY <6>1, <5>1, <1>12
          <6> HIDE DEF d
          <6>3. (IF b = Buffer(p) /\ k = frames[p].next THEN 1 ELSE 0) = 0
            BY <5>3, <1>4, <1>5
          <6>4. Len(cols'[b][d]) = Len(cols[b][d]) + 0  BY <5>1, <6>2
          <6> QED  BY <6>3, <6>4 DEF d
        <5> QED  BY <5>2, <5>3
      <4>3. BuildTypeOK /\ InStep(b, p) /\ table' = table /\ frames'[p] = Returned(p)
        BY <3>1, <3>4, <1>1, <1>2, <1>14
      <4>4. Len(cols'[b][p]) = Len(cols[b][p])  BY <4>1
      <4>5. Collects(p) => IsOffsets(cols'[b][p]) /\ EndOf(cols'[b][p]) = EndOf(cols[b][p])
        BY <4>1, <3>2, <3>4
      <4>6. frames[p].todo # <<>> /\ frames[p].next <= table[p].parts /\ p \in DOMAIN table
        BY <1>7
      <4>7. InStep(b, p)'
        BY ONLY <4>2, <4>3, <4>4, <4>5, <4>6, b \in DOMAIN table, InStepAfterReturn
      <4> QED  BY <4>7, <3>4
    <3>5. CASE n # c /\ n # p
      <4>1. cols'[b][n] = cols[b][n] /\ frames'[n] = frames[n]  BY <3>5, <1>12, <1>14
      <4>2. ASSUME NEW k \in 1 .. table[n].parts
            PROVE  cols'[b][Append(n, k)] = cols[b][Append(n, k)]
        <5>1. Append(n, k) \in DOMAIN table /\ Caller(Append(n, k)) = n  BY <1>1, PathsOfTable
        <5>2. Caller(c) = p  BY <1>1, <1>7, PathsOfTable
        <5>3. Append(n, k) # c  BY <5>1, <5>2, <3>5
        <5> QED  BY <5>1, <5>3, <1>12
      <4>3. \A k : Ahead(b, n, k)' = Ahead(b, n, k)  BY <4>1 DEF Ahead
      <4> QED  BY <4>1, <4>2, <4>3, <3>1, <3>2, <1>1, <1>2, InStepUntouched
    <3> QED  BY <3>3, <3>4, <3>5
  <2> QED  BY <2>1, <1>2 DEF PartsInStep
<1> QED  BY <1>15, <1>16, <1>17, <1>18, <1>19 DEF BuildInv

LEMMA EndRowKeepsInv == ASSUME BuildInv, EndRow PROVE BuildInv'
<1>1. BuildTypeOK /\ CallsNest /\ RowLoop /\ OnlyBelow /\ PartsInStep  BY DEF BuildInv
<1>2. /\ phase = "cells" /\ top = <<>> /\ AllGiven /\ cols' = Completed(<<>>, <<>>)
      /\ frames' = [frames EXCEPT ![<<>>] = Idle] /\ i' = i + 1 /\ phase' = "rows"
      /\ table' = table /\ rows' = rows /\ top' = top
  BY DEF EndRow
<1>3. PICK r : r = <<>>  OBVIOUS
<1>4. /\ r \in DOMAIN table /\ table[r].code = "Tuple" /\ table[r].parts \in Nat
      /\ ~Collects(r)
  BY <1>1, <1>3, PathsOfTable, PartFacts
<1>5. frames[r].next = table[r].parts + 1 /\ frames[r].into = r
  BY <1>1, <1>2, <1>3, <1>4 DEF AllGiven, RowLoop
<1>6. /\ DOMAIN cols' = DOMAIN table
      /\ \A b \in DOMAIN table : DOMAIN cols'[b] = DOMAIN table
      /\ \A b, n \in DOMAIN table : Holds(table[n], cols'[b][n])
      /\ \A b, n \in DOMAIN table : b # r \/ n # r => cols'[b][n] = cols[b][n]
      /\ Len(cols'[r][r]) = Len(cols[r][r]) + 1
  <2>1. cols' = [cols EXCEPT ![r][r] = Append(@, TRUE)]
    BY <1>2, <1>3, <1>4 DEF Completed
  <2>2. Fits(table[r], TRUE)  BY <1>4 DEF Fits
  <2> QED  BY <2>1, <2>2, <1>1, <1>4, AppendToColumn
<1>7. /\ frames' \in [DOMAIN table -> Frame]
      /\ \A n \in DOMAIN table : frames'[n].next \in 1 .. table[n].parts + 1
      /\ frames'[r] = Idle
      /\ \A n \in DOMAIN table : n # r => frames'[n] = frames[n]
  <2>1. frames' = [frames EXCEPT ![r] = Idle]  BY <1>2, <1>3
  <2>2. Idle \in Frame /\ Idle.next \in 1 .. table[r].parts + 1  BY <1>1, <1>4, IdleFacts
  <2> QED  BY <2>1, <2>2, <1>1, <1>4, FramesWith
<1>8. Idle.next = 1 /\ Idle.into = r  BY <1>1, <1>3, IdleFacts
<1>9. BuildTypeOK'
  <2>1. i' \in Nat \ {0}  BY <1>1, <1>2 DEF BuildTypeOK
  <2>2. top' \in DOMAIN table /\ phase' \in {"rows", "cells", "sent", "failed"}
    BY <1>2, <1>3, <1>4
  <2> QED  BY <2>1, <2>2, <1>1, <1>2, <1>6, <1>7, TypeKept
<1>10. CallsNest'  BY <1>1, <1>2, <1>3, <1>7, RowKeepsNesting
<1>11. RowLoop'
  <2>1. Len(cols[r][r]) = i - 1 /\ i \in Nat  BY <1>1, <1>2, <1>3 DEF RowLoop, BuildTypeOK
  <2>2. Len(cols'[r][r]) = i' - 1  BY <2>1, <1>2, <1>6
  <2> QED  BY <2>2, <1>2, <1>3, <1>7, <1>8 DEF RowLoop
<1>12. OnlyBelow'
  <2>1. ASSUME NEW b \in DOMAIN table, NEW n \in DOMAIN table, b # <<>>, Len(n) <= Len(b)
        PROVE  cols'[b][n] = <<>>
    <3>1. cols'[b][n] = cols[b][n]  BY <2>1, <1>3, <1>6
    <3> QED  BY <3>1, <2>1, <1>1 DEF OnlyBelow
  <2> QED  BY <2>1, <1>2 DEF OnlyBelow
<1>13. PartsInStep'
  <2>1. ASSUME NEW b \in DOMAIN table, NEW n \in DOMAIN table PROVE InStep(b, n)'
    <3>1. InStep(b, n)  BY <1>1 DEF PartsInStep
    <3>2. Collects(n) => IsOffsets(cols[b][n])  BY <3>1 DEF InStep
    <3>3. ASSUME NEW k \in 1 .. table[n].parts
          PROVE  cols'[b][Append(n, k)] = cols[b][Append(n, k)]
      <4>1. Append(n, k) \in DOMAIN table /\ Append(n, k) # r  BY <1>1, <1>3, PathsOfTable
      <4> QED  BY <4>1, <1>6
    <3>4. CASE b = r /\ n = r
      <4>1. ASSUME NEW k \in 1 .. table[n].parts
            PROVE  Len(cols'[b][Append(n, k)]) = Len(cols'[b][n]) + Ahead(b, n, k)'
        <5>1. k \in Nat /\ k < frames[n].next /\ frames[n].into = b
          BY <3>4, <1>4, <1>5
        <5>2. Ahead(b, n, k) = 1  BY <5>1 DEF Ahead
        <5>3. Ahead(b, n, k)' = 0  BY <5>1, <4>1, <3>4, <1>4, <1>7, <1>8 DEF Ahead
        <5>4. Len(cols[b][Append(n, k)]) = Len(cols[b][n]) + 1
          BY <5>2, <3>1, <3>4, <1>4 DEF InStep
        <5>5. Len(cols[b][n]) \in Nat  BY <1>1, ColumnFacts
        <5>6. Len(cols'[b][Append(n, k)]) = Len(cols[b][n]) + 1  BY <5>4, <3>3
        <5>7. Len(cols'[b][n]) = Len(cols[b][n]) + 1  BY <3>4, <1>6
        <5> QED  BY <5>3, <5>5, <5>6, <5>7
      <4>2. ~Collects(n)' /\ table'[n].code # "Map"  BY <3>4, <1>2, <1>4 DEF Collects
      <4> QED  BY <4>1, <4>2, <1>2 DEF InStep
    <3>5. CASE ~(b = r /\ n = r)
      <4>1. cols'[b][n] = cols[b][n]  BY <3>5, <1>6
      <4>2. ASSUME NEW k \in 1 .. table[n].parts PROVE Ahead(b, n, k)' = Ahead(b, n, k)
        <5>1. CASE n = r
          <6>1. frames[n].into # b /\ frames'[n].into # b  BY <5>1, <3>5, <1>5, <1>7, <1>8
          <6> QED  BY <6>1 DEF Ahead
        <5>2. CASE n # r  BY <5>2, <1>7 DEF Ahead
        <5> QED  BY <5>1, <5>2
      <4>3. CASE n = r
        <5>1. ~Collects(n)' /\ ~Collects(n)  BY <4>3, <1>2, <1>4 DEF Collects
        <5>2. ASSUME table[n].code \in {"Nullable", "Tuple"}, NEW k \in 1 .. table[n].parts
              PROVE  Len(cols'[b][Append(n, k)]) = Len(cols'[b][n]) + Ahead(b, n, k)'
          <6>1. Len(cols[b][Append(n, k)]) = Len(cols[b][n]) + Ahead(b, n, k)
            BY <5>2, <3>1 DEF InStep
          <6> QED  BY <6>1, <3>3, <4>1, <4>2
        <5> QED  BY <5>1, <5>2, <1>2 DEF InStep, Collects
      <4>4. CASE n # r
        <5>1. frames'[n] = frames[n]  BY <4>4, <1>7
        <5> QED  BY <5>1, <4>1, <4>2, <3>1, <3>2, <3>3, <1>1, <1>2, InStepUntouched
      <4> QED  BY <4>3, <4>4
    <3> QED  BY <3>4, <3>5
  <2> QED  BY <2>1, <1>2 DEF PartsInStep
<1> QED  BY <1>9, <1>10, <1>11, <1>12, <1>13 DEF BuildInv

(* A call returns: its locals are gone, and its caller goes on.            *)
LEMMA LeaveColumnCalls ==
  ASSUME BuildInv, LeaveColumn, NEW c, c = top, NEW p, p = Caller(top)
  PROVE  /\ CallsNest' /\ frames' \in [DOMAIN table -> Frame]
         /\ \A n \in DOMAIN table : frames'[n].next \in 1 .. table[n].parts + 1
         /\ frames'[c] = Idle /\ frames'[p] = Returned(p)
         /\ \A n \in DOMAIN table : n # c /\ n # p => frames'[n] = frames[n]
         /\ \A n \in DOMAIN table : n # c => frames'[n].into = frames[n].into
         /\ c \in DOMAIN table /\ c # <<>> /\ p \in DOMAIN table /\ p # c
         /\ frames[p].todo # <<>> /\ frames[p].next \in 1 .. table[p].parts
         /\ c = Append(p, frames[p].next) /\ Len(p) = Len(c) - 1
         /\ frames[c].into = Buffer(p) /\ frames[c].into \in DOMAIN table
         /\ Len(frames[c].into) < Len(c)
         /\ \A n \in DOMAIN table : Len(n) \in Nat
         /\ \A n \in DOMAIN table : \A k \in 1 .. table[n].parts :
              n # p => Append(n, k) # c
         /\ \A k \in 1 .. table[p].parts : k # frames[p].next => Append(p, k) # c
<1>1. BuildTypeOK /\ CallsNest /\ RowLoop  BY DEF BuildInv
<1>2. /\ top # <<>> /\ table' = table /\ top' = p
      /\ frames' = [frames EXCEPT ![c] = Idle, ![p] = Returned(p)]
  BY DEF LeaveColumn
<1>3. c \in DOMAIN table /\ c # <<>> /\ \A n \in DOMAIN table : Len(n) \in Nat
  BY <1>1, <1>2, PathsOfTable
<1>4. /\ p \in DOMAIN table /\ p # c /\ Len(p) = Len(c) - 1 /\ UnderWay(p)
      /\ frames[p].todo # <<>>
      /\ frames[p].next \in 1 .. table[p].parts /\ c = Append(p, frames[p].next)
      /\ frames[c].into = Buffer(p) /\ Len(frames[c].into) < Len(c)
  BY <1>1, <1>2, CallerWaits
<1>5. frames[c].into \in DOMAIN table /\ table[p].parts \in Nat  BY <1>1, <1>3, <1>4, FrameFacts
<1>6. /\ Returned(p) \in Frame /\ Returned(p).into = frames[p].into
      /\ Returned(p).next \in 1 .. table[p].parts + 1
  BY <1>1, <1>4, <1>5, ReturnedFacts
<1>7. /\ frames' \in [DOMAIN table -> Frame]
      /\ \A n \in DOMAIN table : frames'[n].next \in 1 .. table[n].parts + 1
      /\ frames'[c] = Idle /\ frames'[p] = Returned(p)
      /\ \A n \in DOMAIN table : n # c /\ n # p => frames'[n] = frames[n]
  <2>1. frames \in [DOMAIN table -> Frame]  BY <1>1 DEF BuildTypeOK, Frame
  <2>2. \A n \in DOMAIN table : frames[n].next \in 1 .. table[n].parts + 1  BY <1>1, FrameFacts
  <2>3. Idle \in Frame /\ \A n \in DOMAIN table : Idle.next \in 1 .. table[n].parts + 1
    BY <1>1, IdleFacts
  <2> QED  BY <2>1, <2>2, <2>3, <1>2, <1>3, <1>4, <1>6
<1>8. \A n \in DOMAIN table : n # c => frames'[n].into = frames[n].into  BY <1>6, <1>7
<1>9. CallsNest'
  <2>1. \A n \in DOMAIN table : UnderWay(n)' <=> LeadsTo(n, p)
    BY <1>2 DEF UnderWay, LeadsTo
  <2>2. \A n \in DOMAIN table : LeadsTo(n, p) <=> UnderWay(n) /\ n # c
    <3>1. DOMAIN table \subseteq Seq(Nat)  BY <1>1, PathsOfTable
    <3>2. \A n \in DOMAIN table : LeadsTo(n, Caller(top)) <=> LeadsTo(n, top) /\ n # top
      BY <3>1, <1>2, <1>3, LeadsToFacts
    <3> QED  BY <3>2, <1>1, UnderWayFacts
  <2>3. \A n \in DOMAIN table : UnderWay(n)' /\ n # p => Len(n) < Len(p)
    <3>1. DOMAIN table \subseteq Seq(Nat)  BY <1>1, PathsOfTable
    <3> QED  BY <3>1, <2>1, <1>4, LeadsToFacts
  <2>4. \A n \in DOMAIN table : UnderWay(n)' <=> UnderWay(n) /\ (p # top => n # top)
    BY <2>1, <2>2, <1>4
  <2>5. frames[p].next <= table[p].parts  BY <1>4, <1>5
  <2>6. p # top => frames'[top] = Idle  BY <1>7
  <2>7. \A n \in DOMAIN table : n # p /\ n # top => frames'[n] = frames[n]  BY <1>7
  <2> QED  BY <2>3, <2>4, <2>5, <2>6, <2>7, <1>1, <1>2, <1>4, <1>7, ReturnKeepsNesting
<1>10. \A n \in DOMAIN table : \A k \in 1 .. table[n].parts : n # p => Append(n, k) # c
  <2>1. \A n \in DOMAIN table : \A k \in 1 .. table[n].parts : Caller(Append(n, k)) = n
    BY <1>1, PathsOfTable
  <2> QED  BY <2>1
<1>11. \A k \in 1 .. table[p].parts : k # frames[p].next => Append(p, k) # c
  <2>1. p \in Seq(Nat)  BY <1>1, <1>4, PathsOfTable
  <2>2. \A k \in 1 .. table[p].parts : k \in Nat  BY <1>5
  <2> QED  BY <2>1, <2>2, <1>4, PartsDiffer
<1> QED  BY <1>3, <1>4, <1>5, <1>7, <1>8, <1>9, <1>10, <1>11

(* A Nullable or a Tuple: the column of the caller has the row already but *)
(* for the flag, or the mark that the model keeps.                         *)
LEMMA LeaveInPlaceKeepsInv == ASSUME BuildInv, LeaveColumn, ~Collects(top) PROVE BuildInv'
<1>1. BuildTypeOK /\ CallsNest /\ RowLoop /\ OnlyBelow /\ PartsInStep  BY DEF BuildInv
<1>2. /\ phase = "cells" /\ AllGiven /\ cols' = Completed(top, frames[top].into)
      /\ table' = table /\ rows' = rows /\ i' = i /\ phase' = phase /\ top' = Caller(top)
  BY DEF LeaveColumn
<1>3. PICK c : c = top  OBVIOUS
<1>4. PICK p : p = Caller(top)  OBVIOUS
<1>5. PICK b0 : b0 = frames[c].into  OBVIOUS
<1>6. /\ CallsNest' /\ frames' \in [DOMAIN table -> Frame]
      /\ \A n \in DOMAIN table : frames'[n].next \in 1 .. table[n].parts + 1
      /\ frames'[c] = Idle /\ frames'[p] = Returned(p)
      /\ \A n \in DOMAIN table : n # c /\ n # p => frames'[n] = frames[n]
      /\ \A n \in DOMAIN table : n # c => frames'[n].into = frames[n].into
  BY <1>3, <1>4, LeaveColumnCalls
<1>7. /\ c \in DOMAIN table /\ c # <<>> /\ p \in DOMAIN table /\ p # c
      /\ frames[p].todo # <<>> /\ frames[p].next \in 1 .. table[p].parts
      /\ c = Append(p, frames[p].next) /\ Len(p) = Len(c) - 1
      /\ b0 = Buffer(p) /\ b0 \in DOMAIN table /\ Len(b0) < Len(c)
      /\ \A n \in DOMAIN table : Len(n) \in Nat
  BY <1>3, <1>4, <1>5, LeaveColumnCalls
<1>8. /\ \A n \in DOMAIN table : \A k \in 1 .. table[n].parts : n # p => Append(n, k) # c
      /\ \A k \in 1 .. table[p].parts : k # frames[p].next => Append(p, k) # c
  BY <1>3, <1>4, LeaveColumnCalls
<1>9. table[c].code \in {"Nullable", "Tuple"} /\ ~Collects(c)
  <2>1. UnderWay(c)  BY <1>1, <1>3, UnderWayFacts
  <2>2. table[c].code \in {"Nullable", "Array", "Tuple", "Map"}  BY <2>1, <1>1, <1>7 DEF CallsNest
  <2> QED  BY <2>2, <1>3 DEF Collects
<1>10. /\ frames[c].next = table[c].parts + 1 /\ table[c].parts \in Nat
       /\ table[p].parts \in Nat
  <2>1. table[c].parts \in Nat /\ table[p].parts \in Nat  BY <1>1, <1>7, PathsOfTable
  <2>2. CASE table[c].code = "Tuple"  BY <2>1, <2>2, <1>2, <1>3 DEF AllGiven
  <2>3. CASE table[c].code = "Nullable"
    <3>1. frames[c].todo = <<>>  BY <1>2, <1>3 DEF AllGiven
    <3>2. UnderWay(c)  BY <1>1, <1>3, UnderWayFacts
    <3>3. frames[c].next + Len(frames[c].todo) = 2  BY <3>2, <2>3, <1>1, <1>7 DEF CallsNest
    <3>4. Len(<<>>) = 0 /\ frames[c].next \in Nat  BY <1>1, <1>7, FrameFacts, EmptySeq
    <3>5. frames[c].next = 2  BY <3>1, <3>3, <3>4
    <3>6. table[c].parts = 1  BY <2>3, <1>1, <1>7, PartFacts
    <3> QED  BY <3>5, <3>6, <2>1
  <2> QED  BY <2>2, <2>3, <1>9
<1>11. /\ DOMAIN cols' = DOMAIN table
       /\ \A b \in DOMAIN table : DOMAIN cols'[b] = DOMAIN table
       /\ \A b, n \in DOMAIN table : Holds(table[n], cols'[b][n])
       /\ \A b, n \in DOMAIN table : b # b0 \/ n # c => cols'[b][n] = cols[b][n]
       /\ Len(cols'[b0][c]) = Len(cols[b0][c]) + 1
  <2>1. PICK e : cols' = [cols EXCEPT ![b0][c] = Append(@, e)]
    <3>1. CASE table[c].code = "Nullable"
      <4>1. cols' = [cols EXCEPT ![b0][c] = Append(@, Kind(frames[c].value) = "null")]
        BY <3>1, <1>2, <1>3, <1>5 DEF Completed
      <4> QED  BY <4>1
    <3>2. CASE table[c].code # "Nullable"
      <4>1. cols' = [cols EXCEPT ![b0][c] = Append(@, TRUE)]
        BY <3>2, <1>2, <1>3, <1>5, <1>9 DEF Completed
      <4> QED  BY <4>1
    <3> QED  BY <3>1, <3>2
  <2>2. Fits(table[c], e)  BY <1>9 DEF Fits
  <2>3. BuildTypeOK /\ b0 \in DOMAIN table /\ c \in DOMAIN table  BY <1>1, <1>7
  <2> QED  BY ONLY <2>1, <2>2, <2>3, AppendToColumn
<1>12. BuildTypeOK'
  <2>1. i' \in Nat \ {0} /\ top' \in DOMAIN table  BY <1>1, <1>2, <1>4, <1>7 DEF BuildTypeOK
  <2>2. phase' \in {"rows", "cells", "sent", "failed"}  BY <1>2
  <2> QED  BY <2>1, <2>2, <1>1, <1>2, <1>6, <1>11, TypeKept
<1>13. RowLoop'
  <2>1. <<>> \in DOMAIN table  BY <1>1, PathsOfTable
  <2>2. frames'[<<>>].into = frames[<<>>].into /\ cols'[<<>>][<<>>] = cols[<<>>][<<>>]
    BY <2>1, <1>6, <1>7, <1>11
  <2> QED  BY <2>2, <1>1, <1>2 DEF RowLoop
<1>14. OnlyBelow'
  <2>1. ASSUME NEW b \in DOMAIN table, NEW n \in DOMAIN table, b # <<>>, Len(n) <= Len(b)
        PROVE  cols'[b][n] = <<>>
    <3>1. b # b0 \/ n # c  BY <2>1, <1>7
    <3>2. cols'[b][n] = cols[b][n]  BY <3>1, <1>11
    <3> QED  BY <3>2, <2>1, <1>1 DEF OnlyBelow
  <2> QED  BY <2>1, <1>2 DEF OnlyBelow
<1>15. ASSUME NEW b \in DOMAIN table, NEW n \in DOMAIN table PROVE InStep(b, n)'
  <2>1. InStep(b, n)  BY <1>1 DEF PartsInStep
  <2>2. Collects(n) => IsOffsets(cols[b][n])  BY <2>1 DEF InStep
  <2>3. CASE n = c
    <3>1. ASSUME NEW k \in 1 .. table[c].parts
          PROVE  Len(cols'[b][Append(c, k)]) = Len(cols'[b][c]) + Ahead(b, c, k)'
      <4>1. Append(c, k) \in DOMAIN table /\ Append(c, k) # c  BY <1>1, <1>7, PathsOfTable
      <4>2. cols'[b][Append(c, k)] = cols[b][Append(c, k)]  BY <4>1, <1>11
      <4>3. Len(cols[b][Append(c, k)]) = Len(cols[b][c]) + Ahead(b, c, k)
        BY <2>1, <2>3, <1>9 DEF InStep
      <4>4. Len(cols[b][c]) \in Nat  BY <1>1, <1>7, ColumnFacts
      <4>5. k \in Nat \ {0} /\ k < frames[c].next  BY <1>10
      <4>6. Ahead(b, c, k)' = 0
        <5>1. frames'[c].next = 1  BY <1>1, <1>6, IdleFacts
        <5> QED  BY <5>1, <4>5 DEF Ahead
      <4>7. CASE b = b0
        <5>1. Ahead(b, c, k) = 1  BY <4>5, <4>7, <1>5 DEF Ahead
        <5>2. Len(cols'[b][c]) = Len(cols[b][c]) + 1  BY <4>7, <1>11
        <5> QED  BY <5>1, <5>2, <4>2, <4>3, <4>4, <4>6
      <4>8. CASE b # b0
        <5>1. Ahead(b, c, k) = 0  BY <4>8, <1>5 DEF Ahead
        <5>2. cols'[b][c] = cols[b][c]  BY <4>8, <1>7, <1>11
        <5> QED  BY <5>1, <5>2, <4>2, <4>3, <4>4, <4>6
      <4> QED  BY <4>7, <4>8
    <3>2. ~Collects(c)' /\ table'[c].code # "Map"  BY <1>2, <1>9 DEF Collects
    <3> QED  BY <3>1, <3>2, <2>3, <1>2 DEF InStep
  <2>4. CASE n = p
    <3>1. cols'[b][p] = cols[b][p]  BY <1>7, <1>11
    <3>2. ASSUME NEW k \in 1 .. table[p].parts
          PROVE  Len(cols'[b][Append(p, k)]) = Len(cols[b][Append(p, k)]) +
                   IF b = Buffer(p) /\ k = frames[p].next THEN 1 ELSE 0
      <4> DEFINE d == Append(p, k)
      <4>1. d \in DOMAIN table /\ Len(cols[b][d]) \in Nat
        BY <1>1, <1>7, PathsOfTable, ColumnFacts
      <4>2. CASE b = b0 /\ k = frames[p].next
        <5>1. d = c  BY <4>2, <1>7
        <5>2. Len(cols'[b][d]) = Len(cols[b][d]) + 1  BY <5>1, <4>2, <1>11
        <5> QED  BY <5>2, <4>2, <1>7
      <4>3. CASE ~(b = b0 /\ k = frames[p].next)
        <5>1. b # b0 \/ d # c  BY <4>3, <1>8
        <5>2. cols'[b][d] = cols[b][d]  BY <5>1, <4>1, <1>11
        <5> HIDE DEF d
        <5>3. (IF b = Buffer(p) /\ k = frames[p].next THEN 1 ELSE 0) = 0  BY <4>3, <1>7
        <5>4. Len(cols'[b][d]) = Len(cols[b][d]) + 0  BY <4>1, <5>2
        <5> QED  BY <5>3, <5>4 DEF d
      <4> QED  BY <4>2, <4>3
    <3>3. BuildTypeOK /\ InStep(b, p) /\ table' = table /\ frames'[p] = Returned(p)
      BY <2>1, <2>4, <1>1, <1>2, <1>6
    <3>4. Len(cols'[b][p]) = Len(cols[b][p])  BY <3>1
    <3>5. Collects(p) => IsOffsets(cols'[b][p]) /\ EndOf(cols'[b][p]) = EndOf(cols[b][p])
      BY <3>1, <2>2, <2>4
    <3>6. frames[p].todo # <<>> /\ frames[p].next <= table[p].parts /\ p \in DOMAIN table
      BY <1>7, <1>10
    <3>7. InStep(b, p)'
      BY ONLY <3>2, <3>3, <3>4, <3>5, <3>6, b \in DOMAIN table, InStepAfterReturn
    <3> QED  BY <3>7, <2>4
  <2>5. CASE n # c /\ n # p
    <3>1. cols'[b][n] = cols[b][n] /\ frames'[n] = frames[n]  BY <2>5, <1>6, <1>11
    <3>2. ASSUME NEW k \in 1 .. table[n].parts
          PROVE  cols'[b][Append(n, k)] = cols[b][Append(n, k)]
      <4>1. Append(n, k) \in DOMAIN table  BY <1>1, PathsOfTable
      <4>2. Append(n, k) # c  BY <2>5, <1>8
      <4> QED  BY <4>1, <4>2, <1>11
    <3>3. \A k : Ahead(b, n, k)' = Ahead(b, n, k)  BY <3>1 DEF Ahead
    <3> QED  BY <3>1, <3>2, <3>3, <2>1, <2>2, <1>1, <1>2, InStepUntouched
  <2> QED  BY <2>3, <2>4, <2>5
<1>16. PartsInStep'  BY <1>2, <1>15 DEF PartsInStep
<1> QED  BY <1>6, <1>12, <1>13, <1>14, <1>16 DEF BuildInv

(* An Array or a Map: the rows collected below it are joined to those of   *)
(* the buffer, where each column of the subtree is in step on its own.     *)
LEMMA LeaveAndJoinKeepsInv == ASSUME BuildInv, LeaveColumn, Collects(top) PROVE BuildInv'
<1>1. BuildTypeOK /\ CallsNest /\ RowLoop /\ OnlyBelow /\ PartsInStep  BY DEF BuildInv
<1>2. /\ phase = "cells" /\ AllGiven /\ cols' = Completed(top, frames[top].into)
      /\ table' = table /\ rows' = rows /\ i' = i /\ phase' = phase /\ top' = Caller(top)
  BY DEF LeaveColumn
<1>3. PICK c : c = top  OBVIOUS
<1>4. PICK p : p = Caller(top)  OBVIOUS
<1>5. PICK b0 : b0 = frames[c].into  OBVIOUS
<1>6. /\ CallsNest' /\ frames' \in [DOMAIN table -> Frame]
      /\ \A n \in DOMAIN table : frames'[n].next \in 1 .. table[n].parts + 1
      /\ frames'[c] = Idle /\ frames'[p] = Returned(p)
      /\ \A n \in DOMAIN table : n # c /\ n # p => frames'[n] = frames[n]
      /\ \A n \in DOMAIN table : n # c => frames'[n].into = frames[n].into
  BY <1>3, <1>4, LeaveColumnCalls
<1>7. /\ c \in DOMAIN table /\ c # <<>> /\ p \in DOMAIN table /\ p # c
      /\ frames[p].todo # <<>> /\ frames[p].next \in 1 .. table[p].parts
      /\ c = Append(p, frames[p].next) /\ Len(p) = Len(c) - 1
      /\ b0 = Buffer(p) /\ b0 \in DOMAIN table /\ Len(b0) < Len(c)
      /\ \A n \in DOMAIN table : Len(n) \in Nat
  BY <1>3, <1>4, <1>5, LeaveColumnCalls
<1>8. /\ \A n \in DOMAIN table : \A k \in 1 .. table[n].parts : n # p => Append(n, k) # c
      /\ \A k \in 1 .. table[p].parts : k # frames[p].next => Append(p, k) # c
  BY <1>3, <1>4, LeaveColumnCalls
<1>9. /\ Collects(c) /\ table[c].code \in {"Array", "Map"} /\ b0 # c
      /\ table[c].parts \in Nat /\ table[p].parts \in Nat
      /\ \A n \in DOMAIN table : \A k \in 1 .. table[n].parts :
           Append(n, k) \in DOMAIN table /\ Len(Append(n, k)) = Len(n) + 1 /\ Append(n, k) # n
  BY <1>1, <1>3, <1>7, PathsOfTable DEF Collects
<1>10. /\ DOMAIN cols' = DOMAIN table
       /\ \A b \in DOMAIN table : DOMAIN cols'[b] = DOMAIN table
       /\ \A b, n \in DOMAIN table : Holds(table[n], cols'[b][n])
       /\ \A b \in DOMAIN table : b # b0 /\ b # c => cols'[b] = cols[b]
       /\ \A n \in DOMAIN table : cols'[c][n] = <<>>
       /\ \A n \in DOMAIN table : n # c =>
            /\ Len(cols'[b0][n]) = Len(cols[b0][n]) + Len(cols[c][n])
            /\ Collects(n) => /\ IsOffsets(cols'[b0][n])
                              /\ EndOf(cols'[b0][n]) = EndOf(cols[b0][n]) + EndOf(cols[c][n])
       /\ Len(cols'[b0][c]) = Len(cols[b0][c]) + 1 /\ IsOffsets(cols'[b0][c])
       /\ EndOf(cols'[b0][c]) = EndOf(cols[b0][c]) + Len(cols[c][Append(c, 1)])
  <2>1. cols' = JoinedTo(b0, c)  BY <1>2, <1>3, <1>5, <1>9 DEF Completed, JoinedTo
  <2> QED  BY ONLY <2>1, <1>1, <1>7, <1>9, JoinColumns
<1>11. /\ \A b, n \in DOMAIN table : Len(cols[b][n]) \in Nat
       /\ Len(<<>>) = 0 /\ EndOf(<<>>) = 0 /\ IsOffsets(<<>>)
  BY <1>1, ColumnFacts, EmptyOffsets
(* Columns that are not below c have nothing to join.                      *)
<1>12. ASSUME NEW n \in DOMAIN table, Len(n) <= Len(c), n # c
       PROVE  /\ cols[c][n] = <<>> /\ Len(cols'[b0][n]) = Len(cols[b0][n])
              /\ Collects(n) => IsOffsets(cols'[b0][n]) /\ EndOf(cols'[b0][n]) = EndOf(cols[b0][n])
  <2>1. cols[c][n] = <<>>  BY <1>1, <1>7, <1>12 DEF OnlyBelow
  <2>2. Len(cols'[b0][n]) = Len(cols[b0][n]) + 0  BY <2>1, <1>10, <1>11, <1>12
  <2>3. Len(cols'[b0][n]) = Len(cols[b0][n])  BY <2>2, <1>7, <1>11
  <2>4. ASSUME Collects(n)
        PROVE  IsOffsets(cols'[b0][n]) /\ EndOf(cols'[b0][n]) = EndOf(cols[b0][n])
    <3>1. IsOffsets(cols'[b0][n]) /\ EndOf(cols'[b0][n]) = EndOf(cols[b0][n]) + 0
      BY <2>1, <2>4, <1>10, <1>11, <1>12
    <3>2. IsOffsets(cols[b0][n])  BY <2>4, <1>1, <1>7 DEF PartsInStep, InStep
    <3>3. EndOf(cols[b0][n]) \in Nat  BY <3>2, OffsetFacts
    <3> QED  BY <3>1, <3>3
  <2> QED  BY <2>1, <2>3, <2>4
<1>13. BuildTypeOK'
  <2>1. i' \in Nat \ {0} /\ top' \in DOMAIN table  BY <1>1, <1>2, <1>4, <1>7 DEF BuildTypeOK
  <2>2. phase' \in {"rows", "cells", "sent", "failed"}  BY <1>2
  <2> QED  BY <2>1, <2>2, <1>1, <1>2, <1>6, <1>10, TypeKept
<1>14. RowLoop'
  <2>1. <<>> \in DOMAIN table  BY <1>1, PathsOfTable
  <2>2. frames'[<<>>].into = frames[<<>>].into  BY <2>1, <1>6, <1>7
  <2>3. Len(cols'[<<>>][<<>>]) = Len(cols[<<>>][<<>>])
    <3>1. CASE b0 = <<>>
      <4>1. Len(<<>>) <= Len(c)  BY <1>7, <1>11
      <4> QED  BY <4>1, <3>1, <2>1, <1>7, <1>12
    <3>2. CASE b0 # <<>>  BY <3>2, <2>1, <1>7, <1>10
    <3> QED  BY <3>1, <3>2
  <2> QED  BY <2>2, <2>3, <1>1, <1>2 DEF RowLoop
<1>15. OnlyBelow'
  <2>1. ASSUME NEW b \in DOMAIN table, NEW n \in DOMAIN table, b # <<>>, Len(n) <= Len(b)
        PROVE  cols'[b][n] = <<>>
    <3>1. CASE b = c  BY <3>1, <1>10
    <3>2. CASE b = b0
      <4>1. Len(n) <= Len(c) /\ n # c  BY <2>1, <3>2, <1>7
      <4>2. cols[b0][n] = <<>>  BY <2>1, <3>2, <1>1 DEF OnlyBelow
      <4>3. Len(cols'[b0][n]) = 0  BY <4>1, <4>2, <1>11, <1>12
      <4>4. IsList(cols'[b0][n])  BY <1>7, <1>10 DEF Holds
      <4> QED  BY <4>3, <4>4, <3>2, EmptySeq DEF IsList
    <3>3. CASE b # c /\ b # b0
      <4>1. cols'[b] = cols[b]  BY <3>3, <1>10
      <4> QED  BY <4>1, <2>1, <1>1 DEF OnlyBelow
    <3> QED  BY <3>1, <3>2, <3>3
  <2> QED  BY <2>1, <1>2 DEF OnlyBelow
(* No loop of a call under way is ahead in the temporary of c.             *)
<1>16. ASSUME NEW n \in DOMAIN table, NEW k \in 1 .. table[n].parts
       PROVE  Ahead(c, n, k) = 0 /\ Ahead(c, n, k)' = 0
  <2>1. k \in Nat \ {0}  BY <1>1, PathsOfTable
  <2>2. Len(top) <= Len(c)  BY <1>3, <1>7
  <2>3. Ahead(c, n, k) = 0  BY ONLY <2>1, <2>2, <1>1, <1>7, NotAheadAbove
  <2>4. Ahead(c, n, k)' = 0
    <3>1. CASE n = c
      <4>1. frames'[c].next = 1  BY <1>1, <1>6, IdleFacts
      <4> QED  BY <4>1, <3>1, <2>1 DEF Ahead
    <3>2. CASE n = p
      <4>1. frames[p].into # c
        <5>1. CASE p = <<>>  BY <5>1, <1>1, <1>7 DEF RowLoop
        <5>2. CASE p # <<>>
          <6>1. UnderWay(p)  BY <1>1, <1>3, <1>4, <1>7, UnderWayFacts
          <6>2. Len(frames[p].into) < Len(p)  BY <6>1, <5>2, <1>1, <1>7 DEF CallsNest
          <6>3. Len(p) \in Nat /\ Len(c) \in Nat /\ Len(p) < Len(c)  BY <1>7
          <6> QED  BY <6>2, <6>3
        <5> QED  BY <5>1, <5>2
      <4>2. frames'[n].into # c  BY <4>1, <3>2, <1>6, <1>7
      <4> QED  BY <4>2 DEF Ahead
    <3>3. CASE n # c /\ n # p
      <4>1. frames'[n] = frames[n]  BY <3>3, <1>6
      <4> QED  BY <4>1, <2>3 DEF Ahead
    <3> QED  BY <3>1, <3>2, <3>3
  <2> QED  BY <2>3, <2>4
(* In the temporary of c, which is given up, nothing is left.              *)
<1>17. ASSUME NEW n \in DOMAIN table PROVE InStep(c, n)'
  <2>1. cols'[c][n] = <<>> /\ \A k \in 1 .. table[n].parts : cols'[c][Append(n, k)] = <<>>
    BY <1>9, <1>10
  <2>2. Len(cols'[c][n]) = 0 /\ EndOf(cols'[c][n]) = 0 /\ IsOffsets(cols'[c][n])
    BY <2>1, <1>11
  <2>3. \A k \in 1 .. table[n].parts :
          Len(cols'[c][Append(n, k)]) = 0 /\ Ahead(c, n, k)' = 0
    BY <2>1, <1>11, <1>16
  <2>4. ASSUME table[n].code = "Map", n = c
        PROVE  Len(cols'[c][Append(n, 1)]) =
                 Len(cols'[c][Append(n, 2)]) + IF frames'[n].next = 2 THEN 1 ELSE 0
    <3>1. 1 \in 1 .. table[n].parts /\ 2 \in 1 .. table[n].parts  BY <2>4, <1>1, PartFacts
    <3>2. frames'[n].next = 1  BY <2>4, <1>1, <1>6, IdleFacts
    <3> QED  BY <3>1, <3>2, <2>3
  <2>5. Collects(n)' <=> Collects(n)  BY <1>2 DEF Collects
  <2>6. \A k \in 1 .. table[n].parts :
          Len(cols'[c][Append(n, k)]) = Len(cols'[c][n]) + Ahead(c, n, k)'
    BY <2>2, <2>3
  <2>7. \A k \in 1 .. table[n].parts : Len(cols'[c][Append(n, k)]) = EndOf(cols'[c][n])
    BY <2>2, <2>3
  <2> QED  BY ONLY <2>2, <2>4, <2>5, <2>6, <2>7, <1>2 DEF InStep
(* Row, elements and entries of c itself.                                  *)
<1>18. ASSUME NEW b \in DOMAIN table, b # c PROVE InStep(b, c)'
  <2>1. InStep(b, c) /\ InStep(c, c)  BY <1>1, <1>7 DEF PartsInStep
  <2>2. Collects(c)' /\ table'[c].code \notin {"Nullable", "Tuple"}  BY <1>2, <1>9 DEF Collects
  <2>3. IsOffsets(cols'[b][c]) /\ \A k \in 1 .. table[c].parts :
          Len(cols'[b][Append(c, k)]) = EndOf(cols'[b][c])
    <3>1. CASE b = b0
      <4>1. \A k \in 1 .. table[c].parts :
              Len(cols[c][Append(c, k)]) = Len(cols[c][Append(c, 1)])
        <5>1. CASE table[c].code = "Array"
          <6>1. table[c].parts = 1  BY <5>1, <1>1, <1>7, PartFacts
          <6> QED  BY <6>1
        <5>2. CASE table[c].code = "Map"
          <6>1. table[c].parts = 2  BY <5>2, <1>1, <1>7, PartFacts
          <6>2. frames[c].next # 2  BY <5>2, <1>1, <1>2, <1>3, <1>7 DEF CallsNest, AllGiven
          <6>3. Len(cols[c][Append(c, 1)]) = Len(cols[c][Append(c, 2)]) + 0
            BY <6>2, <5>2, <2>1 DEF InStep
          <6>4. Append(c, 2) \in DOMAIN table  BY <6>1, <1>7, <1>9
          <6>5. Len(cols[c][Append(c, 1)]) = Len(cols[c][Append(c, 2)])
            BY <6>3, <6>4, <1>7, <1>11
          <6> QED  BY <6>1, <6>5
        <5> QED  BY <5>1, <5>2, <1>9
      <4>2. ASSUME NEW k \in 1 .. table[c].parts
            PROVE  Len(cols'[b0][Append(c, k)]) = EndOf(cols'[b0][c])
        <5>1. Append(c, k) \in DOMAIN table /\ Append(c, k) # c  BY <1>7, <1>9
        <5>2. Len(cols'[b0][Append(c, k)]) =
                Len(cols[b0][Append(c, k)]) + Len(cols[c][Append(c, k)])
          BY <5>1, <1>10
        <5>3. Len(cols[b0][Append(c, k)]) = EndOf(cols[b0][c])
          BY <3>1, <2>1, <1>9 DEF InStep
        <5> QED  BY <5>2, <5>3, <4>1, <1>10
      <4> QED  BY <4>2, <3>1, <1>10
    <3>2. CASE b # b0
      <4>1. cols'[b] = cols[b]  BY <3>2, <1>10, <1>18
      <4> QED  BY <4>1, <2>1, <1>9, <1>18 DEF InStep
    <3> QED  BY <3>1, <3>2
  <2> QED  BY <2>2, <2>3, <1>2, <1>18 DEF InStep
(* The caller's loop, which is one step on.                                *)
<1>19. ASSUME NEW b \in DOMAIN table, b # c PROVE InStep(b, p)'
  <2>1. InStep(b, p) /\ BuildTypeOK /\ table' = table /\ frames'[p] = Returned(p)
    BY <1>1, <1>2, <1>6, <1>7 DEF PartsInStep
  <2>2. Collects(p) => IsOffsets(cols[b][p])  BY <2>1 DEF InStep
  <2>3. /\ Len(cols'[b][p]) = Len(cols[b][p])
        /\ Collects(p) => IsOffsets(cols'[b][p]) /\ EndOf(cols'[b][p]) = EndOf(cols[b][p])
    <3>1. CASE b = b0
      <4>1. Len(p) <= Len(c) /\ p # c  BY <1>7
      <4> QED  BY <4>1, <3>1, <1>7, <1>12
    <3>2. CASE b # b0
      <4>1. cols'[b] = cols[b]  BY <3>2, <1>10, <1>19
      <4> QED  BY <4>1, <2>2
    <3> QED  BY <3>1, <3>2
  <2>4. ASSUME NEW k \in 1 .. table[p].parts
        PROVE  Len(cols'[b][Append(p, k)]) = Len(cols[b][Append(p, k)]) +
                 IF b = Buffer(p) /\ k = frames[p].next THEN 1 ELSE 0
    <3> DEFINE d == Append(p, k)
    <3>1. d \in DOMAIN table /\ Len(d) = Len(c) /\ Len(cols[b][d]) \in Nat
      <4>1. d \in DOMAIN table /\ Len(d) = Len(p) + 1  BY <1>7, <1>9
      <4> QED  BY <4>1, <1>7, <1>11
    <3>2. CASE b = b0 /\ k = frames[p].next
      <4>1. d = c  BY <3>2, <1>7
      <4>2. Len(cols'[b][d]) = Len(cols[b][d]) + 1  BY <4>1, <3>2, <1>10
      <4> QED  BY <4>2, <3>2, <1>7
    <3>3. CASE ~(b = b0 /\ k = frames[p].next)
      <4>1. Len(cols'[b][d]) = Len(cols[b][d])
        <5>1. CASE b = b0
          <6>1. d # c  BY <5>1, <3>3, <1>8
          <6>2. Len(d) <= Len(c)  BY <3>1, <1>7
          <6> HIDE DEF d
          <6> QED  BY <6>1, <6>2, <5>1, <3>1, <1>12
        <5>2. CASE b # b0
          <6>1. cols'[b] = cols[b]  BY <5>2, <1>10, <1>19
          <6> QED  BY <6>1
        <5> QED  BY <5>1, <5>2
      <4> HIDE DEF d
      <4>2. (IF b = Buffer(p) /\ k = frames[p].next THEN 1 ELSE 0) = 0  BY <3>3, <1>7
      <4>3. Len(cols'[b][d]) = Len(cols[b][d]) + 0  BY <3>1, <4>1
      <4> QED  BY <4>2, <4>3 DEF d
    <3> QED  BY <3>2, <3>3
  <2>5. frames[p].todo # <<>> /\ frames[p].next <= table[p].parts /\ p \in DOMAIN table
    BY <1>7, <1>9
  <2> QED  BY ONLY <2>1, <2>3, <2>4, <2>5, b \in DOMAIN table, InStepAfterReturn
(* Every other column: rows that are in step joined to rows that are.      *)
<1>20. ASSUME NEW b \in DOMAIN table, NEW n \in DOMAIN table, b # c, n # c, n # p
       PROVE  InStep(b, n)'
  <2>1. InStep(b, n) /\ InStep(c, n)  BY <1>1, <1>7 DEF PartsInStep
  <2>2. Collects(n) => IsOffsets(cols[b][n]) /\ IsOffsets(cols[c][n])  BY <2>1 DEF InStep
  <2>3. frames'[n] = frames[n]  BY <1>6, <1>20
  <2>4. \A k : Ahead(b, n, k)' = Ahead(b, n, k)  BY <2>3 DEF Ahead
  <2>5. CASE b # b0
    <3>1. cols'[b] = cols[b]  BY <2>5, <1>10, <1>20
    <3> QED  BY <3>1, <2>1, <2>2, <2>3, <2>4, <1>1, <1>2, InStepUntouched
  <2>6. CASE b = b0 /\ n = b0
    <3>1. Len(n) <= Len(c)  BY <2>6, <1>7
    <3>2. ASSUME NEW k \in 1 .. table[n].parts
          PROVE  Len(cols'[b][Append(n, k)]) = Len(cols[b][Append(n, k)])
      <4>1. Append(n, k) \in DOMAIN table /\ Len(Append(n, k)) = Len(n) + 1  BY <1>9
      <4>2. Append(n, k) # c  BY <1>8, <1>20
      <4>3. Len(Append(n, k)) <= Len(c)  BY <4>1, <2>6, <1>7
      <4> QED  BY <4>1, <4>2, <4>3, <2>6, <1>12
    <3>3. /\ Len(cols'[b][n]) = Len(cols[b][n])
          /\ Collects(n) => IsOffsets(cols'[b][n]) /\ EndOf(cols'[b][n]) = EndOf(cols[b][n])
      BY <3>1, <2>6, <1>12, <1>20
    <3>4. BuildTypeOK /\ table' = table /\ InStep(b, n)  BY <1>1, <1>2, <2>1
    <3> QED  BY ONLY <3>2, <3>3, <3>4, <2>3, <2>4, b \in DOMAIN table, n \in DOMAIN table,
                InStepUntouched
  <2>7. CASE b = b0 /\ n # b0
    <3>1. ASSUME NEW k \in 1 .. table[n].parts
          PROVE  /\ Len(cols'[b][Append(n, k)]) =
                      Len(cols[b][Append(n, k)]) + Len(cols[c][Append(n, k)])
                 /\ Len(cols[b][Append(n, k)]) \in Nat /\ Len(cols[c][Append(n, k)]) \in Nat
      <4>1. Append(n, k) \in DOMAIN table /\ Append(n, k) # c  BY <1>8, <1>9, <1>20
      <4> QED  BY <4>1, <2>7, <1>7, <1>10, <1>11
    <3>2. /\ Len(cols'[b][n]) = Len(cols[b][n]) + Len(cols[c][n])
          /\ Collects(n) => /\ IsOffsets(cols'[b][n])
                            /\ EndOf(cols'[b][n]) = EndOf(cols[b][n]) + EndOf(cols[c][n])
          /\ Len(cols[b][n]) \in Nat /\ Len(cols[c][n]) \in Nat
      BY <2>7, <1>7, <1>10, <1>11, <1>20
    <3>3. ASSUME table[n].code \in {"Nullable", "Tuple"}, NEW k \in 1 .. table[n].parts
          PROVE  Len(cols'[b][Append(n, k)]) = Len(cols'[b][n]) + Ahead(b, n, k)'
      <4>1. Len(cols[b][Append(n, k)]) = Len(cols[b][n]) + Ahead(b, n, k)
        BY <3>3, <2>1 DEF InStep
      <4>2. Len(cols[c][Append(n, k)]) = Len(cols[c][n]) + Ahead(c, n, k)
        BY <3>3, <2>1 DEF InStep
      <4>3. Len(cols[c][Append(n, k)]) = Len(cols[c][n])
        <5>1. Ahead(c, n, k) = 0  BY <1>16
        <5> QED  BY <5>1, <4>2, <3>2
      <4>4. Ahead(b, n, k) \in Nat  BY DEF Ahead
      <4>5. ASSUME NEW x \in Nat, NEW y \in Nat, NEW a \in Nat PROVE (x + a) + y = (x + y) + a
        OBVIOUS
      <4>6. Len(cols'[b][Append(n, k)]) = (Len(cols[b][n]) + Ahead(b, n, k)) + Len(cols[c][n])
        BY <4>1, <4>3, <3>1
      <4>7. Len(cols'[b][Append(n, k)]) = (Len(cols[b][n]) + Len(cols[c][n])) + Ahead(b, n, k)
        BY ONLY <4>4, <4>5, <4>6, <3>2
      <4> QED  BY <4>7, <3>2, <2>4
    <3>4. ASSUME Collects(n), NEW k \in 1 .. table[n].parts
          PROVE  Len(cols'[b][Append(n, k)]) = EndOf(cols'[b][n])
      <4>1. Len(cols[b][Append(n, k)]) = EndOf(cols[b][n])  BY <3>4, <2>1, <2>7 DEF InStep
      <4>2. Len(cols[c][Append(n, k)]) = EndOf(cols[c][n])  BY <3>4, <2>1, <1>20 DEF InStep
      <4> QED  BY <4>1, <4>2, <3>1, <3>2, <3>4
    <3>5. Collects(n)' <=> Collects(n)  BY <1>2 DEF Collects
    <3> QED  BY <3>2, <3>3, <3>4, <3>5, <2>7, <1>2 DEF InStep
  <2> QED  BY <2>5, <2>6, <2>7
<1>21. PartsInStep'
  <2>1. \A b, n \in DOMAIN table : InStep(b, n)'
    BY <1>17, <1>18, <1>19, <1>20
  <2> QED  BY <2>1, <1>2 DEF PartsInStep
<1> QED  BY <1>6, <1>13, <1>14, <1>15, <1>21 DEF BuildInv

LEMMA LeaveColumnKeepsInv == ASSUME BuildInv, LeaveColumn PROVE BuildInv'
<1> QED  BY LeaveInPlaceKeepsInv, LeaveAndJoinKeepsInv

-----------------------------------------------------------------------------
(* The invariant, and what it says of the block                            *)

LEMMA BuildInitInv == BuildInit => BuildInv
<1> SUFFICES ASSUME BuildInit PROVE BuildInv  OBVIOUS
<1>1. /\ table \in Tables /\ i = 1 /\ phase = "rows" /\ top = <<>>
      /\ frames = [n \in DOMAIN table |-> Idle]
      /\ cols = [n \in DOMAIN table |-> EmptyColumns(table)]
  BY DEF BuildInit
<1>2. PICK r \in Nat : rows \in [1 .. r -> RowsFor(table)]  BY MaxRowsAssumption DEF BuildInit
<1>3. TypeTree(table)  BY <1>1, TablesAssumption
<1>4. /\ <<>> \in DOMAIN table /\ DOMAIN table \subseteq Seq(Nat) /\ table[<<>>].code = "Tuple"
      /\ \A n \in DOMAIN table : table[n].parts \in Nat /\ Len(n) \in Nat
      /\ \A n \in DOMAIN table : \A k \in 1 .. table[n].parts : Append(n, k) \in DOMAIN table
      /\ \A n \in DOMAIN table : table[n].code = "Map" => table[n].parts = 2
  BY <1>3, TreeFacts DEF TypeTree
<1>5. /\ IsOffsets(<<>>) /\ EndOf(<<>>) = 0 /\ Len(<<>>) = 0 /\ IsList(<<>>)
      /\ \A ty : Holds(ty, <<>>)
  BY EmptyOffsets, EmptyHolds
<1>6. \A b, n \in DOMAIN table : cols[b][n] = <<>>  BY <1>1 DEF EmptyColumns
<1>7. BuildTypeOK
  <2>1. rows \in Seq(PhpValues)
    <3>1. RowsFor(table) \subseteq PhpValues  BY <1>1, ValuesAssumption
    <3>2. rows \in [1 .. r -> PhpValues]  BY <3>1, <1>2
    <3> QED  BY <3>2, SeqDef
  <2>2. frames \in [DOMAIN table -> Frame]
    <3>1. Null \in PhpValues  BY ValuesAssumption
    <3>2. <<>> \in Seq(PhpValues \X PhpValues)  BY EmptySeq
    <3>3. Idle \in Frame  BY <3>1, <3>2, <1>4 DEF Idle, Frame
    <3> QED  BY <3>3, <1>1
  <2>3. \A n \in DOMAIN table : frames[n].next \in 1 .. table[n].parts + 1
    BY <1>1, <1>4 DEF Idle
  <2>4. /\ DOMAIN cols = DOMAIN table
        /\ \A b \in DOMAIN table : DOMAIN cols[b] = DOMAIN table
    BY <1>1 DEF EmptyColumns
  <2>5. \A b, n \in DOMAIN table :
          IsList(cols[b][n]) /\ \A k \in DOMAIN cols[b][n] : Fits(table[n], cols[b][n][k])
    BY <1>5, <1>6 DEF Holds
  <2> QED  BY <2>1, <2>2, <2>3, <2>4, <2>5, <1>1, <1>3, <1>4 DEF BuildTypeOK, Frame
<1>8. \A n \in DOMAIN table : UnderWay(n) => n = <<>>
  BY <1>1, <1>4, <1>5, <1>7, UnderWayFacts
<1>9. CallsNest
  <2>1. \A n \in DOMAIN table : frames[n].next = 1  BY <1>1 DEF Idle
  <2> QED  BY <2>1, <1>1, <1>4, <1>8 DEF CallsNest
<1>10. RowLoop  BY <1>1, <1>4, <1>5, <1>6 DEF RowLoop, Idle
<1>11. OnlyBelow  BY <1>6 DEF OnlyBelow
<1>12. PartsInStep
  <2>1. ASSUME NEW b \in DOMAIN table, NEW n \in DOMAIN table PROVE InStep(b, n)
    <3>1. frames[n].next = 1  BY <1>1 DEF Idle
    <3>0. \A k \in 1 .. table[n].parts : k \in Nat \ {0}  BY <1>4
    <3>2. \A k \in 1 .. table[n].parts : Ahead(b, n, k) = 0
      BY ONLY <3>0, <3>1, AheadIsZero
    <3>3. \A k \in 1 .. table[n].parts : cols[b][Append(n, k)] = <<>>  BY <1>4, <1>6
    <3>4. cols[b][n] = <<>>  BY <1>6
    <3>5. table[n].code = "Map" => 1 \in 1 .. table[n].parts /\ 2 \in 1 .. table[n].parts
      BY <1>4
    <3>6. \A k \in 1 .. table[n].parts :
            Len(cols[b][Append(n, k)]) = Len(cols[b][n]) + Ahead(b, n, k)
      BY <3>2, <3>3, <3>4, <1>5
    <3>7. table[n].code = "Map" =>
            Len(cols[b][Append(n, 1)]) = Len(cols[b][Append(n, 2)]) + IF frames[n].next = 2 THEN 1 ELSE 0
      BY <3>1, <3>3, <3>5, <1>5
    <3> QED  BY <3>3, <3>4, <3>6, <3>7, <1>5 DEF InStep
  <2> QED  BY <2>1 DEF PartsInStep
<1> QED  BY <1>7, <1>9, <1>10, <1>11, <1>12 DEF BuildInv

LEMMA BuildStepInv == BuildInv /\ [BuildNext]_buildVars => BuildInv'
<1> SUFFICES ASSUME BuildInv, [BuildNext]_buildVars PROVE BuildInv'  OBVIOUS
<1>1. CASE TakeRow  BY <1>1, TakeRowKeepsInv
<1>2. CASE AppendCell  BY <1>2, AppendCellKeepsInv
<1>3. CASE EnterColumn  BY <1>3, EnterColumnKeepsInv
<1>4. CASE LeaveColumn  BY <1>4, LeaveColumnKeepsInv
<1>5. CASE EndRow  BY <1>5, EndRowKeepsInv
<1>6. CASE Throw \/ SendInsertBlock  BY <1>6, EndOfBuildKeepsInv
<1>7. CASE UNCHANGED buildVars
  <2>1. /\ table' = table /\ rows' = rows /\ i' = i /\ phase' = phase /\ top' = top
        /\ frames' = frames /\ cols' = cols
    BY <1>7 DEF buildVars
  <2>2. BuildTypeOK' /\ CallsNest' /\ RowLoop' /\ OnlyBelow'
    <3>1. BuildTypeOK'  BY <2>1 DEF BuildInv, BuildTypeOK
    <3>2. CallsNest'  BY <2>1 DEF BuildInv, CallsNest, UnderWay, Buffer, Collects
    <3>3. RowLoop'  BY <2>1 DEF BuildInv, RowLoop
    <3>4. OnlyBelow'  BY <2>1 DEF BuildInv, OnlyBelow
    <3> QED  BY <3>1, <3>2, <3>3, <3>4
  <2>3. PartsInStep'
    <3>1. BuildTypeOK /\ PartsInStep  BY DEF BuildInv
    <3>2. ASSUME NEW b \in DOMAIN table, NEW n \in DOMAIN table PROVE InStep(b, n)'
      <4>1. InStep(b, n)  BY <3>1 DEF PartsInStep
      <4>2. \A k : Ahead(b, n, k)' = Ahead(b, n, k)  BY <2>1 DEF Ahead
      <4>3. Collects(n) => IsOffsets(cols[b][n])  BY <4>1 DEF InStep
      <4> QED  BY <4>1, <4>2, <4>3, <3>1, <2>1, InStepUntouched
    <3> QED  BY <3>2, <2>1 DEF PartsInStep
  <2> QED  BY <2>2, <2>3 DEF BuildInv
<1> QED  BY <1>1, <1>2, <1>3, <1>4, <1>5, <1>6, <1>7 DEF BuildNext

(* ch_append_value, call by call: a throw at any point apart, every column *)
(* holds cells of its type, the calls under way are nested, and in the     *)
(* block and in every temporary each part of a column has a row for each   *)
(* row of the column, one more where the call under way has been, and none *)
(* where nothing is collected.                                             *)
THEOREM BlockIsBuiltInStep == BuildSpec => []BuildInv
<1>1. BuildInit => BuildInv  BY BuildInitInv
<1>2. BuildInv /\ [BuildNext]_buildVars => BuildInv'  BY BuildStepInv
<1> QED  BY <1>1, <1>2, PTL DEF BuildSpec

LEMMA InStepIsAligned == BuildInv => BlockIsAligned
<1> SUFFICES ASSUME BuildInv, top = <<>>, phase \in {"rows", "cells", "sent"}
             PROVE  /\ \A k \in 1 .. table[<<>>].parts :
                         Len(cols[<<>>][<<k>>]) =
                           (i - 1) + IF k < frames[<<>>].next THEN 1 ELSE 0
                    /\ \A n \in DOMAIN table \ {<<>>} : \A k \in 1 .. table[n].parts :
                         Len(cols[<<>>][Append(n, k)]) =
                           IF Collects(n) THEN EndOf(cols[<<>>][n]) ELSE Len(cols[<<>>][n])
  BY DEF BlockIsAligned
<1>1. BuildTypeOK /\ CallsNest /\ RowLoop /\ PartsInStep  BY DEF BuildInv
<1>2. /\ <<>> \in DOMAIN table /\ table[<<>>].code = "Tuple"
      /\ \A n \in DOMAIN table : table[n].parts \in Nat /\ Len(n) \in Nat
      /\ Len(<<>>) = 0
  BY <1>1, PathsOfTable, EmptySeq
<1>3. \A n \in DOMAIN table : \A k \in 1 .. table[n].parts : k \in Nat \ {0}
  BY <1>2
<1>4. ASSUME NEW k \in 1 .. table[<<>>].parts
      PROVE  Len(cols[<<>>][<<k>>]) = (i - 1) + IF k < frames[<<>>].next THEN 1 ELSE 0
  <2>1. InStep(<<>>, <<>>)  BY <1>1, <1>2 DEF PartsInStep
  <2>2. Len(cols[<<>>][Append(<<>>, k)]) = Len(cols[<<>>][<<>>]) + Ahead(<<>>, <<>>, k)
    BY <2>1, <1>2 DEF InStep
  <2>3. Append(<<>>, k) = <<k>>  OBVIOUS
  <2>4. Len(cols[<<>>][<<>>]) = i - 1 /\ frames[<<>>].into = <<>>  BY <1>1 DEF RowLoop
  <2> QED  BY <2>2, <2>3, <2>4 DEF Ahead
<1>5. ASSUME NEW n \in DOMAIN table \ {<<>>}, NEW k \in 1 .. table[n].parts
      PROVE  Len(cols[<<>>][Append(n, k)]) =
               IF Collects(n) THEN EndOf(cols[<<>>][n]) ELSE Len(cols[<<>>][n])
  <2>1. InStep(<<>>, n)  BY <1>1, <1>2 DEF PartsInStep
  <2>2. frames[n].next = 1
    <3>1. ~UnderWay(n)  BY <1>1, <1>2, UnderWayFacts
    <3> QED  BY <3>1, <1>1 DEF CallsNest
  <2>3. Ahead(<<>>, n, k) = 0  BY <2>2, <1>3, AheadIsZero
  <2>4. Len(cols[<<>>][n]) \in Nat  BY <1>1, <1>2, ColumnFacts
  <2>5. CASE Collects(n)  BY <2>1, <2>5 DEF InStep
  <2>6. CASE ~Collects(n)
    <3>1. table[n].code \in {"Nullable", "Tuple"}
      <4>1. table[n].code \in {"Nullable", "Array", "Tuple", "Map"}
        BY <1>1, <1>2, PartFacts
      <4> QED  BY <4>1, <2>6 DEF Collects
    <3>2. Len(cols[<<>>][Append(n, k)]) = Len(cols[<<>>][n]) + 0  BY <3>1, <2>1, <2>3 DEF InStep
    <3> QED  BY <3>2, <2>4, <2>6
  <2> QED  BY <2>5, <2>6
<1> QED  BY <1>4, <1>5

(* Between two cells of the loop of ch_send_block, and in the block that   *)
(* is sent, all columns have the rows that were taken, whatever the tree   *)
(* of types, the rows and the point where a value is refused: null flags   *)
(* and nested cells, offsets and elements, keys and values agree.          *)
THEOREM BlockIsAlwaysAligned == BuildSpec => []BlockIsAligned
<1>1. BuildSpec => []BuildInv  BY BlockIsBuiltInStep
<1>2. BuildInv => BlockIsAligned  BY InStepIsAligned
<1> QED  BY <1>1, <1>2, PTL

-----------------------------------------------------------------------------
(* Numbers and times in scalar columns                                     *)

LEMMA ProductOrder ==
  ASSUME NEW a \in Int, NEW b \in Int, NEW s \in Nat, a <= b
  PROVE  a * s <= b * s
<1>1. PICK d \in Nat : b = a + d
  <2>1. b - a \in Nat /\ b = a + (b - a)  OBVIOUS
  <2> QED  BY <2>1
<1>2. b * s = a * s + d * s  BY <1>1
<1>3. d * s \in Nat  BY <1>1
<1>4. a * s \in Int  OBVIOUS
<1> QED  BY <1>2, <1>3, <1>4

LEMMA DivisionFacts ==
  ASSUME NEW a \in Nat, NEW b \in Nat \ {0}
  PROVE  a \div b \in Nat /\ (a \div b) * b <= a /\ a < (a \div b) * b + b
<1> QED  OBVIOUS

(* Quotient and rest are determined.                                       *)
LEMMA QuotientIsUnique ==
  ASSUME NEW s \in Nat \ {0}, NEW q \in Int, NEW u \in Int,
         NEW r \in 0 .. s - 1, NEW t \in 0 .. s - 1, q * s + r = u * s + t
  PROVE  q = u /\ r = t
<1>1. q * s \in Int /\ u * s \in Int /\ (q + 1) * s = q * s + s /\ (u + 1) * s = u * s + s
  OBVIOUS
<1>2. ~(q < u)
  <2> SUFFICES ASSUME q < u PROVE FALSE  OBVIOUS
  <2>1. q + 1 <= u /\ q + 1 \in Int  OBVIOUS
  <2>2. (q + 1) * s <= u * s  BY <2>1, ProductOrder
  <2> QED  BY <2>2, <1>1
<1>3. ~(u < q)
  <2> SUFFICES ASSUME u < q PROVE FALSE  OBVIOUS
  <2>1. u + 1 <= q /\ u + 1 \in Int  OBVIOUS
  <2>2. (u + 1) * s <= q * s  BY <2>1, ProductOrder
  <2> QED  BY <2>2, <1>1
<1>4. q = u  BY <1>2, <1>3
<1> QED  BY <1>4, <1>1

(* Ticks are shown by rounding down: the second is the one that the ticks  *)
(* are in, and the rest is not negative.                                   *)
LEMMA TicksOfTime ==
  ASSUME NEW ticks \in Int, NEW scale \in Nat \ {0}
  PROVE  \E sec \in Int : \E frac \in 0 .. scale - 1 :
           /\ ticks = sec * scale + frac
           /\ ToTime(ticks, scale) =
                Time(sec, IF scale > 1 THEN (frac * MicrosPerSecond) \div scale ELSE 0)
<1> DEFINE quot == Quot(ticks, scale)
           rem == ticks - quot * scale
           sec == IF rem < 0 THEN quot - 1 ELSE quot
           frac == IF rem < 0 THEN rem + scale ELSE rem
<1>1. quot \in Int /\ rem \in Int /\ - scale < rem /\ rem < scale /\ ticks = quot * scale + rem
  <2>1. CASE ticks < 0
    <3>1. quot = - ((- ticks) \div scale)  BY <2>1 DEF Quot
    <3>2. PICK q : q = (- ticks) \div scale  OBVIOUS
    <3>3. q \in Nat /\ q * scale <= - ticks /\ - ticks < q * scale + scale
      BY <3>2, <2>1, DivisionFacts
    <3>4. quot = - q /\ (- q) * scale = - (q * scale) /\ q * scale \in Int
      BY <3>1, <3>2, <3>3
    <3> QED  BY <3>3, <3>4
  <2>2. CASE ~(ticks < 0)
    <3>1. quot = ticks \div scale  BY <2>2 DEF Quot
    <3>2. PICK q : q = ticks \div scale  OBVIOUS
    <3>3. q \in Nat /\ q * scale <= ticks /\ ticks < q * scale + scale /\ q * scale \in Int
      BY <3>2, <2>2, DivisionFacts
    <3> QED  BY <3>1, <3>2, <3>3
  <2> QED  BY <2>1, <2>2
<1>2. sec \in Int /\ frac \in 0 .. scale - 1 /\ ticks = sec * scale + frac
  <2> HIDE DEF quot, rem
  <2>1. (quot - 1) * scale = quot * scale - scale /\ quot * scale \in Int  BY <1>1
  <2>2. CASE rem < 0  BY <2>1, <2>2, <1>1
  <2>3. CASE ~(rem < 0)  BY <2>1, <2>3, <1>1
  <2> QED  BY <2>2, <2>3
<1>3. ToTime(ticks, scale) =
        Time(sec, IF scale > 1 THEN (frac * MicrosPerSecond) \div scale ELSE 0)
  BY DEF ToTime
<1> HIDE DEF sec, frac
<1> QED  BY <1>2, <1>3

LEMMA MicrosAreInRange ==
  ASSUME NEW scale \in Nat \ {0}, NEW frac \in 0 .. scale - 1, NEW us,
         us = IF scale > 1 THEN (frac * MicrosPerSecond) \div scale ELSE 0
  PROVE  /\ us \in 0 .. MicrosPerSecond - 1
         /\ us * scale <= frac * MicrosPerSecond
         /\ frac * MicrosPerSecond < us * scale + scale
<1> DEFINE M == MicrosPerSecond
<1>1. M \in Nat \ {0}  BY WidthAssumption
<1> HIDE DEF M
<1>2. frac \in Nat /\ frac * M \in Nat  BY <1>1
<1>3. us = (frac * M) \div scale
  <2>1. CASE scale > 1  BY <2>1 DEF M
  <2>2. CASE ~(scale > 1)
    <3>1. scale = 1 /\ frac = 0  BY <2>2
    <3>2. frac * M = 0  BY <3>1, <1>1
    <3>3. 0 \div scale = 0  BY <3>1
    <3> QED  BY <2>2, <3>2, <3>3
  <2> QED  BY <2>1, <2>2
<1>4. us \in Nat /\ us * scale <= frac * M /\ frac * M < us * scale + scale
  <2>1. ASSUME NEW x \in Nat
        PROVE  x \div scale \in Nat /\ (x \div scale) * scale <= x /\ x < (x \div scale) * scale + scale
    BY DivisionFacts
  <2> QED  BY ONLY <2>1, <1>2, <1>3
<1>5. us < M
  <2> SUFFICES ASSUME ~(us < M) PROVE FALSE  OBVIOUS
  <2>1. M <= us  BY <1>1, <1>4
  <2>2. M * scale <= us * scale  BY <2>1, <1>1, <1>4, ProductOrder
  <2>3. (frac + 1) * M <= scale * M
    <3>1. frac + 1 <= scale /\ frac + 1 \in Int  OBVIOUS
    <3> QED  BY <3>1, <1>1, ProductOrder
  <2>4. (frac + 1) * M = frac * M + M /\ scale * M = M * scale /\ M * scale \in Int
    BY <1>1, <1>2
  <2> QED  BY <2>2, <2>3, <2>4, <1>1, <1>2, <1>4
<1> QED  BY <1>1, <1>4, <1>5 DEF M

(* The cast to a double goes half the distance of two doubles at most, and *)
(* never below zero.                                                       *)
LEMMA DoubleIsNear ==
  ASSUME NEW n \in Nat
  PROVE  /\ ToDouble(n) \in Nat
         /\ 2 * ToDouble(n) - 2 * n <= FloatStep /\ 2 * n - 2 * ToDouble(n) <= FloatStep
<1>1. PICK s \in Nat \ {0} : s = FloatStep  BY WidthAssumption
<1>2. PICK below : below = n \div s  OBVIOUS
<1>3. below \in Nat /\ below * s <= n /\ n < below * s + s  BY <1>2, DivisionFacts
<1>4. PICK p : p = below * s  OBVIOUS
<1>5. p \in Nat /\ (below + 1) * s = p + s  BY <1>3, <1>4
<1>6. \/ ToDouble(n) = p + s /\ 2 * (n - p) >= s
      \/ ToDouble(n) = p /\ ~(2 * (n - p) > s)
  <2>1. CASE 2 * (n - p) > s \/ (2 * (n - p) = s /\ below % 2 = 1)
    <3>1. ToDouble(n) = p + s  BY <2>1, <1>1, <1>2, <1>4, <1>5 DEF ToDouble
    <3> QED  BY <3>1, <2>1, <1>5
  <2>2. CASE ~(2 * (n - p) > s \/ (2 * (n - p) = s /\ below % 2 = 1))
    <3>1. ToDouble(n) = p  BY <2>2, <1>1, <1>2, <1>4, <1>5 DEF ToDouble
    <3> QED  BY <3>1, <2>2
  <2> QED  BY <2>1, <2>2
<1>7. p <= n /\ n < p + s  BY <1>3, <1>4
<1> QED  BY ONLY <1>1, <1>5, <1>6, <1>7, n \in Nat, s \in Nat \ {0}

(* What is stored is shown: an unsigned number as it is up to PHP_INT_MAX, *)
(* and beyond as a float at most half the distance of two doubles away,    *)
(* never negative; any int64 of ticks, before 1970 too, as the microsecond *)
(* that the stored instant lies in.                                        *)
THEOREM StoredCellsAreShown ==
  ASSUME NEW ty, NEW cell \in Int, ty.code \in {"UInt", "DateTime64"},
         ty.code = "UInt" => cell \in Nat,
         ty.code = "DateTime64" => ty.scale \in Nat \ {0}
  PROVE  ShownCell(ty, cell, Decoded(ty, cell))
<1>1. CASE ty.code = "UInt"
  <2>1. Decoded(ty, cell) = Unsigned(cell)  BY <1>1 DEF Decoded
  <2>2. CASE IsLong(cell)
    <3>1. Unsigned(cell) = Long(cell)  BY <2>2 DEF Unsigned
    <3> QED  BY <2>1, <2>2, <3>1, <1>1 DEF ShownCell
  <2>3. CASE ~IsLong(cell)
    <3>1. PICK n : n = ToDouble(cell)  OBVIOUS
    <3>2. n \in Nat /\ 2 * n - 2 * cell <= FloatStep /\ 2 * cell - 2 * n <= FloatStep
      BY <3>1, <1>1, DoubleIsNear
    <3>3. PICK w : w = Decoded(ty, cell)  OBVIOUS
    <3>4. Kind(w) = "float" /\ w[2][1] = n /\ w[2][2] = 1
      BY <2>1, <2>3, <3>1, <3>3 DEF Unsigned, Float, Kind
    <3>5. ShownCell(ty, cell, w) <=>
            /\ Kind(w) = "float" /\ w[2][1] >= 0 /\ w[2][2] = 1
            /\ 2 * w[2][1] - 2 * cell <= FloatStep /\ 2 * cell - 2 * w[2][1] <= FloatStep
      BY ONLY <2>3, <1>1 DEF ShownCell
    <3> QED  BY <3>2, <3>3, <3>4, <3>5
  <2> QED  BY <2>2, <2>3
<1>2. CASE ty.code = "DateTime64"
  <2> DEFINE M == MicrosPerSecond
             w == Decoded(ty, cell)
  <2>1. M \in Nat \ {0}  BY WidthAssumption
  <2>2. PICK s \in Nat \ {0} : s = ty.scale  BY <1>2
  <2>3. w = ToTime(cell, s)  BY <1>2, <2>2 DEF Decoded
  <2>4. PICK sec \in Int, frac \in 0 .. s - 1 :
          /\ cell = sec * s + frac
          /\ ToTime(cell, s) = Time(sec, IF s > 1 THEN (frac * MicrosPerSecond) \div s ELSE 0)
    BY TicksOfTime
  <2>5. PICK us : us = IF s > 1 THEN (frac * MicrosPerSecond) \div s ELSE 0  OBVIOUS
  <2>6. /\ us \in 0 .. M - 1 /\ us * s <= frac * M /\ frac * M < us * s + s
    BY <2>5, MicrosAreInRange
  <2>7. w[2][1] = sec /\ w[2][2] = us  BY <2>3, <2>4, <2>5 DEF Time
  <2>8. Micros(w) = sec * M + us  BY <2>7 DEF Micros
  <2> HIDE DEF M, w
  <2>9. /\ (sec * M + us) * s = (sec * s) * M + us * s
        /\ (sec * M + us + 1) * s = (sec * s) * M + us * s + s
        /\ cell * M = (sec * s) * M + frac * M
        /\ (sec * s) * M \in Int /\ us * s \in Nat /\ frac * M \in Nat
    <3>1. us \in Int /\ frac \in Int /\ s \in Int /\ sec \in Int /\ M \in Int /\ us \in Nat /\ frac \in Nat
      BY <2>1, <2>6
    <3>2. (sec * M + us) * s = (sec * s) * M + us * s  BY ONLY <3>1
    <3>3. (sec * M + us + 1) * s = (sec * s) * M + us * s + s  BY ONLY <3>1
    <3>4. (sec * s + frac) * M = (sec * s) * M + frac * M  BY ONLY <3>1
    <3>5. (sec * s) * M \in Int  BY ONLY <3>1
    <3>6. us * s \in Nat /\ frac * M \in Nat  BY ONLY <3>1, <2>1, s \in Nat \ {0}
    <3> QED  BY <3>2, <3>3, <3>4, <3>5, <3>6, <2>4
  <2>10. Micros(w) * s <= cell * M /\ cell * M < (Micros(w) + 1) * s
    BY <2>6, <2>8, <2>9
  <2> QED  BY <2>2, <2>6, <2>7, <2>10, <1>2 DEF ShownCell, M, w
<1> QED  BY <1>1, <1>2

LEMMA Cancel ==
  ASSUME NEW a \in Int, NEW b \in Int, NEW s \in Nat, a * s < b * s
  PROVE  a < b
<1>1. a * s \in Int /\ b * s \in Int  OBVIOUS
<1>2. ~(b <= a)
  <2> SUFFICES ASSUME b <= a PROVE FALSE  OBVIOUS
  <2>1. b * s <= a * s  BY ProductOrder
  <2> QED  BY <2>1, <1>1
<1> QED  BY <1>2

(* The only multiple among s numbers from a multiple on.                   *)
LEMMA MultipleInRange ==
  ASSUME NEW s \in Nat \ {0}, NEW p \in Int, NEW u \in Int, NEW x \in Int,
         x = p * s, u * s <= x, x < u * s + s
  PROVE  x = u * s
<1>1. PICK r : r = x - u * s  OBVIOUS
<1>2. u * s \in Int  OBVIOUS
<1>3. r \in 0 .. s - 1 /\ 0 \in 0 .. s - 1  BY <1>1, <1>2
<1>4. p * s + 0 = u * s + r  BY <1>1, <1>2
<1>5. 0 = r  BY ONLY <1>3, <1>4, QuotientIsUnique, s \in Nat \ {0}, p \in Int, u \in Int
<1> QED  BY <1>1, <1>2, <1>5

(* A PHP integer that the column can hold comes back as it was; an integer *)
(* written to a column of times comes back as that second, if its ticks    *)
(* are an int64.                                                           *)
THEOREM NumbersReadBack ==
  ASSUME NEW ty, ty.code \in {"Int", "UInt", "DateTime", "DateTime64"},
         ty.code = "Int" => ty.half \in Nat \ {0},
         ty.code \in {"UInt", "DateTime"} => ty.size \in Nat \ {0},
         ty.code = "DateTime64" => ty.scale \in Nat \ {0},
         NEW n \in Int, IsLong(n)
  PROVE  SameCell(ty, Long(n), Decoded(ty, Encoded(ty, Long(n))))
<1> DEFINE v == Long(n)
<1>1. Kind(v) = "int" /\ v[2] = n /\ v = <<"int", n>>  BY DEF Long, Kind
<1>2. ToLong(v) = n  BY <1>1 DEF ToLong, Deref
<1>3. Timestamp(v) = n  BY <1>1, <1>2 DEF Timestamp
<1>4. ASSUME NEW d \in Nat \ {0}, 0 <= n, n < d PROVE n % d = n  BY <1>4
<1> HIDE DEF v
<1>5. CASE ty.code = "Int"
  <2>1. Encoded(ty, v) = Wrapped(n, ty.half)  BY <1>2, <1>5 DEF Encoded
  <2>2. InColumn(ty, n) => Wrapped(n, ty.half) = n  BY <1>5, WrappedFacts DEF InColumn
  <2>3. InColumn(ty, n) => Decoded(ty, Encoded(ty, v)) = Long(n)
    BY <2>1, <2>2, <1>5 DEF Decoded
  <2> QED  BY <2>3, <1>1, <1>5 DEF SameCell, Long
<1>6. CASE ty.code = "UInt"
  <2>1. Encoded(ty, v) = n % ty.size  BY <1>2, <1>6 DEF Encoded
  <2>2. InColumn(ty, n) => n % ty.size = n  BY <1>4, <1>6 DEF InColumn
  <2>3. InColumn(ty, n) => Decoded(ty, Encoded(ty, v)) = Long(n)
    BY <2>1, <2>2, <1>6 DEF Decoded, Unsigned
  <2> QED  BY <2>3, <1>1, <1>6 DEF SameCell, Long
<1>7. CASE ty.code = "DateTime"
  <2>1. Encoded(ty, v) = n % ty.size  BY <1>3, <1>7 DEF Encoded
  <2>2. InColumn(ty, n) => n % ty.size = n  BY <1>4, <1>7 DEF InColumn
  <2>3. InColumn(ty, n) => Decoded(ty, Encoded(ty, v)) = Time(n, 0)
    BY <2>1, <2>2, <1>7 DEF Decoded
  <2>4. PICK w : w = Decoded(ty, Encoded(ty, v))  OBVIOUS
  <2>5. SameCell(ty, v, w) <=> (InColumn(ty, Timestamp(v)) => w = Time(Timestamp(v), 0))
    BY ONLY <1>7 DEF SameCell
  <2>6. SameCell(ty, v, w)  BY <2>3, <2>4, <2>5, <1>3
  <2> QED  BY <2>4, <2>6 DEF v
<1>8. CASE ty.code = "DateTime64"
  <2>1. PICK s \in Nat \ {0} : s = ty.scale  BY <1>8
  <2>0. WholeTicks(v, s) = n * s  BY <1>1, <1>2 DEF WholeTicks
  <2>2. IsTicks(n * s) => Encoded(ty, v) = n * s  BY <1>8, <2>0, <2>1 DEF Encoded, Ticks
  <2>3. PICK ticks \in Int : ticks = n * s  OBVIOUS
  <2>4. PICK sec \in Int, frac \in 0 .. s - 1 :
          /\ ticks = sec * s + frac
          /\ ToTime(ticks, s) = Time(sec, IF s > 1 THEN (frac * MicrosPerSecond) \div s ELSE 0)
    BY TicksOfTime
  <2>5. 0 \in 0 .. s - 1 /\ sec * s + frac = n * s + 0  BY <2>3, <2>4
  <2>6. sec = n /\ frac = 0  BY ONLY <2>5, QuotientIsUnique, s \in Nat \ {0}, sec \in Int,
                                n \in Int, frac \in 0 .. s - 1
  <2>7. (IF s > 1 THEN (frac * MicrosPerSecond) \div s ELSE 0) = 0
    <3>1. frac * MicrosPerSecond = 0  BY <2>6, WidthAssumption
    <3>2. 0 \div s = 0  OBVIOUS
    <3> QED  BY <3>1, <3>2
  <2>8. IsTicks(n * s) => Decoded(ty, Encoded(ty, v)) = Time(n, 0)
    BY <2>1, <2>2, <2>3, <2>4, <2>6, <2>7, <1>8 DEF Decoded
  <2>9. PICK w : w = Decoded(ty, Encoded(ty, v))  OBVIOUS
  <2>10. SameCell(ty, v, w) <=> (IsTicks(WholeTicks(v, s)) => SameTime(ty, v, w))
    BY ONLY <2>1, <1>8 DEF SameCell
  <2>11. IsTicks(n * s) => SameTime(ty, v, w)
    <3> SUFFICES ASSUME IsTicks(n * s) PROVE SameTime(ty, v, w)  OBVIOUS
    <3>1. w = Time(n, 0) /\ w[2][2] = 0  BY <2>8, <2>9 DEF Time
    <3>2. 0 \in 0 .. MicrosPerSecond - 1  BY WidthAssumption
    <3> QED  BY <3>1, <3>2, <1>1 DEF SameTime
  <2>12. SameCell(ty, v, w)  BY <2>0, <2>10, <2>11
  <2> QED  BY <2>9, <2>12 DEF v
<1> QED  BY <1>5, <1>6, <1>7, <1>8 DEF v

(* A time before or after 1970 comes back as the last tick of the column   *)
(* that it has reached, if an int64 holds its ticks: what is lost is less  *)
(* than a tick.  The scale of a                                            *)
(* column, a power of ten, divides the microseconds or is a multiple.      *)
THEOREM TimesReadBack ==
  ASSUME NEW ty, ty.code = "DateTime64", ty.scale \in Nat \ {0},
         \E d \in Nat \ {0} : \/ MicrosPerSecond = d * ty.scale
                              \/ ty.scale = d * MicrosPerSecond,
         NEW sec \in Int, NEW us \in 0 .. MicrosPerSecond - 1
  PROVE  SameCell(ty, Time(sec, us), Decoded(ty, Encoded(ty, Time(sec, us))))
<1> DEFINE M == MicrosPerSecond
           v == Time(sec, us)
           w == Decoded(ty, Encoded(ty, v))
<1>1. M \in Nat \ {0}  BY WidthAssumption
<1>2. PICK s \in Nat \ {0} : s = ty.scale  OBVIOUS
<1>3. PICK d \in Nat \ {0} : M = d * s \/ s = d * M  BY <1>2
<1>4. Kind(v) = "time" /\ v[2][1] = sec /\ v[2][2] = us  BY DEF Time, Kind
<1>0. WholeTicks(v, s) = sec * s + (us * s) \div M  BY <1>4 DEF WholeTicks
<1>5. IsTicks(WholeTicks(v, s)) => Encoded(ty, v) = sec * s + (us * s) \div M
  BY <1>0, <1>2 DEF Encoded, Ticks
<1> HIDE DEF M, v
<1>6. us \in Nat /\ us < M /\ us * s \in Nat  BY <1>1 DEF M
<1>7. PICK t : t = (us * s) \div M  OBVIOUS
<1>8. t \in Nat /\ t * M <= us * s /\ us * s < t * M + M
  BY <1>1, <1>6, <1>7, DivisionFacts
<1>9. t < s
  <2>1. us * s < M * s
    <3>1. us + 1 <= M /\ us + 1 \in Int  BY <1>1, <1>6
    <3>2. (us + 1) * s <= M * s  BY <3>1, <1>1, ProductOrder
    <3>3. (us + 1) * s = us * s + s  BY <1>6
    <3>4. M * s \in Int  BY <1>1
    <3> QED  BY <3>2, <3>3, <3>4, <1>6
  <2>2. t * M < s * M
    <3>1. t * M \in Int /\ M * s \in Int /\ M * s = s * M  BY <1>1, <1>8
    <3> QED  BY <3>1, <2>1, <1>6, <1>8
  <2> QED  BY <2>2, <1>1, <1>8, Cancel
<1>10. t \in 0 .. s - 1  BY <1>8, <1>9
<1>11. PICK ticks \in Int : ticks = sec * s + t  BY <1>8
<1>12. PICK q \in Int, f \in 0 .. s - 1 :
         /\ ticks = q * s + f
         /\ ToTime(ticks, s) = Time(q, IF s > 1 THEN (f * MicrosPerSecond) \div s ELSE 0)
  BY TicksOfTime
<1>13. q = sec /\ f = t
  <2>1. q * s + f = sec * s + t  BY <1>11, <1>12
  <2> QED  BY ONLY <2>1, <1>10, QuotientIsUnique, s \in Nat \ {0}, q \in Int,
                   sec \in Int, f \in 0 .. s - 1
<1>14. PICK u : u = IF s > 1 THEN (f * MicrosPerSecond) \div s ELSE 0  OBVIOUS
<1>15. u \in 0 .. M - 1 /\ u * s <= t * M /\ t * M < u * s + s
  BY <1>13, <1>14, MicrosAreInRange DEF M
<1>16. IsTicks(WholeTicks(v, s)) => w = Time(sec, u)
  <2> SUFFICES ASSUME IsTicks(WholeTicks(v, s)) PROVE w = Time(sec, u)  OBVIOUS
  <2>1. w = ToTime(ticks, s)  BY <1>2, <1>5, <1>7, <1>11 DEF Decoded
  <2> QED  BY <2>1, <1>12, <1>13, <1>14
<1> HIDE DEF w
<1>17. u <= us /\ (us - u) * s < M
  <2>1. /\ u \in Nat /\ us \in Nat /\ s \in Nat /\ t \in Nat /\ M \in Nat /\ d \in Nat
        /\ u * s \in Nat /\ t * M \in Nat /\ us * s \in Nat
    BY <1>1, <1>6, <1>8, <1>15
  <2>2. (us - u) * s = us * s - u * s  BY ONLY <2>1
  <2>3. CASE M = d * s
    <3>1. t * M = (t * d) * s /\ t * d \in Nat  BY ONLY <2>1, <2>3
    <3>2. PICK p \in Nat : t * M = p * s  BY ONLY <3>1
    <3>3. t * M = u * s
      <4>1. p \in Int /\ u \in Int /\ t * M \in Int  BY ONLY <2>1, p \in Nat
      <4> QED  BY ONLY <4>1, <3>2, <1>15, MultipleInRange, s \in Nat \ {0}
    <3>4. (us - u) * s < M  BY ONLY <3>3, <2>1, <2>2, <1>8
    <3>5. u * s < (us + 1) * s
      <4>1. (us + 1) * s = us * s + s  BY ONLY <2>1
      <4> QED  BY ONLY <4>1, <3>3, <2>1, <1>8, s \in Nat \ {0}
    <3>6. u < us + 1
      <4>1. us + 1 \in Int /\ u \in Int /\ s \in Nat  BY ONLY <2>1
      <4> QED  BY ONLY <4>1, <3>5, Cancel
    <3> QED  BY ONLY <3>4, <3>6, <2>1
  <2>4. CASE s = d * M
    <3>1. us * s = (us * d) * M /\ us * d \in Nat  BY ONLY <2>1, <2>4
    <3>2. PICK p \in Nat : us * s = p * M  BY ONLY <3>1
    <3>3. us * s = t * M
      <4>1. p \in Int /\ t \in Int /\ us * s \in Int  BY ONLY <2>1, p \in Nat
      <4> QED  BY ONLY <4>1, <3>2, <1>1, <1>8, MultipleInRange
    <3>4. us * s = u * s
      <4>1. us \in Int /\ u \in Int /\ us * s \in Int  BY ONLY <2>1
      <4>2. u * s <= us * s /\ us * s < u * s + s  BY ONLY <3>3, <1>15
      <4> QED  BY ONLY <4>1, <4>2, MultipleInRange, s \in Nat \ {0}
    <3>5. ~(us < u)
      <4> SUFFICES ASSUME us < u PROVE FALSE  OBVIOUS
      <4>1. us + 1 <= u /\ us + 1 \in Int /\ u \in Int  BY ONLY us < u, <2>1
      <4>2. (us + 1) * s <= u * s  BY ONLY <4>1, <2>1, ProductOrder
      <4>3. (us + 1) * s = us * s + s  BY ONLY <2>1
      <4> QED  BY ONLY <4>2, <4>3, <3>4, <2>1, s \in Nat \ {0}
    <3>6. (us - u) * s < M  BY ONLY <3>4, <2>1, <2>2, <1>1
    <3> QED  BY ONLY <3>5, <3>6, <2>1
  <2> QED  BY <2>3, <2>4, <1>3
<1>18. IsTicks(WholeTicks(v, s)) =>
         /\ w[2][2] \in 0 .. M - 1 /\ Micros(w) <= Micros(v)
         /\ (Micros(v) - Micros(w)) * s < M
  <2> SUFFICES ASSUME IsTicks(WholeTicks(v, s))
               PROVE  /\ w[2][2] \in 0 .. M - 1 /\ Micros(w) <= Micros(v)
                      /\ (Micros(v) - Micros(w)) * s < M
    OBVIOUS
  <2>1. w[2][1] = sec /\ w[2][2] = u  BY <1>16 DEF Time
  <2>2. Micros(v) = sec * M + us /\ Micros(w) = sec * M + u
    BY <2>1, <1>4 DEF Micros, M
  <2>3. sec * M \in Int /\ us \in Int /\ u \in Int  BY <1>1, <1>6, <1>15
  <2>4. Micros(v) - Micros(w) = us - u /\ Micros(w) <= Micros(v)
    BY ONLY <2>2, <2>3, <1>17
  <2> QED  BY <2>1, <2>4, <1>15, <1>17
<1>19. SameCell(ty, v, w)
  <2>1. IsTicks(WholeTicks(v, s)) => SameTime(ty, v, w)
    BY <1>2, <1>4, <1>18 DEF SameTime, M
  <2> QED  BY <1>2, <2>1 DEF SameCell
<1> QED  BY <1>19 DEF v, w

=============================================================================
