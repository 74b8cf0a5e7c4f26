--------------------------- MODULE ReadOnlyProofs ---------------------------
(***************************************************************************)
(* The read-only side of the shadow tournament.  Of the quote stream: for  *)
(* any number of items and updates, and any queue, its layers agree and    *)
(* nothing is dropped in silence, under the smoke and under the probes.    *)
(***************************************************************************)
EXTENDS ReadOnlySmoke, ReadOnlySession, Folds, SequenceTheorems, FiniteSetTheorems,
        WellFoundedInduction, TLAPS

-----------------------------------------------------------------------------
(* Induction over a set of numbers. *)

LEMMA NaturalsFrom ==
    ASSUME NEW S, 0 \in S, \A n \in Nat : n \in S => n + 1 \in S
    PROVE  Nat \subseteq S
<1> DEFINE R == OpToRel(<, Nat)
<1>1. IsWellFoundedOn(R, Nat)
  BY NatLessThanWellFounded, Zenon
<1>2. \A x, y \in Nat : x < y => <<x, y>> \in R
  BY DEF OpToRel
<1> HIDE DEF R
<1> SUFFICES ASSUME Nat \ S # {} PROVE FALSE
  OBVIOUS
<1>3. PICK x \in Nat \ S : \A y \in Nat \ S : <<y, x>> \notin R
  <2>1. Nat \ S \subseteq Nat
    OBVIOUS
  <2>2. QED
    BY <1>1, <2>1, WFMin, Zenon
<1>4. x # 0 /\ x - 1 \in Nat /\ x - 1 < x /\ (x - 1) + 1 = x
  OBVIOUS
<1>5. x - 1 \in S
  BY <1>2, <1>3, <1>4
<1>6. QED
  BY <1>3, <1>4, <1>5

-----------------------------------------------------------------------------
(* The queued updates of some items. *)

LEMMA SeqOfUpdates ==
    ASSUME NEW s \in Seq(Updates)
    PROVE  /\ Len(s) \in Nat /\ DOMAIN s = 1 .. Len(s)
           /\ \A i \in 1 .. Len(s) : s[i] \in Updates
OBVIOUS

\* What is kept of the first i updates.
KeptOf(s, E) ==
    CHOOSE kept : kept = [i \in 0 .. Len(s) |->
        IF i = 0 THEN <<>>
        ELSE IF s[i].epic \in E THEN Append(kept[i - 1], s[i])
        ELSE kept[i - 1]]

LEMMA KeptIs ==
    ASSUME NEW s \in Seq(Updates), NEW E
    PROVE  /\ Of(s, E) = KeptOf(s, E)[Len(s)]
           /\ KeptOf(s, E)[0] = <<>>
           /\ \A i \in 1 .. Len(s) :
                 KeptOf(s, E)[i] = IF s[i].epic \in E THEN Append(KeptOf(s, E)[i - 1], s[i])
                                   ELSE KeptOf(s, E)[i - 1]
<1> DEFINE KeptAt(g, i) == IF i = 0 THEN <<>>
                           ELSE IF s[i].epic \in E THEN Append(g[i - 1], s[i])
                           ELSE g[i - 1]
           S == {n \in Nat : n <= Len(s) => \E g : g = [i \in 0 .. n |-> KeptAt(g, i)]}
<1>1. Len(s) \in Nat
  OBVIOUS
<1>2. 0 \in S
  <2> SUFFICES \E g : g = [i \in 0 .. 0 |-> KeptAt(g, i)]
    OBVIOUS
  <2> DEFINE g == [i \in 0 .. 0 |-> <<>>]
  <2>1. \A i \in 0 .. 0 : KeptAt(g, i) = <<>>
    OBVIOUS
  <2> HIDE DEF KeptAt
  <2>2. g = [i \in 0 .. 0 |-> KeptAt(g, i)]
    BY <2>1
  <2> HIDE DEF g
  <2>3. QED
    BY <2>2
<1>3. ASSUME NEW n \in Nat, n \in S PROVE n + 1 \in S
  <2>1. SUFFICES ASSUME n + 1 <= Len(s) PROVE \E g : g = [i \in 0 .. n + 1 |-> KeptAt(g, i)]
    <3> HIDE DEF KeptAt
    <3>1. QED
      OBVIOUS
  <2>2. PICK g : g = [i \in 0 .. n |-> KeptAt(g, i)]
    BY <1>1, <1>3, <2>1, SMTT(30)
  <2>3. PICK h : h = [i \in 0 .. n + 1 |->
                        IF i = n + 1 THEN KeptAt(g, n + 1) ELSE g[i]]
    OBVIOUS
  <2>4. ASSUME NEW i \in 0 .. n + 1 PROVE h[i] = KeptAt(h, i)
    <3>1. CASE i = n + 1
      <4>1. i # 0 /\ i - 1 = n /\ h[i - 1] = g[i - 1]
        BY <2>3, <3>1
      <4>2. KeptAt(h, i) = KeptAt(g, i)
        BY <4>1
      <4>3. h[i] = KeptAt(g, i)
        BY <2>3, <3>1
      <4>4. QED
        BY <4>2, <4>3
    <3>2. CASE i # n + 1 /\ i # 0
      <4>1. i \in 0 .. n /\ i - 1 \in 0 .. n + 1 /\ i - 1 # n + 1
        BY <3>2
      <4>2. h[i - 1] = g[i - 1] /\ h[i] = g[i]
        BY <2>3, <3>2, <4>1
      <4>3. g[i] = KeptAt(g, i)
        BY <2>2, <4>1
      <4>4. KeptAt(h, i) = KeptAt(g, i)
        BY <3>2, <4>2
      <4>5. QED
        BY <4>2, <4>3, <4>4
    <3>3. CASE i = 0
      BY <2>2, <2>3, <3>3
    <3>4. QED
      BY <3>1, <3>2, <3>3
  <2> HIDE DEF KeptAt
  <2>5. h = [i \in 0 .. n + 1 |-> KeptAt(h, i)]
    BY <2>3, <2>4
  <2>6. QED
    BY <2>5
<1>4. Len(s) \in S
  <2> HIDE DEF S
  <2>1. QED
    BY <1>1, <1>2, <1>3, NaturalsFrom
<1>5. PICK g : g = [i \in 0 .. Len(s) |-> KeptAt(g, i)]
  BY <1>4
<1>6. KeptOf(s, E) = [i \in 0 .. Len(s) |-> KeptAt(KeptOf(s, E), i)]
  <2> DEFINE F(f) == [i \in 0 .. Len(s) |-> KeptAt(f, i)]
  <2>1. KeptOf(s, E) = CHOOSE f : f = F(f)
    BY DEF KeptOf
  <2>2. \E f : f = F(f)
    BY <1>5
  <2> HIDE DEF F
  <2>3. KeptOf(s, E) = F(KeptOf(s, E))
    BY <2>1, <2>2
  <2>4. QED
    BY <2>3 DEF F
<1>7. Of(s, E) = KeptOf(s, E)[Len(s)]
  BY DEF Of, KeptOf
<1>8. ASSUME NEW i \in 0 .. Len(s) PROVE KeptOf(s, E)[i] = KeptAt(KeptOf(s, E), i)
  <2> HIDE DEF KeptAt
  <2>1. QED
    BY <1>6
<1>9. KeptOf(s, E)[0] = <<>>
  BY <1>1, <1>8
<1>10. ASSUME NEW i \in 1 .. Len(s)
       PROVE  KeptOf(s, E)[i] = IF s[i].epic \in E THEN Append(KeptOf(s, E)[i - 1], s[i])
                                ELSE KeptOf(s, E)[i - 1]
  <2>1. i \in 0 .. Len(s) /\ i # 0
    BY <1>1
  <2>2. QED
    BY <1>8, <2>1
<1>11. QED
  BY <1>7, <1>9, <1>10

LEMMA OfEmpty ==
    ASSUME NEW E
    PROVE  Of(<<>>, E) = <<>>
<1>1. PICK s \in Seq(Updates) : s = <<>> /\ Len(s) = 0
  <2>1. <<>> \in Seq(Updates) /\ Len(<<>>) = 0
    OBVIOUS
  <2>2. QED
    BY <2>1, Zenon
<1>2. Of(s, E) = KeptOf(s, E)[0] /\ KeptOf(s, E)[0] = <<>>
  <2>1. Of(s, E) = KeptOf(s, E)[Len(s)] /\ KeptOf(s, E)[0] = <<>>
    BY KeptIs
  <2>2. Len(s) = 0
    BY <1>1
  <2>3. QED
    BY <2>1, <2>2
<1>3. QED
  BY <1>1, <1>2

LEMMA OfAppend ==
    ASSUME NEW s \in Seq(Updates), NEW u \in Updates, NEW E
    PROVE  Of(Append(s, u), E) = IF u.epic \in E THEN Append(Of(s, E), u) ELSE Of(s, E)
<1> DEFINE t == Append(s, u)
           S == {n \in Nat : n <= Len(s) => KeptOf(t, E)[n] = KeptOf(s, E)[n]}
<1>1. /\ t \in Seq(Updates) /\ Len(s) \in Nat /\ Len(t) = Len(s) + 1
      /\ t[Len(s) + 1] = u /\ \A i \in 1 .. Len(s) : t[i] = s[i]
  OBVIOUS
<1> HIDE DEF t
<1>2. 0 \in S
  BY <1>1, KeptIs
<1>3. ASSUME NEW n \in Nat, n \in S PROVE n + 1 \in S
  <2>1. SUFFICES ASSUME n + 1 <= Len(s) PROVE KeptOf(t, E)[n + 1] = KeptOf(s, E)[n + 1]
    OBVIOUS
  <2>2. n + 1 \in 1 .. Len(s) /\ n + 1 \in 1 .. Len(t) /\ (n + 1) - 1 = n /\ n <= Len(s)
    BY <1>1, <2>1
  <2>3. t[n + 1] = s[n + 1] /\ KeptOf(t, E)[n] = KeptOf(s, E)[n]
    BY <1>1, <1>3, <2>2
  <2>4. KeptOf(t, E)[n + 1] = IF t[n + 1].epic \in E THEN Append(KeptOf(t, E)[n], t[n + 1])
                              ELSE KeptOf(t, E)[n]
    BY <1>1, <2>2, KeptIs
  <2>5. KeptOf(s, E)[n + 1] = IF s[n + 1].epic \in E THEN Append(KeptOf(s, E)[n], s[n + 1])
                              ELSE KeptOf(s, E)[n]
    BY <1>1, <2>2, KeptIs
  <2>6. QED
    BY <2>3, <2>4, <2>5
<1>4. KeptOf(t, E)[Len(s)] = KeptOf(s, E)[Len(s)]
  <2>1. Len(s) \in S
    <3> HIDE DEF S
    <3>1. QED
      BY <1>1, <1>2, <1>3, NaturalsFrom
  <2>2. QED
    BY <1>1, <2>1
<1>5. Of(t, E) = KeptOf(t, E)[Len(t)] /\ Of(s, E) = KeptOf(s, E)[Len(s)]
  BY <1>1, KeptIs
<1>6. Len(t) \in 1 .. Len(t) /\ Len(t) - 1 = Len(s)
  BY <1>1
<1>7. KeptOf(t, E)[Len(t)] = IF u.epic \in E THEN Append(KeptOf(t, E)[Len(s)], u)
                             ELSE KeptOf(t, E)[Len(s)]
  BY <1>1, <1>6, KeptIs
<1>8. QED
  BY <1>4, <1>5, <1>7 DEF t

\* Every sequence of updates ends in one, or is empty.
LEMMA LastUpdate ==
    ASSUME NEW n \in Nat, NEW s \in Seq(Updates), Len(s) = n + 1
    PROVE  \E t \in Seq(Updates), u \in Updates : s = Append(t, u) /\ Len(t) = n
<1>1. s # <<>>
  OBVIOUS
<1>2. PICK t \in Seq(Updates), u \in Updates : s = Append(t, u)
  BY <1>1, SequenceEmptyOrAppend
<1>3. Len(t) = n
  BY <1>2
<1>4. QED
  BY <1>2, <1>3

LEMMA OfType ==
    ASSUME NEW E
    PROVE  \A s \in Seq(Updates) :
              /\ Of(s, E) \in Seq(Updates)
              /\ \A i \in 1 .. Len(Of(s, E)) : Of(s, E)[i].epic \in E
<1> DEFINE Fine(s) == /\ Of(s, E) \in Seq(Updates)
                      /\ \A i \in 1 .. Len(Of(s, E)) : Of(s, E)[i].epic \in E
           S == {n \in Nat : \A s \in Seq(Updates) : Len(s) = n => Fine(s)}
<1>1. 0 \in S
  <2>1. \A s \in Seq(Updates) : Len(s) = 0 => s = <<>>
    OBVIOUS
  <2>2. Of(<<>>, E) = <<>>
    BY OfEmpty
  <2>3. QED
    BY <2>1, <2>2
<1>2. ASSUME NEW n \in Nat, n \in S PROVE n + 1 \in S
  <2>1. SUFFICES ASSUME NEW s \in Seq(Updates), Len(s) = n + 1 PROVE Fine(s)
    OBVIOUS
  <2>2. PICK t \in Seq(Updates), u \in Updates : s = Append(t, u) /\ Len(t) = n
    BY <2>1, LastUpdate
  <2>3. Fine(t)
    BY <1>2, <2>2
  <2>4. Of(s, E) = IF u.epic \in E THEN Append(Of(t, E), u) ELSE Of(t, E)
    BY <2>2, OfAppend
  <2>5. QED
    BY <2>3, <2>4
<1>3. ASSUME NEW s \in Seq(Updates) PROVE Fine(s)
  <2>1. Len(s) \in Nat
    OBVIOUS
  <2>2. Len(s) \in S
    <3> HIDE DEF S
    <3>1. QED
      BY <1>1, <1>2, <2>1, NaturalsFrom
  <2>3. QED
    BY <2>2
<1>4. QED
  BY <1>3

\* Choosing all, or none.
LEMMA OfAll ==
    ASSUME NEW E
    PROVE  \A s \in Seq(Updates) :
              /\ (\A i \in 1 .. Len(s) : s[i].epic \in E) => Of(s, E) = s
              /\ (\A i \in 1 .. Len(s) : s[i].epic \notin E) => Of(s, E) = <<>>
<1> DEFINE Fine(s) == /\ (\A i \in 1 .. Len(s) : s[i].epic \in E) => Of(s, E) = s
                      /\ (\A i \in 1 .. Len(s) : s[i].epic \notin E) => Of(s, E) = <<>>
           S == {n \in Nat : \A s \in Seq(Updates) : Len(s) = n => Fine(s)}
<1>1. 0 \in S
  <2>1. \A s \in Seq(Updates) : Len(s) = 0 => s = <<>>
    OBVIOUS
  <2>2. Of(<<>>, E) = <<>>
    BY OfEmpty
  <2>3. QED
    BY <2>1, <2>2
<1>2. ASSUME NEW n \in Nat, n \in S PROVE n + 1 \in S
  <2>1. SUFFICES ASSUME NEW s \in Seq(Updates), Len(s) = n + 1 PROVE Fine(s)
    OBVIOUS
  <2>2. PICK t \in Seq(Updates), u \in Updates : s = Append(t, u) /\ Len(t) = n
    BY <2>1, LastUpdate
  <2>3. Fine(t)
    BY <1>2, <2>2
  <2>4. Of(s, E) = IF u.epic \in E THEN Append(Of(t, E), u) ELSE Of(t, E)
    BY <2>2, OfAppend
  <2>5. \A i \in 1 .. Len(t) : i \in 1 .. Len(s) /\ s[i] = t[i]
    BY <2>2
  <2>6. n + 1 \in 1 .. Len(s) /\ s[n + 1] = u
    BY <2>1, <2>2
  <2>7. QED
    BY <2>2, <2>3, <2>4, <2>5, <2>6
<1>3. ASSUME NEW s \in Seq(Updates) PROVE Fine(s)
  <2>1. Len(s) \in Nat
    OBVIOUS
  <2>2. Len(s) \in S
    <3> HIDE DEF S
    <3>1. QED
      BY <1>1, <1>2, <2>1, NaturalsFrom
  <2>3. QED
    BY <2>2
<1>4. QED
  BY <1>3

\* Choosing twice.
LEMMA OfOf ==
    ASSUME NEW D, NEW E
    PROVE  \A s \in Seq(Updates) : Of(Of(s, D), E) = Of(s, D \cap E)
<1> DEFINE Fine(s) == Of(Of(s, D), E) = Of(s, D \cap E)
           S == {n \in Nat : \A s \in Seq(Updates) : Len(s) = n => Fine(s)}
<1>1. 0 \in S
  <2>1. \A s \in Seq(Updates) : Len(s) = 0 => s = <<>>
    OBVIOUS
  <2>2. Of(<<>>, D) = <<>> /\ Of(<<>>, E) = <<>> /\ Of(<<>>, D \cap E) = <<>>
    BY OfEmpty
  <2>3. QED
    BY <2>1, <2>2
<1>2. ASSUME NEW n \in Nat, n \in S PROVE n + 1 \in S
  <2>1. SUFFICES ASSUME NEW s \in Seq(Updates), Len(s) = n + 1 PROVE Fine(s)
    <3> HIDE DEF Fine
    <3>1. QED
      OBVIOUS
  <2>2. PICK t \in Seq(Updates), u \in Updates : s = Append(t, u) /\ Len(t) = n
    BY <2>1, LastUpdate
  <2>3. Fine(t)
    BY <1>2, <2>2
  <2>4. PICK d \in Seq(Updates) : d = Of(t, D)
    BY OfType
  <2>5. Of(s, D) = IF u.epic \in D THEN Append(d, u) ELSE d
    BY <2>2, <2>4, OfAppend
  <2>6. Of(Append(d, u), E) = IF u.epic \in E THEN Append(Of(d, E), u) ELSE Of(d, E)
    BY OfAppend
  <2>7. Of(s, D \cap E) = IF u.epic \in D \cap E THEN Append(Of(t, D \cap E), u)
                          ELSE Of(t, D \cap E)
    BY <2>2, OfAppend
  <2>8. Of(d, E) = Of(t, D \cap E)
    BY <2>3, <2>4
  <2>9. CASE u.epic \in D
    <3>1. Of(Of(s, D), E) = Of(Append(d, u), E)
      BY <2>5, <2>9
    <3>2. QED
      BY <2>6, <2>7, <2>8, <2>9, <3>1
  <2>10. CASE u.epic \notin D
    <3>1. Of(Of(s, D), E) = Of(d, E)
      BY <2>5, <2>10
    <3>2. QED
      BY <2>7, <2>8, <2>10, <3>1
  <2>11. QED
    BY <2>9, <2>10
<1>3. ASSUME NEW s \in Seq(Updates) PROVE Fine(s)
  <2>1. Len(s) \in Nat
    OBVIOUS
  <2>2. Len(s) \in S
    <3> HIDE DEF S
    <3>1. QED
      BY <1>1, <1>2, <2>1, NaturalsFrom
  <2>3. QED
    BY <2>2
<1>4. QED
  BY <1>3

LEMMA HeadStaysFirst ==
    ASSUME NEW k \in Seq(Updates), NEW h \in Updates, NEW u \in Updates
    PROVE  Append(<<h>> \o k, u) = <<h>> \o Append(k, u)
<1>1. PICK g \in Seq(Updates), e \in Seq(Updates) : g = <<h>> /\ e = <<u>>
  <2>1. <<h>> \in Seq(Updates) /\ <<u>> \in Seq(Updates)
    OBVIOUS
  <2>2. QED
    BY <2>1, Zenon
<1>2. PICK U : U = Updates
  OBVIOUS
<1>3. \A q \in Seq(Updates) : Append(q, u) = q \o <<u>>
  BY AppendIsConcat
<1>4. g \o k \in Seq(Updates)
  OBVIOUS
<1>5. Append(g \o k, u) = (g \o k) \o e /\ Append(k, u) = k \o e
  BY <1>1, <1>3, <1>4
<1>6. (g \o k) \o e = g \o (k \o e)
  <2>1. g \in Seq(U) /\ k \in Seq(U) /\ e \in Seq(U)
    BY <1>2
  <2>2. QED
    BY <2>1, ConcatAssociative
<1>7. QED
  BY <1>1, <1>5, <1>6, Zenon

LEMMA OfTail ==
    ASSUME NEW E
    PROVE  \A s \in Seq(Updates) : s # <<>> =>
              Of(s, E) = IF Head(s).epic \in E THEN <<Head(s)>> \o Of(Tail(s), E)
                         ELSE Of(Tail(s), E)
<1> DEFINE Fine(s) == Of(s, E) = IF Head(s).epic \in E THEN <<Head(s)>> \o Of(Tail(s), E)
                                 ELSE Of(Tail(s), E)
           S == {n \in Nat : \A s \in Seq(Updates) : Len(s) = n /\ s # <<>> => Fine(s)}
<1>1. 0 \in S
  OBVIOUS
<1>2. ASSUME NEW n \in Nat, n \in S PROVE n + 1 \in S
  <2>1. SUFFICES ASSUME NEW s \in Seq(Updates), Len(s) = n + 1 PROVE Fine(s)
    OBVIOUS
  <2>2. PICK t \in Seq(Updates), u \in Updates : s = Append(t, u) /\ Len(t) = n
    BY <2>1, LastUpdate
  <2>3. Of(s, E) = IF u.epic \in E THEN Append(Of(t, E), u) ELSE Of(t, E)
    BY <2>2, OfAppend
  <2>4. CASE t = <<>>
    <3>1. Head(s) = u /\ Tail(s) = <<>>
      BY <2>2, <2>4, HeadTailAppend
    <3>2. Of(<<>>, E) = <<>>
      BY OfEmpty
    <3>3. Append(<<>>, u) = <<u>> /\ <<u>> \o <<>> = <<u>>
      OBVIOUS
    <3>4. Of(s, E) = IF u.epic \in E THEN <<u>> ELSE <<>>
      BY <2>3, <2>4, <3>2, <3>3
    <3>5. Of(Tail(s), E) = <<>>
      BY <3>1, <3>2
    <3>6. QED
      BY <3>1, <3>3, <3>4, <3>5
  <2>5. CASE t # <<>>
    <3>1. Head(s) = Head(t) /\ Tail(s) = Append(Tail(t), u)
      BY <2>2, <2>5, HeadTailAppend
    <3>2. PICK r \in Seq(Updates) : r = Tail(t)
      BY <2>5, HeadTailProperties
    <3>3. Head(t) \in Updates
      BY <2>5
    <3>4. Of(t, E) = IF Head(t).epic \in E THEN <<Head(t)>> \o Of(r, E) ELSE Of(r, E)
      BY <1>2, <2>2, <2>5, <3>2
    <3>5. Of(Tail(s), E) = IF u.epic \in E THEN Append(Of(r, E), u) ELSE Of(r, E)
      <4>1. Of(Append(r, u), E) = IF u.epic \in E THEN Append(Of(r, E), u) ELSE Of(r, E)
        BY OfAppend
      <4>2. QED
        BY <3>1, <3>2, <4>1
    <3>6. PICK k \in Seq(Updates) : k = Of(r, E)
      BY OfType
    <3>7. Append(<<Head(t)>> \o k, u) = <<Head(t)>> \o Append(k, u)
      BY <3>3, HeadStaysFirst
    <3>8. QED
      BY <2>3, <3>1, <3>4, <3>5, <3>6, <3>7
  <2>6. QED
    BY <2>4, <2>5
<1>3. ASSUME NEW s \in Seq(Updates), s # <<>> PROVE Fine(s)
  <2>1. Len(s) \in Nat
    OBVIOUS
  <2>2. Len(s) \in S
    <3> HIDE DEF S
    <3>1. QED
      BY <1>1, <1>2, <2>1, NaturalsFrom
  <2>3. QED
    BY <1>3, <2>2
<1>4. QED
  BY <1>3

-----------------------------------------------------------------------------
(* The updates of one item, from one number to another. *)

Row(e, a, b) == [i \in 1 .. (b - a) |-> [epic |-> e, n |-> a + i]]

LEMMA RowGrows ==
    ASSUME NEW e, NEW a \in Nat, NEW b \in Nat, a <= b
    PROVE  Append(Row(e, a, b), [epic |-> e, n |-> b + 1]) = Row(e, a, b + 1)
<1>1. Row(e, a, b) \in Seq({[epic |-> e, n |-> k] : k \in Nat}) /\ Len(Row(e, a, b)) = b - a
  BY DEF Row
<1>2. b + 1 - a = b - a + 1 /\ a + (b + 1 - a) = b + 1 /\ b - a \in Nat
  OBVIOUS
<1>3. QED
  BY <1>1, <1>2 DEF Row

LEMMA RowShrinks ==
    ASSUME NEW e, NEW a \in Nat, NEW b \in Nat, NEW u \in Updates, NEW s \in Seq(Updates),
           <<u>> \o s = Row(e, a, b)
    PROVE  a + 1 <= b /\ u.n = a + 1 /\ s = Row(e, a + 1, b)
<1>1. Len(<<u>> \o s) = Len(s) + 1 /\ Len(s) \in Nat
  OBVIOUS
<1>2. DOMAIN (<<u>> \o s) = 1 .. Len(s) + 1 /\ DOMAIN Row(e, a, b) = 1 .. (b - a)
  BY DEF Row
<1>3. b - a = Len(s) + 1
  <2>1. 1 .. Len(s) + 1 = 1 .. (b - a)
    BY <1>2
  <2>2. PICK l \in Nat : l = Len(s) + 1
    BY <1>1
  <2>3. PICK d \in Int : d = b - a
    OBVIOUS
  <2>4. \A i \in Int : i \in 1 .. l <=> i \in 1 .. d
    BY <2>1, <2>2, <2>3
  <2>5. l \in 1 .. l /\ l \in Int
    BY <1>1, <2>2
  <2>6. l <= d
    BY <2>4, <2>5
  <2>7. d \in 1 .. d
    BY <2>5, <2>6
  <2>8. d <= l
    BY <2>4, <2>7
  <2>9. QED
    BY <2>2, <2>3, <2>6, <2>8
<1>4. a + 1 <= b /\ b - (a + 1) = Len(s)
  BY <1>1, <1>3
<1>5. u = Row(e, a, b)[1] /\ \A i \in 1 .. Len(s) : s[i] = Row(e, a, b)[i + 1]
  BY <1>1
<1>6. u = [epic |-> e, n |-> a + 1]
  BY <1>3, <1>5 DEF Row
<1>7. \A i \in 1 .. Len(s) : s[i] = [epic |-> e, n |-> (a + 1) + i]
  BY <1>1, <1>3, <1>5 DEF Row
<1>8. s = Row(e, a + 1, b)
  <2>1. s = [i \in 1 .. Len(s) |-> s[i]]
    OBVIOUS
  <2>2. s = [i \in 1 .. Len(s) |-> [epic |-> e, n |-> (a + 1) + i]]
    BY <1>7, <2>1
  <2>3. QED
    BY <1>4, <2>2 DEF Row
<1>9. QED
  BY <1>4, <1>6, <1>8

-----------------------------------------------------------------------------
(* The inductive invariant of the stream. *)

\* A connected bridge has a client with exactly its subscriptions.
InStep ==
    /\ client # NoClient
    /\ link = [connected |-> TRUE, subs |-> bridge.subs]
    /\ client.subs = bridge.subs

\* What holds while the caller's thread is inside an operation.
CallIsInStep ==
    /\ call = Idle => IF bridge.connected THEN InStep ELSE client = NoClient
    /\ call.step = "connecting" =>
          /\ call.op \in {"connect", "restore", "representative"}
          /\ client # NoClient /\ client.subs = {} /\ link = Disconnected
          /\ call.op = "connect" => bridge.subs = {}
    /\ call.step = "subscribing" =>
          /\ call.op \in {"subscribe", "restore", "representative"}
          /\ call.op = "subscribe" => bridge.connected
          /\ client # NoClient /\ link = [connected |-> TRUE, subs |-> {}]
          /\ client.subs = call.items \ call.todo /\ call.todo \subseteq call.items
    /\ call.step = "unsubscribing" =>
          /\ call.op \in {"unsubscribe", "representative"}
          /\ bridge.connected /\ InStep
    /\ call.step = "retrying" => call.op = "restore" /\ client = NoClient
    /\ call.op = "restore" => ~bridge.connected

\* The queue of a client holds rows of updates, each up to the last that came.
QueueIsKnown ==
    /\ link.connected => client # NoClient /\ (client.connected \/ client.lost)
    /\ client # NoClient =>
          /\ client.overflowed => client.lost
          /\ \A i \in 1 .. Len(client.updates) : client.updates[i].epic \in client.subs
    /\ \A e \in Epics : got[e] <= sent[e]
    /\ (client # NoClient /\ Available) =>
          \A e \in client.subs : Of(client.updates, {e}) = Row(e, got[e], sent[e])

StreamIInv == StreamTypeOK /\ CallIsInStep /\ QueueIsKnown

LEMMA FreshClientIs ==
    /\ FreshClient \in Clients /\ FreshClient # NoClient
    /\ FreshClient.subs = {} /\ FreshClient.updates = <<>>
    /\ ~FreshClient.lost /\ ~FreshClient.overflowed /\ ~FreshClient.connected
<1>1. <<>> \in Seq(Updates)
  OBVIOUS
<1>2. FreshClient \in Clients
  BY <1>1 DEF FreshClient, Clients
<1>3. FreshClient # NoClient
  BY <1>2, NoClientAssumption, Zenon
<1>4. QED
  BY <1>2, <1>3 DEF FreshClient

\* Of a connection that is new or gone nothing is known.
LEMMA NothingQueued ==
    ASSUME link' = Disconnected, client' \in {NoClient, FreshClient}, sent' = None, got' = None
    PROVE  /\ QueueIsKnown'
           /\ link' \in [connected : BOOLEAN, subs : SUBSET Epics]
           /\ client' \in Clients \cup {NoClient}
           /\ sent' \in [Epics -> 0 .. UpdateBound] /\ got' \in [Epics -> 0 .. UpdateBound]
<1>1. link' \in [connected : BOOLEAN, subs : SUBSET Epics] /\ ~link'.connected
  BY DEF Disconnected
<1>2. client' \in Clients \cup {NoClient}
  BY FreshClientIs
<1>3. /\ sent' \in [Epics -> 0 .. UpdateBound] /\ got' \in [Epics -> 0 .. UpdateBound]
      /\ \A e \in Epics : got'[e] <= sent'[e]
  BY BoundAssumption DEF None
<1>4. client' # NoClient =>
          /\ client'.overflowed => client'.lost
          /\ client'.updates = <<>> /\ client'.subs = {}
  BY FreshClientIs
<1>5. QueueIsKnown'
  BY <1>1, <1>3, <1>4 DEF QueueIsKnown
<1>6. QED
  BY <1>1, <1>2, <1>3, <1>5

LEMMA QueueStays ==
    ASSUME StreamIInv, UNCHANGED <<link, client, sent, got>>
    PROVE  QueueIsKnown'
BY DEF StreamIInv, QueueIsKnown, Available

\* The bridge after a failure.
LEMMA MarkedDisconnected ==
    ASSUME StreamIInv
    PROVE  /\ MarkDisconnected(bridge) \in [connected : BOOLEAN, subs : SUBSET Epics,
                                            required : BOOLEAN, left : 0 .. MaxReconnectAttempts]
           /\ ~MarkDisconnected(bridge).connected
<1>1. bridge \in [connected : BOOLEAN, subs : SUBSET Epics,
                  required : BOOLEAN, left : 0 .. MaxReconnectAttempts]
  BY DEF StreamIInv, StreamTypeOK
<1>2. CASE bridge.subs = {}
  <2>1. MarkDisconnected(bridge)
            = [bridge EXCEPT !.connected = FALSE, !.required = FALSE, !.left = 0]
    BY <1>2 DEF MarkDisconnected
  <2>2. 0 \in 0 .. MaxReconnectAttempts
    BY AttemptsAssumption
  <2>3. QED
    BY <1>1, <2>1, <2>2
<1>3. CASE bridge.subs # {}
  <2>1. (bridge.subs # {}) = TRUE
    BY <1>3
  <2>2. MarkDisconnected(bridge)
            = [bridge EXCEPT !.connected = FALSE, !.required = TRUE, !.left = MaxReconnectAttempts]
    BY <1>3, <2>1 DEF MarkDisconnected
  <2>3. MaxReconnectAttempts \in 0 .. MaxReconnectAttempts
    BY AttemptsAssumption
  <2>4. QED
    BY <1>1, <2>2, <2>3
<1>4. QED
  BY <1>2, <1>3

LEMMA IdleIs ==
    /\ Idle \in Calls /\ Idle.op = "none" /\ Idle.step = "idle"
    /\ \A c \in Calls : c.step \in {"connecting", "subscribing", "unsubscribing", "retrying"}
                           => c # Idle
BY DEF Idle, Calls

LEMMA StepFailsKeeps ==
    ASSUME StreamIInv, StepFails, call.op = "restore" => call.step # "idle"
    PROVE  StreamIInv'
<1>1. link' = Disconnected /\ client' = NoClient /\ sent' = None /\ got' = None
  BY DEF StepFails, TearDown
<1>2. call \in Calls /\ outcome \in {"none", "ok", "failed", "quote", "no_update", "exhausted"}
  BY DEF StreamIInv, StreamTypeOK
<1>3. CASE call.op = "restore"
  <2>1. /\ call' = [call EXCEPT !.step = "retrying", !.todo = {}]
        /\ bridge' = bridge /\ outcome' = outcome
    BY <1>3 DEF StepFails
  <2>2. call # Idle
    BY <1>3 DEF Idle
  <2>3. call' \in Calls /\ call'.step = "retrying" /\ call'.op = "restore" /\ call' # Idle
    BY <1>2, <1>3, <2>1, <2>2 DEF Calls, Idle
  <2>4. StreamTypeOK'
    BY <1>1, <1>2, <2>1, <2>3, NothingQueued DEF StreamIInv, StreamTypeOK
  <2>5. ~bridge'.connected
    BY <1>3, <2>1 DEF StreamIInv, CallIsInStep
  <2>6. CallIsInStep'
    BY <1>1, <2>3, <2>5 DEF CallIsInStep
  <2>7. QED
    BY <1>1, <2>4, <2>6, NothingQueued DEF StreamIInv
<1>4. CASE call.op # "restore"
  <2>1. bridge' = MarkDisconnected(bridge) /\ call' = Idle /\ outcome' = "failed"
    BY <1>4 DEF StepFails, Return
  <2>2. StreamTypeOK'
    BY <1>1, <2>1, NothingQueued, MarkedDisconnected, IdleIs DEF StreamTypeOK
  <2>3. CallIsInStep'
    BY <1>1, <2>1, MarkedDisconnected, IdleIs DEF CallIsInStep
  <2>4. QED
    BY <1>1, <2>2, <2>3, NothingQueued DEF StreamIInv
<1>5. QED
  BY <1>3, <1>4

LEMMA ConnectKeeps ==
    ASSUME StreamIInv, Connect
    PROVE  StreamIInv'
<1>1. /\ call = Idle /\ ~bridge.connected /\ bridge.subs = {}
      /\ link' = Disconnected /\ client' = FreshClient /\ sent' = None /\ got' = None
      /\ call' = [op |-> "connect", step |-> "connecting", items |-> {}, todo |-> {}]
      /\ bridge' = bridge /\ outcome' = outcome
  BY DEF Connect, OpenClient
<1>2. call' \in Calls /\ call'.op = "connect" /\ call'.step = "connecting" /\ call' # Idle
  BY <1>1 DEF Calls, Operations, Idle
<1>3. StreamTypeOK'
  BY <1>1, <1>2, NothingQueued DEF StreamIInv, StreamTypeOK
<1>4. CallIsInStep'
  BY <1>1, <1>2, FreshClientIs DEF CallIsInStep
<1>5. QED
  BY <1>1, <1>3, <1>4, NothingQueued DEF StreamIInv

LEMMA ConnectReturnsKeeps ==
    ASSUME StreamIInv, ConnectReturns
    PROVE  StreamIInv'
<1>1. /\ call.step = "connecting" /\ ~client.lost
      /\ client' = [client EXCEPT !.connected = TRUE]
      /\ link' = [link EXCEPT !.connected = TRUE]
      /\ sent' = sent /\ got' = got
  BY DEF ConnectReturns
<1>2. /\ call.op \in {"connect", "restore", "representative"}
      /\ client # NoClient /\ client.subs = {} /\ link = Disconnected
      /\ call.op = "connect" => bridge.subs = {}
      /\ call.op = "restore" => ~bridge.connected
  BY <1>1 DEF StreamIInv, CallIsInStep
<1>3. client \in Clients /\ call \in Calls /\ call # Idle
  BY <1>1, <1>2, IdleIs DEF StreamIInv, StreamTypeOK
<1>4. /\ client' \in Clients /\ client'.subs = {} /\ client'.connected
      /\ client'.updates = client.updates /\ client'.overflowed = client.overflowed
      /\ client'.lost = client.lost /\ client' # NoClient
  BY <1>1, <1>2, <1>3, NoClientAssumption DEF Clients
<1>5. link' = [connected |-> TRUE, subs |-> {}]
  BY <1>1, <1>2 DEF Disconnected
<1>6. QueueIsKnown'
  BY <1>1, <1>2, <1>4, <1>5 DEF StreamIInv, QueueIsKnown
<1>7. CASE call.op = "connect"
  <2>1. bridge' = [bridge EXCEPT !.connected = TRUE] /\ call' = Idle /\ outcome' = "ok"
    BY <1>1, <1>7 DEF ConnectReturns, Return
  <2>2. bridge' \in [connected : BOOLEAN, subs : SUBSET Epics,
                     required : BOOLEAN, left : 0 .. MaxReconnectAttempts]
        /\ bridge'.subs = {} /\ bridge'.connected
    BY <1>2, <1>7, <2>1 DEF StreamIInv, StreamTypeOK
  <2>3. StreamTypeOK'
    BY <1>1, <1>4, <1>5, <2>1, <2>2, IdleIs DEF StreamIInv, StreamTypeOK
  <2>4. CallIsInStep'
    BY <1>4, <1>5, <2>1, <2>2, IdleIs DEF CallIsInStep, InStep
  <2>5. QED
    BY <1>6, <2>3, <2>4 DEF StreamIInv
<1>8. CASE call.op # "connect"
  <2>1. /\ call' = [call EXCEPT !.step = "subscribing", !.todo = call.items]
        /\ bridge' = bridge /\ outcome' = outcome
    BY <1>1, <1>8 DEF ConnectReturns
  <2>2. /\ call' \in Calls /\ call'.step = "subscribing" /\ call'.op = call.op
        /\ call'.todo = call'.items /\ call' # Idle
    BY <1>3, <2>1 DEF Calls, Idle
  <2>3. StreamTypeOK'
    BY <1>1, <1>4, <1>5, <2>1, <2>2 DEF StreamIInv, StreamTypeOK
  <2>4. CallIsInStep'
    BY <1>2, <1>4, <1>5, <1>8, <2>1, <2>2 DEF CallIsInStep
  <2>5. QED
    BY <1>6, <2>3, <2>4 DEF StreamIInv
<1>9. QED
  BY <1>7, <1>8

LEMMA BeginKeeps ==
    ASSUME StreamIInv, NEW items \in SUBSET Epics,
           Subscribe(items) \/ Unsubscribe(items) \/ Representative(items) \/ Restore
    PROVE  StreamIInv'
<1>1. call = Idle /\ UNCHANGED <<bridge, link, client, outcome, sent, got>>
  BY DEF Subscribe, Unsubscribe, Representative, Restore
<1>2. QueueIsKnown'
  BY <1>1, QueueStays
<1>3. bridge.subs \subseteq Epics /\ (IF bridge.connected THEN InStep ELSE client = NoClient)
  BY <1>1 DEF StreamIInv, StreamTypeOK, CallIsInStep
<1>4. call' \in Calls
  BY <1>3 DEF Subscribe, Unsubscribe, Representative, Restore, Calls, Operations
<1>5. StreamTypeOK'
  BY <1>1, <1>4 DEF StreamIInv, StreamTypeOK
<1>6. CASE Subscribe(items)
  <2>1. /\ bridge.connected /\ bridge.subs = {}
        /\ call' = [op |-> "subscribe", step |-> "subscribing", items |-> items, todo |-> items]
    BY <1>6 DEF Subscribe
  <2>2. /\ call' # Idle /\ call'.op = "subscribe" /\ call'.step = "subscribing"
        /\ call'.items = items /\ call'.todo = items
    BY <2>1 DEF Idle
  <2>3. CallIsInStep'
    BY <1>1, <1>3, <2>1, <2>2 DEF CallIsInStep, InStep
  <2>4. QED
    BY <1>2, <1>5, <2>3 DEF StreamIInv
<1>7. CASE Unsubscribe(items) \/ Representative(items)
  <2>1. /\ bridge.connected
        /\ call'.op \in {"unsubscribe", "representative"} /\ call'.step = "unsubscribing"
    BY <1>7 DEF Unsubscribe, Representative
  <2>2. call' # Idle
    BY <2>1 DEF Idle
  <2>3. InStep'
    BY <1>1, <1>3, <2>1 DEF InStep
  <2>4. CallIsInStep'
    BY <1>1, <2>1, <2>2, <2>3 DEF CallIsInStep
  <2>5. QED
    BY <1>2, <1>5, <2>4 DEF StreamIInv
<1>8. CASE Restore
  <2>1. ~bridge.connected /\ call'.op = "restore" /\ call'.step = "retrying"
    BY <1>8 DEF Restore
  <2>2. call' # Idle
    BY <2>1 DEF Idle
  <2>3. CallIsInStep'
    BY <1>1, <1>3, <2>1, <2>2 DEF CallIsInStep
  <2>4. QED
    BY <1>2, <1>5, <2>3 DEF StreamIInv
<1>9. QED
  BY <1>6, <1>7, <1>8

LEMMA SubscribeItemKeeps ==
    ASSUME StreamIInv, NEW e \in Epics, SubscribeItem(e)
    PROVE  StreamIInv'
<1>1. /\ call.step = "subscribing" /\ e \in call.todo
      /\ client' = [client EXCEPT !.subs = @ \cup {e}]
      /\ sent' = [sent EXCEPT ![e] = 0] /\ got' = [got EXCEPT ![e] = 0]
      /\ call' = [call EXCEPT !.todo = @ \ {e}]
      /\ UNCHANGED <<bridge, link, outcome>>
  BY DEF SubscribeItem
<1>2. /\ call.op \in {"subscribe", "restore", "representative"}
      /\ call.op = "subscribe" => bridge.connected
      /\ call.op = "restore" => ~bridge.connected
      /\ client # NoClient /\ link = [connected |-> TRUE, subs |-> {}]
      /\ client.subs = call.items \ call.todo /\ call.todo \subseteq call.items
  BY <1>1 DEF StreamIInv, CallIsInStep
<1>3. client \in Clients /\ call \in Calls /\ call # Idle
  BY <1>1, <1>2, IdleIs DEF StreamIInv, StreamTypeOK
<1>4. /\ client' \in Clients /\ client'.subs = client.subs \cup {e} /\ client' # NoClient
      /\ client'.updates = client.updates /\ client'.connected = client.connected
      /\ client'.lost = client.lost /\ client'.overflowed = client.overflowed
      /\ client.updates \in Seq(Updates)
  BY <1>1, <1>3, NoClientAssumption DEF Clients
<1>5. /\ call' \in Calls /\ call'.step = "subscribing" /\ call'.op = call.op
      /\ call'.items = call.items /\ call'.todo = call.todo \ {e} /\ call' # Idle
  BY <1>1, <1>3 DEF Calls, Idle
<1>6. /\ sent \in [Epics -> 0 .. UpdateBound] /\ got \in [Epics -> 0 .. UpdateBound]
  BY DEF StreamIInv, StreamTypeOK
<1>7. /\ sent' \in [Epics -> 0 .. UpdateBound] /\ got' \in [Epics -> 0 .. UpdateBound]
      /\ sent'[e] = 0 /\ got'[e] = 0
      /\ \A d \in Epics \ {e} : sent'[d] = sent[d] /\ got'[d] = got[d]
  BY <1>1, <1>6, BoundAssumption
<1>8. StreamTypeOK'
  BY <1>1, <1>4, <1>5, <1>7 DEF StreamIInv, StreamTypeOK
<1>9. client'.subs = call'.items \ call'.todo
  BY <1>1, <1>2, <1>4, <1>5
<1>10. CallIsInStep'
  BY <1>1, <1>2, <1>4, <1>5, <1>9 DEF CallIsInStep
<1>11. Of(client.updates, {e}) = <<>>
  <2>1. e \notin client.subs
    BY <1>1, <1>2
  <2>2. \A i \in 1 .. Len(client.updates) : client.updates[i].epic \notin {e}
    BY <1>2, <2>1 DEF StreamIInv, QueueIsKnown
  <2>3. QED
    BY <1>4, <2>2, OfAll
<1>12. Row(e, 0, 0) = <<>>
  BY DEF Row
<1>13. QueueIsKnown'
  <2>1. /\ link'.connected => client' # NoClient /\ (client'.connected \/ client'.lost)
        /\ client'.overflowed => client'.lost
        /\ \A i \in 1 .. Len(client'.updates) : client'.updates[i].epic \in client'.subs
        /\ \A d \in Epics : got'[d] <= sent'[d]
    <3>1. /\ link.connected => client.connected \/ client.lost
          /\ client.overflowed => client.lost
          /\ \A i \in 1 .. Len(client.updates) : client.updates[i].epic \in client.subs
          /\ \A d \in Epics : got[d] <= sent[d]
      BY <1>2 DEF StreamIInv, QueueIsKnown
    <3>2. QED
      BY <1>1, <1>4, <1>7, <3>1
  <2>2. ASSUME Available', NEW d \in client'.subs
        PROVE  Of(client'.updates, {d}) = Row(d, got'[d], sent'[d])
    <3>1. CASE d = e
      BY <1>4, <1>7, <1>11, <1>12, <3>1
    <3>2. CASE d # e
      <4>1. d \in client.subs /\ d \in Epics
        BY <1>3, <1>4, <3>2 DEF Clients
      <4>2. Of(client.updates, {d}) = Row(d, got[d], sent[d])
        BY <1>2, <1>4, <2>2, <4>1 DEF StreamIInv, QueueIsKnown, Available
      <4>3. QED
        BY <1>4, <1>7, <3>2, <4>1, <4>2
    <3>3. QED
      BY <3>1, <3>2
  <2>3. QED
    BY <2>1, <2>2 DEF QueueIsKnown
<1>14. QED
  BY <1>8, <1>10, <1>13 DEF StreamIInv

\* Nothing of the queue is touched, and no new connection is made.
LEMMA QueueUntouched ==
    ASSUME StreamIInv, UNCHANGED <<client, sent, got>>, link'.connected => link.connected
    PROVE  QueueIsKnown'
BY DEF StreamIInv, QueueIsKnown, Available

LEMMA SubscribeReturnsKeeps ==
    ASSUME StreamIInv, SubscribeReturns
    PROVE  StreamIInv'
<1>1. /\ call.step = "subscribing" /\ call.todo = {}
      /\ link' = [link EXCEPT !.subs = call.items]
      /\ call' = Idle /\ outcome' = "ok" /\ UNCHANGED <<client, sent, got>>
  BY DEF SubscribeReturns, Return
<1>2. /\ call.op = "subscribe" => bridge.connected
      /\ client # NoClient /\ link = [connected |-> TRUE, subs |-> {}]
      /\ client.subs = call.items
  BY <1>1 DEF StreamIInv, CallIsInStep
<1>3. call # Idle
  BY <1>1 DEF Idle
<1>4. call.items \in SUBSET Epics
  BY <1>3 DEF StreamIInv, StreamTypeOK, Calls
<1>5. link' = [connected |-> TRUE, subs |-> call.items]
  BY <1>1, <1>2
<1>6. /\ bridge' \in [connected : BOOLEAN, subs : SUBSET Epics,
                      required : BOOLEAN, left : 0 .. MaxReconnectAttempts]
      /\ bridge'.connected /\ bridge'.subs = call.items
  <2>1. bridge \in [connected : BOOLEAN, subs : SUBSET Epics,
                    required : BOOLEAN, left : 0 .. MaxReconnectAttempts]
        /\ 0 \in 0 .. MaxReconnectAttempts
    BY AttemptsAssumption DEF StreamIInv, StreamTypeOK
  <2>2. CASE call.op = "subscribe"
    <3>1. bridge' = [bridge EXCEPT !.subs = call.items]
      BY <2>2 DEF SubscribeReturns
    <3>2. QED
      BY <1>2, <1>4, <2>1, <2>2, <3>1
  <2>3. CASE call.op # "subscribe"
    <3>1. bridge' = [connected |-> TRUE, subs |-> call.items, required |-> FALSE, left |-> 0]
      BY <2>3 DEF SubscribeReturns
    <3>2. QED
      BY <1>4, <2>1, <3>1
  <2>4. QED
    BY <2>2, <2>3
<1>7. QueueIsKnown'
  BY <1>1, <1>2, QueueUntouched
<1>8. StreamTypeOK'
  BY <1>1, <1>4, <1>5, <1>6, IdleIs DEF StreamIInv, StreamTypeOK
<1>9. CallIsInStep'
  BY <1>1, <1>2, <1>5, <1>6, IdleIs DEF CallIsInStep, InStep
<1>10. QED
  BY <1>7, <1>8, <1>9 DEF StreamIInv

\* The client of a connected bridge that has just been asked.
LEMMA ClientIsLive ==
    ASSUME StreamIInv, call = Idle, bridge.connected
    PROVE  /\ client \in Clients /\ client # NoClient /\ InStep /\ link.connected
           /\ client.updates \in Seq(Updates) /\ client.subs \subseteq Epics
           /\ \A i \in 1 .. Len(client.updates) : client.updates[i].epic \in client.subs
           /\ NextUpdates = client.updates
           /\ ~client.lost => Available
<1>1. InStep /\ client # NoClient /\ link.connected
  BY DEF StreamIInv, CallIsInStep, InStep
<1>2. client \in Clients /\ client.updates \in Seq(Updates) /\ client.subs \subseteq Epics
  BY <1>1 DEF StreamIInv, StreamTypeOK, Clients
<1>3. /\ \A i \in 1 .. Len(client.updates) : client.updates[i].epic \in client.subs
      /\ ~client.lost => Available
  BY <1>1 DEF StreamIInv, QueueIsKnown, Available
<1>4. NextUpdates = client.updates
  BY <1>2, <1>3, OfAll DEF NextUpdates
<1>5. QED
  BY <1>1, <1>2, <1>3, <1>4

LEMMA ReceiveKeeps ==
    ASSUME StreamIInv, Receive
    PROVE  StreamIInv'
<1>1. /\ call = Idle /\ bridge.connected /\ ~client.lost /\ ~client.overflowed
      /\ UNCHANGED <<bridge, link, call, sent>>
  BY DEF Receive
<1>2. /\ client \in Clients /\ client # NoClient /\ InStep /\ Available
      /\ client.updates \in Seq(Updates) /\ client.subs \subseteq Epics
      /\ \A i \in 1 .. Len(client.updates) : client.updates[i].epic \in client.subs
      /\ NextUpdates = client.updates
  BY <1>1, ClientIsLive
<1>3. CASE client.updates = <<>>
  <2>1. client' = [client EXCEPT !.updates = <<>>] /\ outcome' = "no_update" /\ got' = got
    BY <1>2, <1>3 DEF Receive
  <2>2. client' = client
    BY <1>2, <1>3, <2>1 DEF Clients
  <2>3. QueueIsKnown'
    BY <1>1, <2>1, <2>2, QueueStays
  <2>4. StreamTypeOK' /\ CallIsInStep'
    BY <1>1, <2>1, <2>2 DEF StreamIInv, StreamTypeOK, CallIsInStep, InStep
  <2>5. QED
    BY <2>3, <2>4 DEF StreamIInv
<1>4. CASE client.updates # <<>>
  <2>1. PICK s \in Seq(Updates) : s = client.updates
    BY <1>2
  <2>2. PICK h \in Updates, t \in Seq(Updates) :
           /\ h = Head(s) /\ t = Tail(s) /\ Len(s) = Len(t) + 1
           /\ \A i \in 1 .. Len(t) : t[i] = s[i + 1]
           /\ h = s[1] /\ Len(t) \in Nat
    <3>1. s # <<>>
      BY <1>4, <2>1
    <3>2. Head(s) \in Updates /\ Tail(s) \in Seq(Updates) /\ Len(s) = Len(Tail(s)) + 1
      BY <3>1
    <3>3. Head(s) = s[1] /\ Len(Tail(s)) \in Nat /\ \A i \in 1 .. Len(Tail(s)) : Tail(s)[i] = s[i + 1]
      BY <3>1
    <3>4. QED
      BY <3>2, <3>3
  <2>3. /\ client' = [client EXCEPT !.updates = t]
        /\ got' = [got EXCEPT ![h.epic] = h.n]
        /\ outcome' = "quote"
    BY <1>2, <1>4, <2>1, <2>2 DEF Receive
  <2>4. /\ client' \in Clients /\ client' # NoClient /\ client'.updates = t
        /\ client'.subs = client.subs /\ client'.connected = client.connected
        /\ client'.lost = client.lost /\ client'.overflowed = client.overflowed
    BY <1>2, <2>2, <2>3, NoClientAssumption DEF Clients
  <2>5. h.epic \in client.subs /\ \A i \in 1 .. Len(t) : t[i].epic \in client.subs
    BY <1>2, <2>1, <2>2
  <2>6. h.epic \in Epics
    BY <1>2, <2>5
  <2>7. sent \in [Epics -> 0 .. UpdateBound] /\ got \in [Epics -> 0 .. UpdateBound]
    BY DEF StreamIInv, StreamTypeOK
  <2>8. /\ \A d \in client.subs : Of(s, {d}) = Row(d, got[d], sent[d])
        /\ \A d \in Epics : got[d] <= sent[d]
    BY <1>2, <2>1 DEF StreamIInv, QueueIsKnown
  <2>9. \A d \in Epics : Of(s, {d}) = IF h.epic = d THEN <<h>> \o Of(t, {d}) ELSE Of(t, {d})
    <3>1. s # <<>>
      BY <1>4, <2>1
    <3>2. TAKE d \in Epics
    <3>3. Of(s, {d}) = IF h.epic \in {d} THEN <<h>> \o Of(t, {d}) ELSE Of(t, {d})
      BY <2>2, <3>1, OfTail
    <3>4. QED
      BY <3>3
  <2>10. /\ got[h.epic] + 1 <= sent[h.epic] /\ h.n = got[h.epic] + 1
         /\ Of(t, {h.epic}) = Row(h.epic, got[h.epic] + 1, sent[h.epic])
    <3>1. PICK k \in Seq(Updates) : k = Of(t, {h.epic})
      BY <2>2, OfType
    <3>2. <<h>> \o k = Row(h.epic, got[h.epic], sent[h.epic])
      BY <2>5, <2>6, <2>8, <2>9, <3>1
    <3>3. got[h.epic] \in Nat /\ sent[h.epic] \in Nat
      BY <2>6, <2>7, BoundAssumption
    <3>4. PICK a \in Nat, b \in Nat : a = got[h.epic] /\ b = sent[h.epic]
      BY <3>3
    <3>5. a + 1 <= b /\ h.n = a + 1 /\ k = Row(h.epic, a + 1, b)
      <4>1. <<h>> \o k = Row(h.epic, a, b)
        BY <3>2, <3>4
      <4>2. QED
        BY <4>1, RowShrinks, SMTT(30)
    <3>6. QED
      BY <3>1, <3>4, <3>5
  <2>11. /\ got' \in [Epics -> 0 .. UpdateBound]
         /\ got'[h.epic] = got[h.epic] + 1
         /\ \A d \in Epics \ {h.epic} : got'[d] = got[d]
    <3>1. h.n \in 0 .. UpdateBound
      BY <2>6, <2>7, <2>10, BoundAssumption
    <3>2. QED
      BY <2>3, <2>6, <2>7, <2>10, <3>1
  <2>12. \A d \in Epics : got'[d] <= sent'[d]
    BY <1>1, <2>6, <2>8, <2>10, <2>11
  <2>13. \A d \in client.subs : Of(t, {d}) = Row(d, got'[d], sent'[d])
    <3>1. TAKE d \in client.subs
    <3>2. CASE d = h.epic
      BY <1>1, <2>10, <2>11, <3>2
    <3>3. CASE d # h.epic
      <4>1. d \in Epics
        BY <1>2
      <4>2. Of(t, {d}) = Of(s, {d})
        BY <2>9, <3>3, <4>1
      <4>3. QED
        BY <1>1, <2>8, <2>11, <3>3, <4>1, <4>2
    <3>4. QED
      BY <3>2, <3>3
  <2>14. QueueIsKnown'
    <3>1. link.connected => client.connected \/ client.lost
      BY <1>2 DEF Available
    <3>2. /\ link'.connected => client' # NoClient /\ (client'.connected \/ client'.lost)
          /\ client'.overflowed => client'.lost
          /\ \A i \in 1 .. Len(client'.updates) : client'.updates[i].epic \in client'.subs
      BY <1>1, <2>4, <2>5, <3>1
    <3>3. \A d \in client'.subs : Of(client'.updates, {d}) = Row(d, got'[d], sent'[d])
      BY <2>4, <2>13
    <3>4. QED
      BY <2>4, <2>12, <3>2, <3>3 DEF QueueIsKnown
  <2>15. StreamTypeOK'
    BY <1>1, <2>3, <2>4, <2>11 DEF StreamIInv, StreamTypeOK
  <2>16. CallIsInStep'
    BY <1>1, <1>2, <2>4, IdleIs DEF CallIsInStep, InStep
  <2>17. QED
    BY <2>14, <2>15, <2>16 DEF StreamIInv
<1>5. QED
  BY <1>3, <1>4

LEMMA ReceiveFailsKeeps ==
    ASSUME StreamIInv, ReceiveFails \/ CallFails
    PROVE  StreamIInv'
<1>1. StepFails /\ (call.op = "restore" => call.step # "idle")
  BY DEF ReceiveFails, CallFails, Idle
<1>2. QED
  BY <1>1, StepFailsKeeps

LEMMA UnsubscribeReturnsKeeps ==
    ASSUME StreamIInv, UnsubscribeReturns
    PROVE  StreamIInv'
<1> DEFINE I == call.items
<1>1. /\ call.step = "unsubscribing" /\ call.op = "unsubscribe" /\ Available
      /\ client' = Remove(I)
      /\ link' = [link EXCEPT !.subs = @ \ I]
      /\ bridge' = [bridge EXCEPT !.subs = @ \ I]
      /\ call' = Idle /\ outcome' = "ok" /\ UNCHANGED <<sent, got>>
  BY DEF UnsubscribeReturns, Return
<1>2. bridge.connected /\ InStep
  BY <1>1 DEF StreamIInv, CallIsInStep
<1>3. /\ client # NoClient /\ link = [connected |-> TRUE, subs |-> bridge.subs]
      /\ client.subs = bridge.subs
  BY <1>2 DEF InStep
<1>4. /\ client \in Clients /\ client.subs \subseteq Epics
      /\ bridge \in [connected : BOOLEAN, subs : SUBSET Epics,
                     required : BOOLEAN, left : 0 .. MaxReconnectAttempts]
  BY <1>3 DEF StreamIInv, StreamTypeOK, Clients
<1>5. PICK s \in Seq(Updates) : s = client.updates
  BY <1>4 DEF Clients
<1>6. PICK t \in Seq(Updates) : t = Of(s, Epics \ I)
  BY OfType
<1>7. t = Of(s, client.subs \ I)
  <2>1. \A i \in 1 .. Len(s) : s[i].epic \in client.subs
    BY <1>3, <1>5 DEF StreamIInv, QueueIsKnown
  <2>2. Of(s, client.subs) = s
    BY <2>1, OfAll
  <2>3. client.subs \cap (Epics \ I) = client.subs \ I
    BY <1>4
  <2>4. Of(Of(s, client.subs), Epics \ I) = Of(s, client.subs \cap (Epics \ I))
    BY OfOf
  <2>5. QED
    BY <1>6, <2>2, <2>3, <2>4
<1>8. /\ client' = [client EXCEPT !.subs = client.subs \ I, !.updates = t]
  BY <1>1, <1>5, <1>6 DEF Remove
<1>9. /\ client' \in Clients /\ client' # NoClient /\ client'.updates = t
      /\ client'.subs = client.subs \ I /\ client'.connected = client.connected
      /\ client'.lost = client.lost /\ client'.overflowed = client.overflowed
  BY <1>4, <1>8, NoClientAssumption DEF Clients
<1>10. \A i \in 1 .. Len(t) : t[i].epic \in client.subs \ I
  BY <1>7, OfType
<1>11. \A d \in client.subs \ I : Of(t, {d}) = Of(s, {d})
  <2>1. TAKE d \in client.subs \ I
  <2>2. (client.subs \ I) \cap {d} = {d}
    OBVIOUS
  <2>3. Of(Of(s, client.subs \ I), {d}) = Of(s, (client.subs \ I) \cap {d})
    BY OfOf
  <2>4. QED
    BY <1>7, <2>2, <2>3
<1>12. link' = [connected |-> TRUE, subs |-> bridge.subs \ I]
  BY <1>1, <1>3
<1>13. /\ bridge' \in [connected : BOOLEAN, subs : SUBSET Epics,
                       required : BOOLEAN, left : 0 .. MaxReconnectAttempts]
       /\ bridge'.subs = bridge.subs \ I /\ bridge'.connected
  <2>1. bridge.subs \ I \in SUBSET Epics
    BY <1>4
  <2>2. QED
    BY <1>1, <1>2, <1>4, <2>1
<1>14. link' \in [connected : BOOLEAN, subs : SUBSET Epics]
  BY <1>12, <1>13
<1>15. StreamTypeOK'
  BY <1>1, <1>9, <1>13, <1>14, IdleIs DEF StreamIInv, StreamTypeOK
<1>16. CallIsInStep'
  BY <1>1, <1>3, <1>9, <1>12, <1>13, IdleIs DEF CallIsInStep, InStep
<1>17. QueueIsKnown'
  <2>1. /\ \A d \in Epics : got[d] <= sent[d]
        /\ \A d \in client.subs : Of(s, {d}) = Row(d, got[d], sent[d])
        /\ client.overflowed => client.lost /\ (client.connected \/ client.lost)
    BY <1>1, <1>3, <1>5 DEF StreamIInv, QueueIsKnown, Available
  <2>2. client.connected
    BY <1>1 DEF Available
  <2>3. \A d \in client'.subs : Of(client'.updates, {d}) = Row(d, got'[d], sent'[d])
    BY <1>1, <1>9, <1>11, <2>1
  <2>4. \A i \in 1 .. Len(client'.updates) : client'.updates[i].epic \in client'.subs
    BY <1>9, <1>10
  <2>5. QED
    BY <1>1, <1>9, <2>1, <2>2, <2>3, <2>4 DEF QueueIsKnown
<1>18. QED
  BY <1>15, <1>16, <1>17 DEF StreamIInv

LEMMA DisconnectKeeps ==
    ASSUME StreamIInv, NEW result, Disconnect(result)
    PROVE  StreamIInv'
<1>1. /\ call = Idle /\ call' = Idle /\ outcome' \in {"ok", "failed"}
      /\ bridge' = [connected |-> FALSE, subs |-> {}, required |-> FALSE, left |-> 0]
  BY DEF Disconnect
<1>2. 0 \in 0 .. MaxReconnectAttempts
  BY AttemptsAssumption
<1>3. CASE bridge.connected
  <2>1. link' = Disconnected /\ client' = NoClient /\ sent' = None /\ got' = None
    BY <1>3 DEF Disconnect, TearDown
  <2>2. StreamTypeOK'
    BY <1>1, <1>2, <2>1, IdleIs, NothingQueued DEF StreamTypeOK
  <2>3. CallIsInStep'
    BY <1>1, <2>1, IdleIs DEF CallIsInStep
  <2>4. QED
    BY <2>1, <2>2, <2>3, NothingQueued DEF StreamIInv
<1>4. CASE ~bridge.connected
  <2>1. UNCHANGED <<link, client, sent, got>>
    BY <1>4 DEF Disconnect
  <2>2. client = NoClient
    BY <1>1, <1>4 DEF StreamIInv, CallIsInStep
  <2>3. StreamTypeOK'
    BY <1>1, <1>2, <2>1, IdleIs DEF StreamIInv, StreamTypeOK
  <2>4. CallIsInStep'
    BY <1>1, <2>1, <2>2, IdleIs DEF CallIsInStep
  <2>5. QueueIsKnown'
    BY <2>1, QueueStays
  <2>6. QED
    BY <2>3, <2>4, <2>5 DEF StreamIInv
<1>5. QED
  BY <1>3, <1>4

LEMMA AttemptKeeps ==
    ASSUME StreamIInv, Attempt
    PROVE  StreamIInv'
<1>1. /\ call.step = "retrying" /\ bridge.left > 0
      /\ bridge' = [bridge EXCEPT !.left = @ - 1]
      /\ call' = [call EXCEPT !.step = "connecting"]
      /\ link' = Disconnected /\ client' = FreshClient /\ sent' = None /\ got' = None
      /\ outcome' = outcome
  BY DEF Attempt, OpenClient
<1>2. call.op = "restore" /\ ~bridge.connected /\ call # Idle /\ call \in Calls
  BY <1>1 DEF StreamIInv, StreamTypeOK, CallIsInStep, Idle
<1>3. call' \in Calls /\ call'.op = "restore" /\ call'.step = "connecting" /\ call' # Idle
  BY <1>1, <1>2 DEF Calls, Idle
<1>4. bridge' \in [connected : BOOLEAN, subs : SUBSET Epics,
                   required : BOOLEAN, left : 0 .. MaxReconnectAttempts]
      /\ ~bridge'.connected
  <2>1. bridge \in [connected : BOOLEAN, subs : SUBSET Epics,
                    required : BOOLEAN, left : 0 .. MaxReconnectAttempts]
    BY DEF StreamIInv, StreamTypeOK
  <2>2. bridge.left - 1 \in 0 .. MaxReconnectAttempts
    BY <1>1, <2>1, AttemptsAssumption
  <2>3. QED
    BY <1>1, <1>2, <2>1, <2>2
<1>5. StreamTypeOK'
  BY <1>1, <1>3, <1>4, NothingQueued DEF StreamIInv, StreamTypeOK
<1>6. CallIsInStep'
  BY <1>1, <1>3, <1>4, FreshClientIs DEF CallIsInStep
<1>7. QED
  BY <1>1, <1>5, <1>6, NothingQueued DEF StreamIInv

LEMMA ExhaustedKeeps ==
    ASSUME StreamIInv, Exhausted
    PROVE  StreamIInv'
<1>1. /\ call.step = "retrying"
      /\ bridge' = [bridge EXCEPT !.required = FALSE]
      /\ call' = Idle /\ outcome' = "exhausted" /\ UNCHANGED <<link, client, sent, got>>
  BY DEF Exhausted, Return
<1>2. call.op = "restore" /\ ~bridge.connected /\ client = NoClient
  BY <1>1 DEF StreamIInv, CallIsInStep
<1>3. bridge' \in [connected : BOOLEAN, subs : SUBSET Epics,
                   required : BOOLEAN, left : 0 .. MaxReconnectAttempts]
      /\ ~bridge'.connected
  BY <1>1, <1>2 DEF StreamIInv, StreamTypeOK
<1>4. StreamTypeOK'
  BY <1>1, <1>3, IdleIs DEF StreamIInv, StreamTypeOK
<1>5. CallIsInStep'
  BY <1>1, <1>2, <1>3, IdleIs DEF CallIsInStep
<1>6. QED
  BY <1>1, <1>4, <1>5, QueueStays DEF StreamIInv

LEMMA RepresentativeReconnectsKeeps ==
    ASSUME StreamIInv, RepresentativeReconnects
    PROVE  StreamIInv'
<1>1. /\ call.step = "unsubscribing" /\ call.op = "representative"
      /\ bridge' = [bridge EXCEPT !.connected = FALSE]
      /\ call' = [call EXCEPT !.step = "connecting"]
      /\ link' = Disconnected /\ client' = FreshClient /\ sent' = None /\ got' = None
      /\ outcome' = outcome
  BY DEF RepresentativeReconnects, OpenClient
<1>2. call # Idle /\ call \in Calls
  BY <1>1 DEF StreamIInv, StreamTypeOK, Idle
<1>3. call' \in Calls /\ call'.op = "representative" /\ call'.step = "connecting" /\ call' # Idle
  BY <1>1, <1>2 DEF Calls, Idle
<1>4. bridge' \in [connected : BOOLEAN, subs : SUBSET Epics,
                   required : BOOLEAN, left : 0 .. MaxReconnectAttempts]
  BY <1>1 DEF StreamIInv, StreamTypeOK
<1>5. StreamTypeOK'
  BY <1>1, <1>3, <1>4, NothingQueued DEF StreamIInv, StreamTypeOK
<1>6. CallIsInStep'
  BY <1>1, <1>3, <1>4, FreshClientIs DEF CallIsInStep
<1>7. QED
  BY <1>1, <1>5, <1>6, NothingQueued DEF StreamIInv

\* What the listener does to a client is not seen by the call under way.
LEMMA ListenerIsUnseen ==
    ASSUME StreamIInv, UNCHANGED <<bridge, link, call>>, client # NoClient,
           client' # NoClient, client'.subs = client.subs
    PROVE  CallIsInStep'
BY DEF StreamIInv, CallIsInStep, InStep

LEMMA ItemUpdateKeeps ==
    ASSUME StreamIInv, NEW e \in Epics, ItemUpdate(e)
    PROVE  StreamIInv'
<1>1. /\ client # NoClient /\ e \in client.subs /\ sent[e] < UpdateBound
      /\ sent' = [sent EXCEPT ![e] = @ + 1]
      /\ client' = Queued([epic |-> e, n |-> sent[e] + 1])
      /\ UNCHANGED <<bridge, link, call, outcome, got>>
  BY DEF ItemUpdate
<1>2. client \in Clients /\ sent \in [Epics -> 0 .. UpdateBound] /\ got \in [Epics -> 0 .. UpdateBound]
  BY <1>1 DEF StreamIInv, StreamTypeOK
<1>3. /\ sent' \in [Epics -> 0 .. UpdateBound] /\ sent'[e] = sent[e] + 1
      /\ \A d \in Epics \ {e} : sent'[d] = sent[d]
      /\ sent[e] \in Nat /\ got[e] \in Nat
  BY <1>1, <1>2, BoundAssumption
<1>4. /\ \A d \in Epics : got[d] <= sent[d]
      /\ Available => \A d \in client.subs : Of(client.updates, {d}) = Row(d, got[d], sent[d])
      /\ client.overflowed => client.lost
      /\ link.connected => client.connected \/ client.lost
      /\ \A i \in 1 .. Len(client.updates) : client.updates[i].epic \in client.subs
  BY <1>1 DEF StreamIInv, QueueIsKnown
<1>5. \A d \in Epics : got'[d] <= sent'[d]
  BY <1>1, <1>2, <1>3, <1>4, BoundAssumption
<1>6. PICK s \in Seq(Updates) : s = client.updates
  BY <1>2 DEF Clients
<1>7. PICK u \in Updates : u = [epic |-> e, n |-> sent[e] + 1]
  <2>1. sent[e] + 1 \in Nat
    BY <1>3
  <2>2. [epic |-> e, n |-> sent[e] + 1] \in Updates
    BY <2>1 DEF Updates
  <2>3. QED
    BY <2>2, Zenon
<1>8. CASE client.overflowed \/ ~Available
  <2>1. client' = client /\ ~Available
    BY <1>1, <1>4, <1>8 DEF Queued, Available
  <2>2. ~Available'
    BY <2>1 DEF Available
  <2>3. StreamTypeOK'
    BY <1>1, <1>3, <2>1 DEF StreamIInv, StreamTypeOK
  <2>4. QueueIsKnown'
    BY <1>1, <1>4, <1>5, <2>1, <2>2 DEF QueueIsKnown
  <2>5. QED
    BY <1>1, <2>1, <2>3, <2>4, ListenerIsUnseen DEF StreamIInv
<1>9. CASE ~client.overflowed /\ Available /\ Len(client.updates) >= MaxPending
  <2>1. client' = [client EXCEPT !.updates = <<>>, !.overflowed = TRUE, !.lost = TRUE]
    BY <1>1, <1>9 DEF Queued
  <2>2. <<>> \in Seq(Updates) /\ Len(<<>>) = 0
    OBVIOUS
  <2>3. /\ client' \in Clients /\ client'.lost /\ client'.updates = <<>>
        /\ client'.subs = client.subs
    BY <1>2, <2>1, <2>2 DEF Clients
  <2>4. client' # NoClient /\ ~Available'
    BY <2>3, NoClientAssumption DEF Available
  <2>5. StreamTypeOK'
    BY <1>1, <1>3, <2>3 DEF StreamIInv, StreamTypeOK
  <2>6. \A i \in 1 .. Len(client'.updates) : client'.updates[i].epic \in client'.subs
    BY <2>2, <2>3
  <2>7. QueueIsKnown'
    BY <1>5, <2>3, <2>4, <2>6 DEF QueueIsKnown
  <2>8. QED
    BY <1>1, <2>3, <2>4, <2>5, <2>7, ListenerIsUnseen DEF StreamIInv
<1>10. CASE ~client.overflowed /\ Available /\ ~(Len(client.updates) >= MaxPending)
  <2>1. client' = [client EXCEPT !.updates = Append(s, u)]
    BY <1>1, <1>6, <1>7, <1>10 DEF Queued
  <2>2. PICK t \in Seq(Updates) : t = Append(s, u) /\ Len(t) = Len(s) + 1
                /\ t[Len(s) + 1] = u /\ \A i \in 1 .. Len(s) : t[i] = s[i]
    <3>1. Append(s, u) \in Seq(Updates) /\ Len(Append(s, u)) = Len(s) + 1
      OBVIOUS
    <3>2. Append(s, u)[Len(s) + 1] = u /\ \A i \in 1 .. Len(s) : Append(s, u)[i] = s[i]
      OBVIOUS
    <3>3. QED
      BY <3>1, <3>2
  <2>3. /\ client' \in Clients /\ client'.updates = t /\ client'.subs = client.subs
        /\ client'.connected = client.connected /\ client'.lost = client.lost
        /\ client'.overflowed = client.overflowed
    BY <1>2, <2>1, <2>2 DEF Clients
  <2>4. client' # NoClient
    BY <2>3, NoClientAssumption
  <2>5. StreamTypeOK'
    BY <1>1, <1>3, <2>3 DEF StreamIInv, StreamTypeOK
  <2>6. \A i \in 1 .. Len(t) : t[i].epic \in client.subs
    <3>1. \A i \in 1 .. Len(t) : i \in 1 .. Len(s) \/ i = Len(s) + 1
      BY <2>2
    <3>2. QED
      BY <1>1, <1>4, <1>6, <1>7, <2>2, <3>1
  <2>7. \A d \in client.subs : Of(t, {d}) = Row(d, got'[d], sent'[d])
    <3>1. TAKE d \in client.subs
    <3>2. Of(t, {d}) = IF u.epic \in {d} THEN Append(Of(s, {d}), u) ELSE Of(s, {d})
      BY <2>2, OfAppend
    <3>3. Of(s, {d}) = Row(d, got[d], sent[d]) /\ d \in Epics
      BY <1>2, <1>4, <1>6, <1>10 DEF Clients
    <3>4. CASE d = e
      <4>1. Of(t, {d}) = Append(Row(e, got[e], sent[e]), [epic |-> e, n |-> sent[e] + 1])
        BY <1>7, <3>2, <3>3, <3>4
      <4>2. got[e] <= sent[e]
        BY <1>4
      <4>3. QED
        BY <1>1, <1>3, <3>4, <4>1, <4>2, RowGrows
    <3>5. CASE d # e
      BY <1>1, <1>3, <1>7, <3>2, <3>3, <3>5
    <3>6. QED
      BY <3>4, <3>5
  <2>8. QueueIsKnown'
    <3>1. \A d \in client'.subs : Of(client'.updates, {d}) = Row(d, got'[d], sent'[d])
      BY <2>3, <2>7
    <3>2. \A i \in 1 .. Len(client'.updates) : client'.updates[i].epic \in client'.subs
      BY <2>3, <2>6
    <3>3. QED
      BY <1>1, <1>4, <1>5, <2>3, <2>4, <3>1, <3>2 DEF QueueIsKnown
  <2>9. QED
    BY <1>1, <2>3, <2>4, <2>5, <2>8, ListenerIsUnseen DEF StreamIInv
<1>11. QED
  BY <1>8, <1>9, <1>10

LEMMA ConnectionLostKeeps ==
    ASSUME StreamIInv, ConnectionLost
    PROVE  StreamIInv'
<1>1. /\ client # NoClient
      /\ client' = [client EXCEPT !.connected = FALSE, !.lost = TRUE, !.updates = <<>>]
      /\ UNCHANGED <<bridge, link, call, outcome, sent, got>>
  BY DEF ConnectionLost
<1>2. client \in Clients
  BY <1>1 DEF StreamIInv, StreamTypeOK
<1>3. <<>> \in Seq(Updates) /\ Len(<<>>) = 0
  OBVIOUS
<1>4. client' \in Clients /\ client'.lost /\ client'.updates = <<>> /\ client'.subs = client.subs
  BY <1>1, <1>2, <1>3 DEF Clients
<1>5. client' # NoClient /\ ~Available'
  BY <1>4, NoClientAssumption DEF Available
<1>6. StreamTypeOK'
  BY <1>1, <1>4 DEF StreamIInv, StreamTypeOK
<1>7. \A i \in 1 .. Len(client'.updates) : client'.updates[i].epic \in client'.subs
  BY <1>3, <1>4
<1>8. \A e \in Epics : got'[e] <= sent'[e]
  BY <1>1 DEF StreamIInv, QueueIsKnown
<1>9. QueueIsKnown'
  BY <1>4, <1>5, <1>7, <1>8 DEF QueueIsKnown
<1>10. QED
  BY <1>1, <1>4, <1>5, <1>6, <1>9, ListenerIsUnseen DEF StreamIInv

\* An operation of the bridge, of any caller.
Operation ==
    \/ Connect
    \/ \E items \in SUBSET Epics : Subscribe(items) \/ Unsubscribe(items) \/ Representative(items)
    \/ Receive
    \/ ReceiveFails
    \/ Restore
    \/ \E result \in {"ok", "failed"} : Disconnect(result)

\* A step of the stream.
StreamStep == Operation \/ CallerSteps \/ ListenerSteps \/ UNCHANGED streamVars

LEMMA StreamStarts ==
    ASSUME StreamInit
    PROVE  StreamIInv
<1>1. /\ bridge = [connected |-> FALSE, subs |-> {}, required |-> FALSE, left |-> 0]
      /\ link = Disconnected /\ client = NoClient /\ call = Idle /\ outcome = "none"
      /\ sent = None /\ got = None
  BY DEF StreamInit
<1>2. /\ link \in [connected : BOOLEAN, subs : SUBSET Epics] /\ ~link.connected
  BY <1>1 DEF Disconnected
<1>3. /\ sent \in [Epics -> 0 .. UpdateBound] /\ got \in [Epics -> 0 .. UpdateBound]
      /\ \A e \in Epics : got[e] <= sent[e]
  BY <1>1, BoundAssumption DEF None
<1>4. StreamTypeOK
  BY <1>1, <1>2, <1>3, IdleIs, AttemptsAssumption DEF StreamTypeOK
<1>5. CallIsInStep
  BY <1>1, IdleIs DEF CallIsInStep
<1>6. QueueIsKnown
  BY <1>1, <1>2, <1>3 DEF QueueIsKnown
<1>7. QED
  BY <1>4, <1>5, <1>6 DEF StreamIInv

LEMMA StreamStepKeeps ==
    ASSUME StreamIInv, StreamStep
    PROVE  StreamIInv'
<1>1. CASE Operation
  BY <1>1, ConnectKeeps, BeginKeeps, ReceiveKeeps, ReceiveFailsKeeps, DisconnectKeeps
     DEF Operation
<1>2. CASE CallerSteps
  BY <1>2, ConnectReturnsKeeps, SubscribeItemKeeps, SubscribeReturnsKeeps,
     UnsubscribeReturnsKeeps, AttemptKeeps, ExhaustedKeeps,
     RepresentativeReconnectsKeeps, ReceiveFailsKeeps
     DEF CallerSteps
<1>3. CASE ListenerSteps
  BY <1>3, ItemUpdateKeeps, ConnectionLostKeeps DEF ListenerSteps
<1>4. CASE UNCHANGED streamVars
  <2>1. UNCHANGED <<bridge, link, client, call, outcome, sent, got>>
    BY <1>4 DEF streamVars
  <2>2. StreamTypeOK' /\ CallIsInStep'
    BY <2>1 DEF StreamIInv, StreamTypeOK, CallIsInStep, InStep
  <2>3. QED
    BY <2>1, <2>2, QueueStays DEF StreamIInv
<1>5. QED
  BY <1>1, <1>2, <1>3, <1>4 DEF StreamStep

LEMMA StreamIsFaithfulThen ==
    ASSUME StreamIInv
    PROVE  StreamIsFaithful
<1>1. LayersAgree
  BY DEF StreamIInv, CallIsInStep, InStep, LayersAgree
<1>2. NothingIsDropped
  BY DEF StreamIInv, QueueIsKnown, NothingIsDropped, Row
<1>3. QED
  BY <1>1, <1>2 DEF StreamIsFaithful

-----------------------------------------------------------------------------
(* The smoke. *)

LEMMA SmokeMovesStream ==
    ASSUME StreamIInv, [Next]_vars
    PROVE  StreamStep
<1>1. CASE UNCHANGED vars
  BY <1>1 DEF vars, StreamStep
<1>2. CASE Preflight \/ Authenticate \/ ReadAccount \/ CollectEnds \/ CollectSucceeds
           \/ CheckClock \/ NoBridge \/ Logout \/ Expire
  <2>1. UNCHANGED streamVars
    BY <1>2 DEF Preflight, Authenticate, ReadAccount, CollectEnds, CollectSucceeds,
                CheckClock, NoBridge, Logout, Expire
  <2>2. QED
    BY <2>1 DEF StreamStep
<1>3. CASE \E e \in Epics : ReadMarket(e) \/ ReadHistory(e)
  BY <1>3 DEF ReadMarket, ReadHistory, StreamStep
<1>4. CASE ConnectStream
  BY <1>4 DEF ConnectStream, StreamStep, Operation
<1>5. CASE SubscribeStream
  BY <1>5 DEF SubscribeStream, StreamStep, Operation
<1>6. CASE CollectQuote
  BY <1>6 DEF CollectQuote, StreamStep, Operation
<1>7. CASE ReconnectStream
  <2>1. Representative(Representatives) /\ Representatives \in SUBSET Epics
    BY <1>7, RepresentativesAssumption DEF ReconnectStream
  <2>2. QED
    BY <2>1 DEF StreamStep, Operation
<1>8. CASE CleanupUnsubscribes
  <2>1. Unsubscribe(bridge.subs) /\ bridge.subs \in SUBSET Epics
    BY <1>8 DEF CleanupUnsubscribes, StreamIInv, StreamTypeOK
  <2>2. QED
    BY <2>1 DEF StreamStep, Operation
<1>9. CASE CleanupDisconnects
  BY <1>9 DEF CleanupDisconnects, StreamStep, Operation
<1>10. CASE AnyCaller
  BY <1>10 DEF AnyCaller, StreamStep, Operation
<1>11. CASE CallerSteps \/ ListenerSteps
  BY <1>11 DEF StreamStep
<1>12. QED
  BY <1>1, <1>2, <1>3, <1>4, <1>5, <1>6, <1>7, <1>8, <1>9, <1>10, <1>11
     DEF Next, SmokeSteps

(* The caller and the library's thread agree on what the stream is and on  *)
(* what came over it, under the smoke and under any other caller of the    *)
(* bridge: the layers agree between two operations, and what is queued of  *)
(* an item is all that came since the last update that was delivered       *)
(* (stream_bridge.py:412, local_demo_stream_transport.py:842).             *)
THEOREM StreamIsFaithfulInSmoke == Spec => []StreamIsFaithful
<1>1. Init => StreamIInv
  BY StreamStarts DEF Init
<1>2. StreamIInv /\ [Next]_vars => StreamIInv'
  BY SmokeMovesStream, StreamStepKeeps
<1>3. StreamIInv => StreamIsFaithful
  BY StreamIsFaithfulThen
<1>4. QED
  BY <1>1, <1>2, <1>3, PTL DEF Spec

\* The phases before the stream, and those after it.
Before == {"preflight", "auth", "account", "markets", "history", "connect"}
After == {"clock", "finally", "logout", "done"}
Streaming == {"collect", "reconnect", "recollect"}

\* Before and after its phases of the stream the smoke holds none.
StreamIsClosed ==
    /\ phase \in Before \cup After => call = Idle /\ ~bridge.connected
    /\ phase \in Before => /\ bridge.subs = {}
                           /\ report.valid = {}
                           /\ report.stream = "not_run"
                           /\ report.disconnect = "NOT_REQUIRED"

\* A session needs a broker, and so do the phases that ask one.
BrokerIsKnown ==
    /\ report.broker \/ (rest.session = "none" /\ report.valid = {})
    /\ phase \notin {"off", "preflight", "finally", "logout", "done"} => report.broker

\* What the report has said of the stream when its phases are over.
StreamIsReported ==
    /\ report.valid # {} /\ phase \notin Streaming => report.stream \in {"error", "ok"}
    /\ report.stream \in {"error", "ok"} /\ phase \in After => report.disconnect # "NOT_REQUIRED"
    /\ rest.exhausted => report.blocked
    /\ phase = "off" => report.valid = {}

\* The verdict is the last word.
VerdictIsLast ==
    /\ phase # "done" => report.status = "none"
    /\ phase = "done" => rest.session = "none" \/ report.logout = "FAILED"
    /\ PassIsEarned

SmokeIInv ==
    /\ TypeOK
    /\ StreamIInv
    /\ StreamIsClosed
    /\ BrokerIsKnown
    /\ StreamIsReported
    /\ VerdictIsLast

Reports == [broker : BOOLEAN, bridge : BOOLEAN, blocked : BOOLEAN,
            stream : {"not_run", "unavailable", "error", "ok"}, valid : SUBSET Epics,
            disconnect : {"NOT_REQUIRED", "PASS", "FAILED", "ALREADY_DISCONNECTED"},
            logout : {"NOT_REQUIRED", "LOGGED_OUT", "FAILED"},
            status : {"none", "BLOCKED", "PASS"}]

Rests == [session : {"none", "open", "expired"}, exhausted : BOOLEAN,
          left : [{"market", "history"} -> Nat], logins : 0 .. MaxLogins]

LEMMA TypeIs ==
    TypeOK <=> /\ StreamTypeOK /\ phase \in Phases /\ todo \in SUBSET Epics
               /\ rest \in Rests /\ report \in Reports
BY DEF TypeOK, Rests, Reports

\* What a step keeps of a smoke that has its type and its stream.
LEMMA SmokeStepIs ==
    ASSUME SmokeIInv, [Next]_vars, phase' \in Phases, todo' \in SUBSET Epics,
           rest' \in Rests, report' \in Reports
    PROVE  TypeOK' /\ StreamIInv'
<1>1. StreamIInv'
  BY SmokeMovesStream, StreamStepKeeps DEF SmokeIInv
<1>2. QED
  BY <1>1 DEF StreamIInv, TypeOK, Rests, Reports

LEMMA BudgetIsNatural ==
    ASSUME NEW budget \in Budgets
    PROVE  budget \in [{"market", "history"} -> Nat]
<1>1. IsFiniteSet(Representatives) /\ IsFiniteSet(Epics) /\ Epics # {} /\ Representatives # {}
  BY EpicsAssumption, RepresentativesAssumption, FS_Subset
<1>2. Cardinality(Epics) \in Nat \ {0} /\ Cardinality(Representatives) \in Nat \ {0}
  BY <1>1, FS_CardinalityType, FS_EmptySet
<1>3. QED
  BY <1>2 DEF Budgets

LEMMA SmokeStarts ==
    ASSUME Init
    PROVE  SmokeIInv
<1>1. StreamIInv /\ call = Idle /\ ~bridge.connected /\ bridge.subs = {}
  BY StreamStarts DEF Init, StreamInit
<1>2. PICK budget \in Budgets :
         rest = [session |-> "none", exhausted |-> FALSE, logins |-> 0, left |-> budget]
  BY DEF Init
<1>3. /\ phase \in {"off", "preflight"} /\ todo = {}
      /\ report = [broker |-> FALSE, bridge |-> FALSE, blocked |-> FALSE,
                   stream |-> "not_run", valid |-> {}, disconnect |-> "NOT_REQUIRED",
                   logout |-> "NOT_REQUIRED", status |-> "none"]
  BY DEF Init
<1>4. rest \in Rests
  BY <1>2, BudgetIsNatural, LoginsAssumption DEF Rests
<1>5. report \in Reports
  BY <1>3 DEF Reports
<1>6. TypeOK
  BY <1>1, <1>3, <1>4, <1>5 DEF TypeOK, Rests, Reports, StreamIInv, Phases
<1>7. StreamIsClosed
  BY <1>1, <1>3 DEF StreamIsClosed
<1>8. BrokerIsKnown
  BY <1>2, <1>3 DEF BrokerIsKnown
<1>9. StreamIsReported
  BY <1>2, <1>3 DEF StreamIsReported, Streaming, After
<1>10. VerdictIsLast
  BY <1>3 DEF VerdictIsLast, PassIsEarned
<1>11. QED
  BY <1>1, <1>6, <1>7, <1>8, <1>9, <1>10 DEF SmokeIInv

LEMMA RequestIs ==
    ASSUME rest \in Rests, NEW answer, NEW left \in [{"market", "history"} -> Nat],
           Request(answer, left)
    PROVE  rest' \in Rests /\ (rest'.exhausted <=> answer = "allowance")
<1>1. PICK session \in {"open", rest.session} :
         LET login == IF session = rest.session THEN 0 ELSE 1 IN
         /\ rest.logins + login <= MaxLogins
         /\ rest' = [session |-> session, exhausted |-> answer = "allowance",
                     logins |-> rest.logins + login, left |-> left]
  BY DEF Request
<1>2. PICK login \in {0, 1} :
         /\ rest.logins + login <= MaxLogins
         /\ rest' = [session |-> session, exhausted |-> answer = "allowance",
                     logins |-> rest.logins + login, left |-> left]
  BY <1>1
<1>3. rest.logins + login \in 0 .. MaxLogins
  BY <1>2, LoginsAssumption DEF Rests
<1>4. (answer = "allowance") \in BOOLEAN
  OBVIOUS
<1>5. session \in {"none", "open", "expired"}
  BY <1>1 DEF Rests
<1>6. QED
  BY <1>2, <1>3, <1>4, <1>5 DEF Rests

\* A step of the phases before the stream: the stream is left alone.
LEMMA BlockKeeps ==
    ASSUME SmokeIInv, [Next]_vars, phase \in Before, Block, UNCHANGED streamVars,
           rest' \in Rests, report.broker \/ rest'.session = "none"
    PROVE  SmokeIInv'
<1>1. /\ phase' = "finally" /\ todo' = {}
      /\ report' = [report EXCEPT !.blocked = TRUE]
  BY DEF Block, Go
<1>2. report \in Reports /\ call = Idle /\ ~bridge.connected
      /\ report.valid = {} /\ report.stream = "not_run" /\ report.disconnect = "NOT_REQUIRED"
      /\ report.status = "none"
  BY TypeIs DEF SmokeIInv, StreamIsClosed, VerdictIsLast, Before
<1>3. report' \in Reports /\ report'.blocked /\ report'.valid = {} /\ report'.stream = "not_run"
      /\ report'.status = "none" /\ report'.broker = report.broker
  BY <1>1, <1>2 DEF Reports
<1>4. TypeOK' /\ StreamIInv'
  BY <1>1, <1>3, SmokeStepIs DEF Phases
<1>5. StreamIsClosed'
  BY <1>1, <1>2 DEF StreamIsClosed, Before, streamVars
<1>6. BrokerIsKnown'
  BY <1>1, <1>3 DEF BrokerIsKnown
<1>7. StreamIsReported'
  BY <1>1, <1>3 DEF StreamIsReported
<1>8. VerdictIsLast'
  BY <1>1, <1>3 DEF VerdictIsLast, PassIsEarned
<1>9. QED
  BY <1>4, <1>5, <1>6, <1>7, <1>8 DEF SmokeIInv

LEMMA BeforeKeeps ==
    ASSUME SmokeIInv, [Next]_vars, phase \in Before, phase' \in Before, UNCHANGED streamVars,
           todo' \in SUBSET Epics, rest' \in Rests, report' \in Reports,
           report'.broker, rest'.exhausted => report'.blocked,
           report'.valid = report.valid, report'.stream = report.stream,
           report'.disconnect = report.disconnect, report'.status = report.status
    PROVE  SmokeIInv'
<1>1. /\ call = Idle /\ ~bridge.connected /\ bridge.subs = {}
      /\ report.valid = {} /\ report.stream = "not_run" /\ report.disconnect = "NOT_REQUIRED"
      /\ report.status = "none"
  BY DEF SmokeIInv, StreamIsClosed, VerdictIsLast, Before
<1>2. TypeOK' /\ StreamIInv'
  BY SmokeStepIs DEF Phases, Before
<1>3. StreamIsClosed'
  BY <1>1 DEF StreamIsClosed, streamVars
<1>4. BrokerIsKnown'
  BY <1>1 DEF BrokerIsKnown, Before
<1>5. StreamIsReported'
  BY <1>1 DEF StreamIsReported
<1>6. VerdictIsLast'
  BY <1>1 DEF VerdictIsLast, PassIsEarned, Before
<1>7. QED
  BY <1>2, <1>3, <1>4, <1>5, <1>6 DEF SmokeIInv

LEMMA PreflightKeeps ==
    ASSUME SmokeIInv, Preflight, [Next]_vars
    PROVE  SmokeIInv'
<1>1. /\ phase = "preflight" /\ phase \in Before /\ rest \in Rests /\ report \in Reports
      /\ UNCHANGED <<streamVars, rest>> /\ (rest.exhausted => report.blocked)
      /\ (report.broker \/ rest.session = "none")
  BY TypeIs DEF Preflight, SmokeIInv, Before, StreamIsReported, BrokerIsKnown
<1>2. CASE Block
  BY <1>1, <1>2, BlockKeeps
<1>3. CASE Go("auth", {}) /\ report' = [report EXCEPT !.broker = TRUE]
  <2>1. report' \in Reports /\ report'.broker /\ report'.valid = report.valid
        /\ report'.stream = report.stream /\ report'.disconnect = report.disconnect
        /\ report'.status = report.status /\ report'.blocked = report.blocked
    BY <1>1, <1>3 DEF Reports
  <2>2. phase' = "auth" /\ todo' = {}
    BY <1>3 DEF Go
  <2>3. QED
    BY <1>1, <2>1, <2>2, BeforeKeeps DEF Before
<1>4. QED
  BY <1>2, <1>3 DEF Preflight

LEMMA AskingIs ==
    ASSUME SmokeIInv, phase \in {"auth", "account", "markets", "history"}
    PROVE  /\ phase \in Before /\ rest \in Rests /\ report \in Reports /\ report.broker
           /\ rest.left \in [{"market", "history"} -> Nat]
BY TypeIs DEF SmokeIInv, BrokerIsKnown, Before, Rests

LEMMA AuthenticateKeeps ==
    ASSUME SmokeIInv, Authenticate, [Next]_vars
    PROVE  SmokeIInv'
<1>1. /\ phase = "auth" /\ phase \in Before /\ rest \in Rests /\ report \in Reports
      /\ report.broker /\ UNCHANGED streamVars
      /\ rest.left \in [{"market", "history"} -> Nat]
  BY AskingIs DEF Authenticate
<1>2. PICK answer \in Answers :
         /\ Request(answer, rest.left)
         /\ IF answer = "document" THEN Go("account", {}) /\ UNCHANGED report ELSE Block
  BY DEF Authenticate
<1>3. rest' \in Rests /\ (rest'.exhausted <=> answer = "allowance")
  BY <1>1, <1>2, RequestIs
<1>4. CASE answer = "document"
  BY <1>1, <1>2, <1>3, <1>4, BeforeKeeps DEF Go, Before
<1>5. CASE answer # "document"
  BY <1>1, <1>2, <1>3, <1>5, BlockKeeps
<1>6. QED
  BY <1>4, <1>5

LEMMA ReadAccountKeeps ==
    ASSUME SmokeIInv, ReadAccount, [Next]_vars
    PROVE  SmokeIInv'
<1>1. /\ phase = "account" /\ phase \in Before /\ rest \in Rests /\ report \in Reports
      /\ report.broker /\ UNCHANGED streamVars
      /\ rest.left \in [{"market", "history"} -> Nat]
  BY AskingIs DEF ReadAccount
<1>2. PICK answer \in Answers :
         /\ Request(answer, rest.left)
         /\ \/ /\ answer = "document"
               /\ Go("markets", Epics)
               /\ report' = [report EXCEPT !.bridge = TRUE]
            \/ Block
  BY DEF ReadAccount
<1>3. rest' \in Rests /\ (rest'.exhausted <=> answer = "allowance")
  BY <1>1, <1>2, RequestIs
<1>4. CASE Block
  BY <1>1, <1>3, <1>4, BlockKeeps
<1>5. CASE ~Block
  <2>1. /\ answer = "document" /\ phase' = "markets" /\ todo' = Epics
        /\ report' = [report EXCEPT !.bridge = TRUE]
    BY <1>2, <1>5 DEF Go
  <2>2. /\ report' \in Reports /\ report'.broker /\ report'.valid = report.valid
        /\ report'.stream = report.stream /\ report'.disconnect = report.disconnect
        /\ report'.status = report.status
    BY <1>1, <2>1 DEF Reports
  <2>3. QED
    BY <1>1, <1>3, <2>1, <2>2, BeforeKeeps DEF Before
<1>6. QED
  BY <1>4, <1>5

LEMMA ReadIs ==
    ASSUME rest \in Rests, NEW answer, NEW category \in {"market", "history"},
           Read(category, answer)
    PROVE  rest' \in Rests /\ (rest'.exhausted <=> answer = "allowance")
<1>1. [rest.left EXCEPT ![category] = @ - 1] \in [{"market", "history"} -> Nat]
  BY DEF Read, Rests
<1>2. QED
  BY <1>1, RequestIs DEF Read

LEMMA ReadMarketKeeps ==
    ASSUME SmokeIInv, NEW e \in Epics, ReadMarket(e), [Next]_vars
    PROVE  SmokeIInv'
<1>1. /\ phase = "markets" /\ phase \in Before /\ rest \in Rests /\ report \in Reports
      /\ report.broker /\ UNCHANGED streamVars /\ todo \in SUBSET Epics
  BY AskingIs, TypeIs DEF ReadMarket, SmokeIInv
<1>2. CASE OverBudget("market") /\ Block
  BY <1>1, <1>2, BlockKeeps DEF OverBudget
<1>3. ASSUME NEW answer \in Answers, Read("market", answer),
             IF answer = "allowance" \/ (todo = {e} /\ (report.blocked \/ answer = "refused"))
             THEN Block
             ELSE /\ IF todo = {e} THEN Go("history", Representatives)
                                   ELSE Go("markets", todo \ {e})
                  /\ report' = [report EXCEPT !.blocked = @ \/ answer = "refused"]
      PROVE  SmokeIInv'
  <2>1. rest' \in Rests /\ (rest'.exhausted <=> answer = "allowance")
    BY <1>1, <1>3, ReadIs
  <2>2. CASE Block
    BY <1>1, <2>1, <2>2, BlockKeeps
  <2>3. CASE ~Block
    <3>1. /\ answer # "allowance" /\ phase' \in {"markets", "history"} /\ todo' \in SUBSET Epics
          /\ report' = [report EXCEPT !.blocked = @ \/ answer = "refused"]
      BY <1>1, <1>3, <2>3, RepresentativesAssumption DEF Go
    <3>2. (report.blocked \/ answer = "refused") \in BOOLEAN
      OBVIOUS
    <3>3. /\ report' \in Reports /\ report'.broker /\ report'.valid = report.valid
          /\ report'.stream = report.stream /\ report'.disconnect = report.disconnect
          /\ report'.status = report.status
      BY <1>1, <3>1, <3>2 DEF Reports
    <3>4. QED
      BY <1>1, <2>1, <3>1, <3>3, BeforeKeeps DEF Before
  <2>4. QED
    BY <2>2, <2>3
<1>4. QED
  BY <1>2, <1>3 DEF ReadMarket

LEMMA ReadHistoryKeeps ==
    ASSUME SmokeIInv, NEW e \in Epics, ReadHistory(e), [Next]_vars
    PROVE  SmokeIInv'
<1>1. /\ phase = "history" /\ phase \in Before /\ rest \in Rests /\ report \in Reports
      /\ report.broker /\ UNCHANGED streamVars /\ todo \in SUBSET Epics
  BY AskingIs, TypeIs DEF ReadHistory, SmokeIInv
<1>2. CASE OverBudget("history") /\ Block
  BY <1>1, <1>2, BlockKeeps DEF OverBudget
<1>3. ASSUME NEW answer \in Answers, Read("history", answer),
             IF answer # "document" THEN Block
             ELSE /\ IF todo = {e} THEN Go("connect", {}) ELSE Go("history", todo \ {e})
                  /\ UNCHANGED report
      PROVE  SmokeIInv'
  <2>1. rest' \in Rests /\ (rest'.exhausted <=> answer = "allowance")
    BY <1>1, <1>3, ReadIs
  <2>2. CASE answer # "document"
    BY <1>1, <1>3, <2>1, <2>2, BlockKeeps
  <2>3. CASE answer = "document"
    <3>1. phase' \in {"history", "connect"} /\ todo' \in SUBSET Epics /\ report' = report
      BY <1>1, <1>3, <2>3 DEF Go
    <3>2. QED
      BY <1>1, <2>1, <2>3, <3>1, BeforeKeeps DEF Before
  <2>4. QED
    BY <2>2, <2>3
<1>4. QED
  BY <1>2, <1>3 DEF ReadHistory

\* A step to one of the phases in which the smoke may hold a stream.
LEMMA DuringKeeps ==
    ASSUME SmokeIInv, [Next]_vars, phase # "off",
           phase' \in {"subscribe", "cleanup"} \cup Streaming, todo' \in SUBSET Epics,
           rest' = rest, report' \in Reports,
           report'.broker, report.blocked => report'.blocked, report'.status = "none",
           report'.valid # {} /\ phase' \notin Streaming => report'.stream \in {"error", "ok"}
    PROVE  SmokeIInv'
<1>1. phase' \in Phases /\ phase' \notin Before \cup After /\ phase' # "off" /\ phase' # "done"
  BY DEF Phases, Before, After, Streaming
<1>2. TypeOK' /\ StreamIInv'
  BY <1>1, SmokeStepIs, TypeIs DEF SmokeIInv
<1>3. StreamIsClosed'
  BY <1>1 DEF StreamIsClosed
<1>4. BrokerIsKnown'
  BY <1>1 DEF BrokerIsKnown
<1>5. StreamIsReported'
  BY <1>1 DEF StreamIsReported, SmokeIInv
<1>6. VerdictIsLast'
  BY <1>1 DEF VerdictIsLast, PassIsEarned
<1>7. QED
  BY <1>2, <1>3, <1>4, <1>5, <1>6 DEF SmokeIInv

LEMMA HoldingIs ==
    ASSUME SmokeIInv, phase \in {"connect", "subscribe", "cleanup"} \cup Streaming
    PROVE  /\ rest \in Rests /\ report \in Reports /\ todo \in SUBSET Epics
           /\ phase # "off" /\ phase # "done" /\ report.broker /\ report.status = "none"
BY TypeIs DEF SmokeIInv, BrokerIsKnown, VerdictIsLast, Streaming

LEMMA ConnectStreamKeeps ==
    ASSUME SmokeIInv, ConnectStream, [Next]_vars
    PROVE  SmokeIInv'
<1>1. /\ phase = "connect" /\ rest' = rest /\ report \in Reports /\ report.broker
      /\ report.status = "none" /\ report.valid = {}
  BY HoldingIs DEF ConnectStream, SmokeIInv, StreamIsClosed, Before
<1>2. /\ phase' \in {"cleanup", "subscribe"} /\ todo' = {}
      /\ report' = [report EXCEPT !.stream = "unavailable"] \/ report' = report
  BY DEF ConnectStream, Go
<1>3. /\ report' \in Reports /\ report'.broker /\ report'.blocked = report.blocked
      /\ report'.status = "none" /\ report'.valid = {}
  BY <1>1, <1>2 DEF Reports
<1>4. QED
  BY <1>1, <1>2, <1>3, DuringKeeps

\* The stream has failed.
LEMMA StreamErrorIs ==
    ASSUME report \in Reports, StreamError
    PROVE  /\ report' \in Reports /\ report'.stream = "error"
           /\ report'.broker = report.broker /\ report'.blocked = report.blocked
           /\ report'.status = report.status
BY DEF Reports, StreamError

LEMMA SubscribeStreamKeeps ==
    ASSUME SmokeIInv, SubscribeStream, [Next]_vars
    PROVE  SmokeIInv'
<1>1. /\ phase = "subscribe" /\ phase # "off" /\ rest' = rest /\ report \in Reports
      /\ report.broker /\ report.status = "none"
  BY HoldingIs DEF SubscribeStream
<1>2. CASE outcome = "ok"
  <2>1. phase' = "collect" /\ todo' = Epics /\ report' = report
    BY <1>2 DEF SubscribeStream, Go
  <2>2. QED
    BY <1>1, <2>1, DuringKeeps DEF Streaming
<1>3. CASE outcome # "ok"
  <2>1. phase' = "cleanup" /\ todo' = {} /\ StreamError
    BY <1>3 DEF SubscribeStream, Go
  <2>2. QED
    BY <1>1, <2>1, StreamErrorIs, DuringKeeps
<1>4. QED
  BY <1>2, <1>3

LEMMA CollectQuoteKeeps ==
    ASSUME SmokeIInv, CollectQuote, [Next]_vars
    PROVE  SmokeIInv'
<1>1. /\ phase \in {"collect", "recollect"} /\ call = Idle /\ bridge.connected /\ rest' = rest
      /\ (Receive \/ ReceiveFails)
  BY DEF CollectQuote, Collecting
<1>2. /\ report \in Reports /\ report.broker /\ report.status = "none" /\ phase # "off"
      /\ todo \in SUBSET Epics
  BY <1>1, HoldingIs DEF Streaming
<1>3. CASE outcome' = "quote"
  <2>1. Receive /\ NextUpdates # <<>>
    BY <1>1, <1>3 DEF Receive, ReceiveFails, StepFails, Return, Idle
  <2>2. PICK e \in Epics : e = Head(NextUpdates).epic
    <3>1. client.updates \in Seq(Updates) /\ NextUpdates = client.updates
      BY <1>1, ClientIsLive DEF SmokeIInv
    <3>2. PICK s \in Seq(Updates) : s = NextUpdates
      BY <3>1
    <3>3. Head(s) \in Updates
      BY <2>1, <3>2
    <3>4. QED
      BY <3>2, <3>3 DEF Updates
  <2>3. PICK quality \in {"VALID_QUOTE", "REJECTED"}, useful \in {{}, {e}} :
           /\ phase' = phase /\ todo' = todo \ useful
           /\ report' = IF phase = "collect"
                        THEN [report EXCEPT !.valid = @ \cup useful,
                                 !.stream = IF quality = "REJECTED" THEN "error" ELSE @]
                        ELSE report
    BY <1>3, <2>2 DEF CollectQuote, Go
  <2>4. /\ report' \in Reports /\ report'.broker /\ report'.blocked = report.blocked
        /\ report'.status = "none"
    <3>1. report.valid \cup useful \in SUBSET Epics
      BY <1>2 DEF Reports
    <3>2. (IF quality = "REJECTED" THEN "error" ELSE report.stream)
              \in {"not_run", "unavailable", "error", "ok"}
      BY <1>2 DEF Reports
    <3>3. QED
      BY <1>2, <2>3, <3>1, <3>2 DEF Reports
  <2>5. QED
    BY <1>1, <1>2, <2>3, <2>4, DuringKeeps DEF Streaming
<1>4. CASE outcome' # "quote"
  <2>1. phase' = "cleanup" /\ todo' = {} /\ StreamError
    BY <1>4 DEF CollectQuote, Go
  <2>2. QED
    BY <1>1, <1>2, <2>1, StreamErrorIs, DuringKeeps
<1>5. QED
  BY <1>3, <1>4

LEMMA CollectEndsKeeps ==
    ASSUME SmokeIInv, CollectEnds, [Next]_vars
    PROVE  SmokeIInv'
<1>1. /\ phase \in {"collect", "recollect"} /\ rest' = rest
      /\ phase' = "cleanup" /\ todo' = {} /\ StreamError
  BY DEF CollectEnds, Collecting, Go
<1>2. report \in Reports /\ report.broker /\ report.status = "none" /\ phase # "off"
  BY <1>1, HoldingIs DEF Streaming
<1>3. QED
  BY <1>1, <1>2, StreamErrorIs, DuringKeeps

LEMMA CollectSucceedsKeeps ==
    ASSUME SmokeIInv, CollectSucceeds, [Next]_vars
    PROVE  SmokeIInv'
<1>1. phase \in {"collect", "recollect"} /\ rest' = rest
  BY DEF CollectSucceeds, Collecting
<1>2. report \in Reports /\ report.broker /\ report.status = "none" /\ phase # "off"
  BY <1>1, HoldingIs DEF Streaming
<1>3. CASE phase = "recollect"
  <2>1. phase' = "cleanup" /\ todo' = {} /\ report' = [report EXCEPT !.stream = "ok"]
    BY <1>3 DEF CollectSucceeds, Go
  <2>2. /\ report' \in Reports /\ report'.broker /\ report'.blocked = report.blocked
        /\ report'.status = "none" /\ report'.stream = "ok"
    BY <1>2, <2>1 DEF Reports
  <2>3. QED
    BY <1>1, <1>2, <2>1, <2>2, DuringKeeps
<1>4. CASE phase # "recollect"
  <2>1. /\ todo' = {} /\ report' = report
        /\ (report.stream = "error" /\ phase' = "cleanup") \/ phase' = "reconnect"
    BY <1>4 DEF CollectSucceeds, Go
  <2>2. QED
    BY <1>1, <1>2, <2>1, DuringKeeps DEF Streaming
<1>5. QED
  BY <1>3, <1>4

LEMMA ReconnectStreamKeeps ==
    ASSUME SmokeIInv, ReconnectStream, [Next]_vars
    PROVE  SmokeIInv'
<1>1. /\ phase = "reconnect" /\ rest' = rest /\ report' = report
      /\ phase' = "recollect" /\ todo' \in SUBSET Epics
  BY RepresentativesAssumption DEF ReconnectStream, Go
<1>2. report \in Reports /\ report.broker /\ report.status = "none" /\ phase # "off"
  BY <1>1, HoldingIs DEF Streaming
<1>3. QED
  BY <1>1, <1>2, DuringKeeps DEF Streaming

LEMMA CleanupUnsubscribesKeeps ==
    ASSUME SmokeIInv, CleanupUnsubscribes, [Next]_vars
    PROVE  SmokeIInv'
<1>1. /\ phase \in {"cleanup", "finally"} /\ bridge.connected /\ rest' = rest /\ report' = report
      /\ phase' = phase /\ todo' = Epics
  BY DEF CleanupUnsubscribes, Unsubscribe, Go
<1>2. phase = "cleanup"
  BY <1>1 DEF SmokeIInv, StreamIsClosed, After
<1>3. report \in Reports /\ report.broker /\ report.status = "none" /\ phase # "off"
  BY <1>2, HoldingIs DEF Streaming
<1>4. report.valid # {} => report.stream \in {"error", "ok"}
  BY <1>2 DEF SmokeIInv, StreamIsReported, Streaming
<1>5. QED
  BY <1>1, <1>2, <1>3, <1>4, DuringKeeps

\* A step past the stream's phases, before the verdict.
LEMMA AfterKeeps ==
    ASSUME SmokeIInv, [Next]_vars, phase' \in {"clock", "finally", "logout"}, phase # "off",
           todo' \in SUBSET Epics, rest' = rest, report' \in Reports,
           call' = Idle, ~bridge'.connected,
           report'.broker = report.broker, report.blocked => report'.blocked,
           report'.status = "none", report'.valid = report.valid,
           report'.stream = report.stream,
           phase' = "clock" => report'.broker,
           report.valid # {} => report.stream \in {"error", "ok"},
           report.stream \in {"error", "ok"} => report'.disconnect # "NOT_REQUIRED"
    PROVE  SmokeIInv'
<1>1. phase' \in Phases /\ phase' \notin Before /\ phase' # "off" /\ phase' # "done"
  BY DEF Phases, Before
<1>2. TypeOK' /\ StreamIInv'
  BY <1>1, SmokeStepIs, TypeIs DEF SmokeIInv
<1>3. StreamIsClosed'
  BY <1>1 DEF StreamIsClosed
<1>4. BrokerIsKnown'
  BY <1>1 DEF BrokerIsKnown, SmokeIInv
<1>5. StreamIsReported'
  BY <1>1 DEF StreamIsReported, SmokeIInv
<1>6. VerdictIsLast'
  BY <1>1 DEF VerdictIsLast, PassIsEarned
<1>7. QED
  BY <1>2, <1>3, <1>4, <1>5, <1>6 DEF SmokeIInv

LEMMA CleanupDisconnectsKeeps ==
    ASSUME SmokeIInv, CleanupDisconnects, [Next]_vars
    PROVE  SmokeIInv'
<1>1. /\ phase \in {"cleanup", "finally"} /\ call = Idle /\ rest' = rest
      /\ report.bridge
  BY DEF CleanupDisconnects
<1>2. /\ report \in Reports /\ report.status = "none" /\ phase # "off"
      /\ report.valid # {} => report.stream \in {"error", "ok"}
      /\ phase = "finally" /\ report.stream \in {"error", "ok"}
            => report.disconnect # "NOT_REQUIRED"
      /\ phase = "cleanup" => report.broker
  BY <1>1, TypeIs DEF SmokeIInv, VerdictIsLast, StreamIsReported, Streaming, After, BrokerIsKnown
<1>3. PICK result \in {"ok", "failed"},
           verdict \in {"NOT_REQUIRED", "PASS", "FAILED", "ALREADY_DISCONNECTED"},
           failed \in BOOLEAN :
         /\ IF bridge.connected THEN Disconnect(result)
                                ELSE result = "ok" /\ UNCHANGED streamVars
         /\ verdict = IF bridge.connected THEN (IF result = "ok" THEN "PASS" ELSE "FAILED")
                      ELSE IF report.stream \in {"error", "ok"}
                              /\ report.disconnect = "NOT_REQUIRED"
                      THEN "ALREADY_DISCONNECTED" ELSE report.disconnect
         /\ failed <=> (phase = "cleanup" /\ verdict = "FAILED")
         /\ report' = [report EXCEPT !.disconnect = verdict,
                                     !.blocked = @ \/ failed,
                                     !.bridge = failed]
         /\ IF phase = "cleanup" /\ ~failed THEN Go("clock", {})
            ELSE Go(IF failed THEN "finally" ELSE "logout", {})
  <2>1. PICK result \in {"ok", "failed"} :
           /\ IF bridge.connected THEN Disconnect(result)
                                  ELSE result = "ok" /\ UNCHANGED streamVars
           /\ LET verdict ==
                    IF bridge.connected THEN (IF result = "ok" THEN "PASS" ELSE "FAILED")
                    ELSE IF report.stream \in {"error", "ok"} /\ report.disconnect = "NOT_REQUIRED"
                    THEN "ALREADY_DISCONNECTED" ELSE report.disconnect
                  failed == phase = "cleanup" /\ verdict = "FAILED" IN
              /\ report' = [report EXCEPT !.disconnect = verdict,
                                          !.blocked = @ \/ failed,
                                          !.bridge = failed]
              /\ IF phase = "cleanup" /\ ~failed THEN Go("clock", {})
                 ELSE Go(IF failed THEN "finally" ELSE "logout", {})
    BY DEF CleanupDisconnects
  <2> DEFINE verdict == IF bridge.connected THEN (IF result = "ok" THEN "PASS" ELSE "FAILED")
                        ELSE IF report.stream \in {"error", "ok"}
                                /\ report.disconnect = "NOT_REQUIRED"
                        THEN "ALREADY_DISCONNECTED" ELSE report.disconnect
             failed == phase = "cleanup" /\ verdict = "FAILED"
  <2>2. verdict \in {"NOT_REQUIRED", "PASS", "FAILED", "ALREADY_DISCONNECTED"}
    BY <1>2 DEF Reports
  <2>3. failed \in BOOLEAN
    OBVIOUS
  <2>4. QED
    BY <2>1, <2>2, <2>3
<1>4. call' = Idle /\ ~bridge'.connected
  BY <1>1, <1>3 DEF Disconnect, streamVars
<1>5. /\ report' \in Reports /\ report'.broker = report.broker
      /\ report.blocked => report'.blocked
      /\ report'.status = "none" /\ report'.valid = report.valid
      /\ report'.stream = report.stream /\ report'.disconnect = verdict
  <2>1. (report.blocked \/ failed) \in BOOLEAN
    OBVIOUS
  <2>2. QED
    BY <1>2, <1>3, <2>1 DEF Reports
<1>6. report.stream \in {"error", "ok"} => verdict # "NOT_REQUIRED"
  BY <1>1, <1>3
<1>7. /\ phase' \in {"clock", "finally", "logout"} /\ todo' = {}
      /\ phase' = "clock" => phase = "cleanup"
  BY <1>1, <1>3 DEF Go
<1>8. QED
  BY <1>1, <1>2, <1>4, <1>5, <1>6, <1>7, AfterKeeps

\* A step among the phases after the stream.
LEMMA AfterIs ==
    ASSUME SmokeIInv, phase \in After, UNCHANGED streamVars
    PROVE  /\ report \in Reports /\ phase # "off" /\ rest \in Rests
           /\ report.valid # {} => report.stream \in {"error", "ok"}
           /\ report.stream \in {"error", "ok"} => report.disconnect # "NOT_REQUIRED"
           /\ call' = Idle /\ ~bridge'.connected
           /\ phase # "done" => report.status = "none"
           /\ phase = "clock" => report.broker
           /\ rest.exhausted => report.blocked
           /\ report.broker \/ (rest.session = "none" /\ report.valid = {})
BY TypeIs DEF SmokeIInv, StreamIsClosed, StreamIsReported, VerdictIsLast, BrokerIsKnown,
              After, Streaming, streamVars

LEMMA CheckClockKeeps ==
    ASSUME SmokeIInv, CheckClock \/ NoBridge, [Next]_vars
    PROVE  SmokeIInv'
<1>1. /\ phase \in {"clock", "finally"} /\ UNCHANGED streamVars /\ rest' = rest
      /\ phase' \in {"finally", "logout"} /\ todo' = {}
      /\ report' = report \/ report' = [report EXCEPT !.blocked = TRUE]
  BY DEF CheckClock, NoBridge, Go, Block
<1>2. /\ report \in Reports /\ phase # "off"
      /\ report.valid # {} => report.stream \in {"error", "ok"}
      /\ report.stream \in {"error", "ok"} => report.disconnect # "NOT_REQUIRED"
      /\ call' = Idle /\ ~bridge'.connected
      /\ report.status = "none"
  BY <1>1, AfterIs DEF After
<1>3. /\ report' \in Reports /\ report'.broker = report.broker
      /\ report.blocked => report'.blocked
      /\ report'.status = "none" /\ report'.valid = report.valid
      /\ report'.stream = report.stream /\ report'.disconnect = report.disconnect
  BY <1>1, <1>2 DEF Reports
<1>4. QED
  BY <1>1, <1>2, <1>3, AfterKeeps

LEMMA LogoutKeeps ==
    ASSUME SmokeIInv, Logout, [Next]_vars
    PROVE  SmokeIInv'
<1>1. /\ phase = "logout" /\ UNCHANGED streamVars
      /\ phase' = "done" /\ todo' = {}
  BY DEF Logout, Go
<1>2. /\ report \in Reports /\ rest \in Rests
      /\ report.valid # {} => report.stream \in {"error", "ok"}
      /\ report.stream \in {"error", "ok"} => report.disconnect # "NOT_REQUIRED"
      /\ call' = Idle /\ ~bridge'.connected
      /\ rest.exhausted => report.blocked
      /\ report.broker \/ (rest.session = "none" /\ report.valid = {})
  BY <1>1, AfterIs DEF After
<1>3. PICK completed \in BOOLEAN, unchanged \in BOOLEAN,
           left \in {"NOT_REQUIRED", "LOGGED_OUT", "FAILED"}, status \in {"PASS", "BLOCKED"} :
         /\ completed => report.broker /\ rest.session = "open"
         /\ rest' = IF report.broker
                    THEN [rest EXCEPT !.session = IF completed THEN "none" ELSE @]
                    ELSE rest
         /\ left = IF ~report.broker THEN "NOT_REQUIRED"
                   ELSE IF completed THEN "LOGGED_OUT" ELSE "FAILED"
         /\ status = "PASS" =>
               /\ ~report.blocked /\ left # "FAILED" /\ report.disconnect # "FAILED"
               /\ report.stream \in {"not_run", "ok"} /\ report.valid = Epics
         /\ report' = [report EXCEPT !.logout = left, !.status = status]
  <2>1. PICK completed \in BOOLEAN, unchanged \in BOOLEAN :
           /\ completed => report.broker /\ rest.session = "open"
           /\ rest' = IF report.broker
                      THEN [rest EXCEPT !.session = IF completed THEN "none" ELSE @]
                      ELSE rest
           /\ LET left == IF ~report.broker THEN "NOT_REQUIRED"
                          ELSE IF completed THEN "LOGGED_OUT" ELSE "FAILED" IN
              report' = [report EXCEPT !.logout = left, !.status =
                  IF /\ unchanged /\ ~report.blocked
                     /\ left # "FAILED" /\ report.disconnect # "FAILED"
                     /\ report.stream \in {"not_run", "ok"}
                     /\ report.valid = Epics
                  THEN "PASS" ELSE "BLOCKED"]
    BY DEF Logout
  <2> DEFINE left == IF ~report.broker THEN "NOT_REQUIRED"
                     ELSE IF completed THEN "LOGGED_OUT" ELSE "FAILED"
             status == IF /\ unchanged /\ ~report.blocked
                          /\ left # "FAILED" /\ report.disconnect # "FAILED"
                          /\ report.stream \in {"not_run", "ok"}
                          /\ report.valid = Epics
                       THEN "PASS" ELSE "BLOCKED"
  <2>2. left \in {"NOT_REQUIRED", "LOGGED_OUT", "FAILED"} /\ status \in {"PASS", "BLOCKED"}
    OBVIOUS
  <2>3. QED
    BY <2>1, <2>2
<1>4. /\ report' \in Reports /\ report'.broker = report.broker
      /\ report'.blocked = report.blocked /\ report'.valid = report.valid
      /\ report'.stream = report.stream /\ report'.disconnect = report.disconnect
      /\ report'.logout = left /\ report'.status = status
  BY <1>2, <1>3 DEF Reports
<1>5. /\ rest' \in Rests /\ rest'.exhausted = rest.exhausted
      /\ rest'.session = IF completed THEN "none" ELSE rest.session
  BY <1>2, <1>3 DEF Rests
<1>6. TypeOK' /\ StreamIInv'
  BY <1>1, <1>4, <1>5, SmokeStepIs DEF Phases
<1>7. StreamIsClosed'
  BY <1>1, <1>2 DEF StreamIsClosed, Before
<1>8. BrokerIsKnown'
  BY <1>1, <1>2, <1>3, <1>4, <1>5 DEF BrokerIsKnown
<1>9. StreamIsReported'
  BY <1>1, <1>2, <1>4, <1>5 DEF StreamIsReported
<1>10. VerdictIsLast'
  <2>1. rest'.session = "none" \/ report'.logout = "FAILED"
    BY <1>2, <1>3, <1>4, <1>5
  <2>2. ASSUME report'.status = "PASS"
        PROVE  /\ report'.valid = Epics /\ report'.stream = "ok"
               /\ report'.disconnect \in {"PASS", "ALREADY_DISCONNECTED"}
               /\ report'.logout = "LOGGED_OUT" /\ rest'.session = "none"
               /\ ~rest'.exhausted
    <3>1. /\ ~report.blocked /\ left # "FAILED" /\ report.disconnect # "FAILED"
          /\ report.stream \in {"not_run", "ok"} /\ report.valid = Epics
      BY <1>3, <1>4, <2>2
    <3>2. Epics # {}
      BY RepresentativesAssumption
    <3>3. report.stream = "ok" /\ report.broker /\ completed /\ ~rest.exhausted
      BY <1>2, <1>3, <3>1, <3>2
    <3>4. report.disconnect \in {"PASS", "ALREADY_DISCONNECTED"}
      BY <1>2, <3>1, <3>3 DEF Reports
    <3>5. QED
      BY <1>3, <1>4, <1>5, <3>1, <3>3, <3>4
  <2>3. QED
    BY <1>1, <2>1, <2>2 DEF VerdictIsLast, PassIsEarned
<1>11. QED
  BY <1>6, <1>7, <1>8, <1>9, <1>10 DEF SmokeIInv

LEMMA ExpireKeeps ==
    ASSUME SmokeIInv, Expire, [Next]_vars
    PROVE  SmokeIInv'
<1>1. /\ rest.session = "open" /\ phase # "done"
      /\ rest' = [rest EXCEPT !.session = "expired"]
      /\ UNCHANGED <<streamVars, phase, todo, report>>
  BY DEF Expire
<1>2. rest \in Rests /\ phase \in Phases /\ todo \in SUBSET Epics /\ report \in Reports
  BY TypeIs DEF SmokeIInv
<1>3. rest' \in Rests /\ rest'.session = "expired" /\ rest'.exhausted = rest.exhausted
  BY <1>1, <1>2 DEF Rests
<1>4. TypeOK' /\ StreamIInv'
  BY <1>1, <1>2, <1>3, SmokeStepIs
<1>5. StreamIsClosed'
  BY <1>1 DEF SmokeIInv, StreamIsClosed, streamVars
<1>6. BrokerIsKnown'
  BY <1>1, <1>3 DEF SmokeIInv, BrokerIsKnown
<1>7. StreamIsReported'
  BY <1>1, <1>3 DEF SmokeIInv, StreamIsReported
<1>8. VerdictIsLast'
  BY <1>1 DEF SmokeIInv, VerdictIsLast, PassIsEarned
<1>9. QED
  BY <1>4, <1>5, <1>6, <1>7, <1>8 DEF SmokeIInv

\* A step that the smoke does not see.
LEMMA UnseenKeeps ==
    ASSUME SmokeIInv, [Next]_vars, UNCHANGED smokeVars,
           phase \in Before \cup After =>
              UNCHANGED <<call, bridge>>
    PROVE  SmokeIInv'
<1>1. UNCHANGED <<phase, todo, rest, report>>
  BY DEF smokeVars
<1>2. TypeOK' /\ StreamIInv'
  BY <1>1, SmokeStepIs, TypeIs DEF SmokeIInv
<1>3. StreamIsClosed' /\ BrokerIsKnown' /\ StreamIsReported' /\ VerdictIsLast'
  BY <1>1 DEF SmokeIInv, StreamIsClosed, BrokerIsKnown, StreamIsReported, VerdictIsLast,
              PassIsEarned
<1>4. QED
  BY <1>2, <1>3 DEF SmokeIInv

LEMMA SmokeStepKeeps ==
    ASSUME SmokeIInv, [Next]_vars
    PROVE  SmokeIInv'
<1>1. CASE SmokeSteps
  BY <1>1, PreflightKeeps, AuthenticateKeeps, ReadAccountKeeps, ReadMarketKeeps,
     ReadHistoryKeeps, ConnectStreamKeeps, SubscribeStreamKeeps, CollectQuoteKeeps,
     CollectEndsKeeps, CollectSucceedsKeeps, ReconnectStreamKeeps,
     CleanupUnsubscribesKeeps, CleanupDisconnectsKeeps, CheckClockKeeps, LogoutKeeps
     DEF SmokeSteps
<1>2. CASE AnyCaller
  <2>1. phase = "off" /\ UNCHANGED smokeVars
    BY <1>2 DEF AnyCaller
  <2>2. QED
    BY <2>1, UnseenKeeps DEF Before, After
<1>3. CASE CallerSteps /\ UNCHANGED smokeVars
  <2>1. call # Idle
    BY <1>3 DEF CallerSteps, ConnectReturns, SubscribeItem, SubscribeReturns,
                UnsubscribeReturns, Attempt, Exhausted, RepresentativeReconnects,
                CallFails, Idle
  <2>2. QED
    BY <1>3, <2>1, UnseenKeeps DEF SmokeIInv, StreamIsClosed
<1>4. CASE ListenerSteps /\ UNCHANGED smokeVars
  BY <1>4, UnseenKeeps DEF ListenerSteps, ItemUpdate, ConnectionLost
<1>5. CASE Expire
  BY <1>5, ExpireKeeps
<1>6. CASE UNCHANGED vars
  <2>1. UNCHANGED smokeVars /\ UNCHANGED <<call, bridge>>
    BY <1>6 DEF vars, streamVars
  <2>2. QED
    BY <2>1, UnseenKeeps
<1>7. QED
  BY <1>1, <1>2, <1>3, <1>4, <1>5, <1>6 DEF Next

LEMMA EndIsCleanThen ==
    ASSUME SmokeIInv
    PROVE  EndIsClean
<1>1. phase = "done" => client = NoClient
  BY DEF SmokeIInv, StreamIsClosed, After, StreamIInv, CallIsInStep
<1>2. NothingIsLeftOpen
  BY <1>1 DEF SmokeIInv, VerdictIsLast, NothingIsLeftOpen
<1>3. QED
  BY <1>2 DEF SmokeIInv, VerdictIsLast, EndIsClean

(* The smoke has its type, and so has the stream under it                  *)
(* (live_readonly_smoke.py:847, stream_bridge.py:247).                     *)
THEOREM SmokeTypeCorrect == Spec => []TypeOK
<1>1. Init => SmokeIInv
  BY SmokeStarts
<1>2. SmokeIInv /\ [Next]_vars => SmokeIInv'
  BY SmokeStepKeeps
<1>3. SmokeIInv => TypeOK
  BY DEF SmokeIInv
<1>4. QED
  BY <1>1, <1>2, <1>3, PTL DEF Spec

(* However a smoke ends, no stream client is left open, and no session     *)
(* either unless the report says that the logout failed; and a smoke that  *)
(* passes has had a valid quote of every item, has reconnected, has spent  *)
(* no allowance and has closed its stream and its session                  *)
(* (live_readonly_smoke.py:848, 1739).                                     *)
THEOREM SmokesEndClean == Spec => []EndIsClean
<1>1. Init => SmokeIInv
  BY SmokeStarts
<1>2. SmokeIInv /\ [Next]_vars => SmokeIInv'
  BY SmokeStepKeeps
<1>3. SmokeIInv => EndIsClean
  BY EndIsCleanThen
<1>4. QED
  BY <1>1, <1>2, <1>3, PTL DEF Spec

-----------------------------------------------------------------------------
(* The sum of what was sent over the routes. *)

\* One of a set.
Some(s) == CHOOSE x \in s : TRUE

SumOver(f, S) ==
    CHOOSE sum : sum = [s \in SUBSET S |->
        IF s = {} THEN 0 ELSE f[Some(s)] + sum[s \ {Some(s)}]]

LEMMA SumOfSent ==
    /\ AllSent = SumOver(wire.sent, Routes)[Routes]
    /\ AllSent' = SumOver(wire'.sent, Routes)[Routes]
BY Zenon DEF AllSent, MapThenSumSet, MapThenFoldSet, SumOver, Some

\* The subsets of at most n elements, and the sums over them.
Small(S, n) == {s \in SUBSET S : Cardinality(s) <= n}

SumsUpTo(f, S, n, g) ==
    /\ g \in [Small(S, n) -> Nat]
    /\ \A s \in Small(S, n) : g[s] = IF s = {} THEN 0 ELSE f[Some(s)] + g[s \ {Some(s)}]

LEMMA OneLess ==
    ASSUME NEW S, IsFiniteSet(S), NEW s \in SUBSET S, s # {}
    PROVE  /\ Some(s) \in s /\ s \ {Some(s)} \in SUBSET S
           /\ Cardinality(s) \in Nat /\ Cardinality(s \ {Some(s)}) \in Nat
           /\ Cardinality(s) = Cardinality(s \ {Some(s)}) + 1
<1>1. Some(s) \in s
  BY DEF Some
<1>2. IsFiniteSet(s) /\ IsFiniteSet(s \ {Some(s)})
  BY FS_Subset
<1>3. Cardinality(s \ {Some(s)}) = Cardinality(s) - 1
  BY <1>1, <1>2, FS_RemoveElement
<1>4. Cardinality(s) \in Nat /\ Cardinality(s \ {Some(s)}) \in Nat
  BY <1>2, FS_CardinalityType
<1>5. QED
  BY <1>1, <1>3, <1>4

LEMMA SumsExist ==
    ASSUME NEW S, IsFiniteSet(S), NEW f \in [S -> Nat]
    PROVE  \A n \in Nat : \E g : SumsUpTo(f, S, n, g)
<1> DEFINE Found == {n \in Nat : \E g : SumsUpTo(f, S, n, g)}
<1>1. 0 \in Found
  <2>1. \A s \in Small(S, 0) : s = {}
    <3>1. TAKE s \in Small(S, 0)
    <3>2. IsFiniteSet(s) /\ Cardinality(s) <= 0
      BY FS_Subset DEF Small
    <3>3. Cardinality(s) = 0
      BY <3>2, FS_CardinalityType
    <3>4. QED
      BY <3>2, <3>3, FS_EmptySet
  <2>2. SumsUpTo(f, S, 0, [s \in Small(S, 0) |-> 0])
    BY <2>1 DEF SumsUpTo
  <2>3. QED
    BY <2>2
<1>2. \A n \in Nat : n \in Found => n + 1 \in Found
  <2>1. TAKE n \in Nat
  <2>2. HAVE n \in Found
  <2>3. PICK g : SumsUpTo(f, S, n, g)
    BY <2>2
  <2> DEFINE h == [s \in Small(S, n + 1) |->
                      IF s = {} THEN 0 ELSE f[Some(s)] + g[s \ {Some(s)}]]
  <2>4. \A s \in Small(S, n + 1) : s # {} =>
           Some(s) \in S /\ s \ {Some(s)} \in Small(S, n)
    <3>1. TAKE s \in Small(S, n + 1)
    <3>2. HAVE s # {}
    <3>3. QED
      BY <2>1, <3>2, OneLess DEF Small
  <2>5. Small(S, n) \subseteq Small(S, n + 1)
    <3>1. \A s \in SUBSET S : Cardinality(s) \in Nat
      BY FS_Subset, FS_CardinalityType
    <3>2. QED
      BY <2>1, <3>1 DEF Small
  <2>6. \A s \in Small(S, n) : h[s] = g[s]
    BY <2>3, <2>5 DEF SumsUpTo
  <2>7. h \in [Small(S, n + 1) -> Nat]
    <3>1. \A s \in Small(S, n + 1) :
             (IF s = {} THEN 0 ELSE f[Some(s)] + g[s \ {Some(s)}]) \in Nat
      BY <2>3, <2>4 DEF SumsUpTo
    <3>2. QED
      BY <3>1
  <2>8. \A s \in Small(S, n + 1) : h[s] = IF s = {} THEN 0 ELSE f[Some(s)] + h[s \ {Some(s)}]
    BY <2>4, <2>6
  <2>9. SumsUpTo(f, S, n + 1, h)
    BY <2>7, <2>8 DEF SumsUpTo
  <2>10. QED
    BY <2>1, <2>9
<1> HIDE DEF Found
<1>3. Nat \subseteq Found
  BY <1>1, <1>2, NaturalsFrom
<1>4. QED
  BY <1>3 DEF Found

\* The sum over every subset is what its recursion says.
LEMMA SumIs ==
    ASSUME NEW S, IsFiniteSet(S), NEW f \in [S -> Nat]
    PROVE  \A s \in SUBSET S :
              /\ SumOver(f, S)[s] \in Nat
              /\ SumOver(f, S)[s] = IF s = {} THEN 0
                                    ELSE f[Some(s)] + SumOver(f, S)[s \ {Some(s)}]
<1> DEFINE Sum(g) == g = [s \in SUBSET S |->
                             IF s = {} THEN 0 ELSE f[Some(s)] + g[s \ {Some(s)}]]
<1>1. PICK n \in Nat : n = Cardinality(S)
  BY FS_CardinalityType
<1>2. Small(S, n) = SUBSET S
  BY <1>1, FS_Subset DEF Small
<1>3. PICK g : SumsUpTo(f, S, n, g)
  BY SumsExist
<1>4. g \in [SUBSET S -> Nat] /\ Sum(g)
  BY <1>2, <1>3 DEF SumsUpTo
<1>5. SumOver(f, S) = CHOOSE h : Sum(h)
  BY DEF SumOver
<1>6. Sum(SumOver(f, S))
  BY <1>4, <1>5
<1>7. \A s \in SUBSET S :
         SumOver(f, S)[s] = IF s = {} THEN 0 ELSE f[Some(s)] + SumOver(f, S)[s \ {Some(s)}]
  BY <1>6
<1> DEFINE Fine == {k \in Nat : \A s \in SUBSET S : Cardinality(s) = k => SumOver(f, S)[s] \in Nat}
<1> HIDE DEF Sum
<1>8. 0 \in Fine
  <2>1. \A s \in SUBSET S : Cardinality(s) = 0 => s = {}
    BY FS_Subset, FS_EmptySet
  <2>2. SumOver(f, S)[{}] = 0
    BY <1>7
  <2>3. QED
    BY <2>1, <2>2
<1>9. \A k \in Nat : k \in Fine => k + 1 \in Fine
  <2>1. TAKE k \in Nat
  <2>2. HAVE k \in Fine
  <2>3. ASSUME NEW s \in SUBSET S, Cardinality(s) = k + 1
        PROVE  SumOver(f, S)[s] \in Nat
    <3>1. s # {}
      BY <2>1, <2>3, FS_EmptySet
    <3>2. Some(s) \in S /\ s \ {Some(s)} \in SUBSET S /\ Cardinality(s \ {Some(s)}) = k
      BY <2>1, <2>3, <3>1, OneLess
    <3>3. SumOver(f, S)[s \ {Some(s)}] \in Nat
      BY <2>2, <3>2
    <3>4. QED
      BY <1>7, <3>1, <3>2, <3>3
  <2>4. QED
    BY <2>1, <2>3
<1> HIDE DEF Fine
<1>10. Nat \subseteq Fine
  BY <1>8, <1>9, NaturalsFrom
<1>11. \A s \in SUBSET S : SumOver(f, S)[s] \in Nat
  <2>1. TAKE s \in SUBSET S
  <2>2. Cardinality(s) \in Nat
    BY FS_Subset, FS_CardinalityType
  <2>3. QED
    BY <1>10, <2>2 DEF Fine
<1>12. QED
  BY <1>7, <1>11

\* One more at one place is one more in every sum over that place.
LEMMA SumGrows ==
    ASSUME NEW S, IsFiniteSet(S), NEW f \in [S -> Nat], NEW r \in S
    PROVE  SumOver([f EXCEPT ![r] = @ + 1], S)[S] = SumOver(f, S)[S] + 1
<1> DEFINE F == [f EXCEPT ![r] = @ + 1]
           More(s) == SumOver(F, S)[s] = SumOver(f, S)[s] + (IF r \in s THEN 1 ELSE 0)
           Fine == {k \in Nat : \A s \in SUBSET S : Cardinality(s) = k => More(s)}
<1>1. F \in [S -> Nat] /\ F[r] = f[r] + 1 /\ \A x \in S \ {r} : F[x] = f[x]
  OBVIOUS
<1> HIDE DEF F
<1>2. \A s \in SUBSET S :
         /\ SumOver(f, S)[s] \in Nat
         /\ SumOver(f, S)[s] = IF s = {} THEN 0
                               ELSE f[Some(s)] + SumOver(f, S)[s \ {Some(s)}]
  BY SumIs
<1>3. \A s \in SUBSET S :
         SumOver(F, S)[s] = IF s = {} THEN 0
                            ELSE F[Some(s)] + SumOver(F, S)[s \ {Some(s)}]
  BY <1>1, SumIs
<1>4. 0 \in Fine
  <2>1. \A s \in SUBSET S : Cardinality(s) = 0 => s = {}
    BY FS_Subset, FS_EmptySet
  <2>2. SumOver(f, S)[{}] = 0 /\ SumOver(F, S)[{}] = 0
    BY <1>2, <1>3
  <2>3. \A s \in SUBSET S : Cardinality(s) = 0 => More(s)
    <3>1. TAKE s \in SUBSET S
    <3>2. HAVE Cardinality(s) = 0
    <3>3. s = {}
      BY <2>1, <3>2
    <3>4. QED
      BY <2>2, <3>3
  <2>4. QED
    BY <2>3
<1>5. \A k \in Nat : k \in Fine => k + 1 \in Fine
  <2>1. TAKE k \in Nat
  <2>2. HAVE k \in Fine
  <2>3. ASSUME NEW s \in SUBSET S, Cardinality(s) = k + 1
        PROVE  More(s)
    <3>1. s # {}
      BY <2>1, <2>3, FS_EmptySet
    <3>2. PICK x \in S, t \in SUBSET S : x = Some(s) /\ t = s \ {x} /\ x \in s /\ Cardinality(t) = k
      <4>1. /\ Some(s) \in s /\ s \ {Some(s)} \in SUBSET S
            /\ Cardinality(s \ {Some(s)}) = k
        BY <2>1, <2>3, <3>1, OneLess
      <4>2. QED
        BY <2>3, <4>1, Zenon
    <3>3. SumOver(F, S)[t] = SumOver(f, S)[t] + (IF r \in t THEN 1 ELSE 0)
      BY <2>2, <3>2
    <3>4. /\ SumOver(F, S)[s] = F[x] + SumOver(F, S)[t]
          /\ SumOver(f, S)[s] = f[x] + SumOver(f, S)[t]
          /\ SumOver(f, S)[t] \in Nat /\ f[x] \in Nat
      BY <1>2, <1>3, <3>1, <3>2
    <3>5. CASE x = r
      BY <1>1, <3>2, <3>3, <3>4, <3>5
    <3>6. CASE x # r
      BY <1>1, <3>2, <3>3, <3>4, <3>6
    <3>7. QED
      BY <3>5, <3>6
  <2>4. QED
    BY <2>1, <2>3
<1> HIDE DEF Fine
<1>6. Nat \subseteq Fine
  BY <1>4, <1>5, NaturalsFrom
<1>7. Cardinality(S) \in Nat
  BY FS_CardinalityType
<1>8. More(S)
  BY <1>6, <1>7 DEF Fine
<1>9. QED
  BY <1>8 DEF F

LEMMA SumOfNothing ==
    ASSUME NEW S, IsFiniteSet(S)
    PROVE  SumOver([x \in S |-> 0], S)[S] = 0
<1> DEFINE F == [x \in S |-> 0]
           Fine == {k \in Nat : \A s \in SUBSET S : Cardinality(s) = k => SumOver(F, S)[s] = 0}
<1>1. F \in [S -> Nat] /\ \A x \in S : F[x] = 0
  OBVIOUS
<1> HIDE DEF F
<1>2. \A s \in SUBSET S :
         SumOver(F, S)[s] = IF s = {} THEN 0
                            ELSE F[Some(s)] + SumOver(F, S)[s \ {Some(s)}]
  BY <1>1, SumIs
<1>3. 0 \in Fine
  <2>1. \A s \in SUBSET S : Cardinality(s) = 0 => s = {}
    BY FS_Subset, FS_EmptySet
  <2>2. QED
    BY <1>2, <2>1
<1>4. \A k \in Nat : k \in Fine => k + 1 \in Fine
  <2>1. TAKE k \in Nat
  <2>2. HAVE k \in Fine
  <2>3. ASSUME NEW s \in SUBSET S, Cardinality(s) = k + 1
        PROVE  SumOver(F, S)[s] = 0
    <3>1. s # {}
      BY <2>1, <2>3, FS_EmptySet
    <3>2. PICK x \in S, t \in SUBSET S : x = Some(s) /\ t = s \ {x} /\ Cardinality(t) = k
      <4>1. /\ Some(s) \in s /\ s \ {Some(s)} \in SUBSET S
            /\ Cardinality(s \ {Some(s)}) = k
        BY <2>1, <2>3, <3>1, OneLess
      <4>2. QED
        BY <2>3, <4>1, Zenon
    <3>3. SumOver(F, S)[t] = 0 /\ F[x] = 0
      BY <1>1, <2>2, <3>2
    <3>4. QED
      BY <1>2, <3>1, <3>2, <3>3
  <2>4. QED
    BY <2>1, <2>3
<1> HIDE DEF Fine
<1>5. Nat \subseteq Fine
  BY <1>3, <1>4, NaturalsFrom
<1>6. Cardinality(S) \in Nat
  BY FS_CardinalityType
<1>7. SumOver(F, S)[S] = 0
  BY <1>5, <1>6 DEF Fine
<1>8. QED
  BY <1>7 DEF F

-----------------------------------------------------------------------------
(* The inductive invariant of a session and its probe. *)

\* What the transport counts is what was sent, within the limits of the probe.
CountsAgree ==
    /\ transport.routes = wire.sent
    /\ transport.logins = wire.sent["login"]
    /\ transport.total = AllSent
    /\ Limit.total # 0 => transport.total <= Limit.total
    /\ Limit.logins # 0 => transport.logins <= Limit.logins
    /\ Limit.route # 0 => \A r \in Routes : transport.routes[r] <= Limit.route

\* The login a probe asked for is counted before it is sent.
LoginsDue == IF request.path = "login" /\ request.step \in {"prove", "login"} THEN 1 ELSE 0

LoginsAreCounted ==
    Limit.attempts = 1 =>
        wire.sent["login"] + LoginsDue <= broker.auth + broker.internal

\* The sessions at the broker are those that logins opened.
SessionsAreKnown ==
    /\ wire.open \subseteq 1 .. wire.made
    /\ manager.session <= wire.made
    /\ wire.made <= wire.sent["login"]
    /\ manager.tokens # "none" => manager.session >= 1

\* What holds of the request under way.
RequestIsKnown ==
    /\ request.attempt >= 1
    /\ request.path = "login" =>
          request.step \notin {"manager", "send", "answered"} /\ request.after = "identity"
    /\ request.step = "answered" =>
          /\ request.path # "logout"
          /\ wire.under = manager.owner
          /\ wire.sent[request.path] > 0
    /\ request.step = "ok" =>
          /\ request.path = "login" => manager.session >= 1
          /\ request.path = "logout" => manager.session \notin wire.open
          /\ request.path \notin {"login", "logout"} =>
                /\ wire.under = "expected"
                /\ wire.sent[request.path] > 0
                /\ request.version # "none" => transport.contract.content \in Contents

\* The reads that a probe has to make before it may pass.
ReadsAreSent ==
    \A i \in 1 .. Len(Reads(probe.kind)) :
        (i = 1 \/ probe.kind = "clock") => wire.sent[Reads(probe.kind)[i].path] > 0

\* Where the probe is, and the request it waits for.
ProbeIsInStep ==
    /\ probe.at \notin {"auth", "read", "logout"} => request.step = "idle"
    /\ request.step # "idle" =>
          /\ probe.at = "auth" => request.path = "login"
          /\ probe.at = "logout" => request.path = "logout"
          /\ probe.at = "read" =>
                /\ request.path = Reads(probe.kind)[probe.next].path
                /\ request.version = Reads(probe.kind)[probe.next].version
    /\ probe.at \in {"preflight", "auth"} => probe.next = 1
    /\ probe.at = "read" => probe.next \in 1 .. Len(Reads(probe.kind))
    /\ \A i \in 1 .. Len(Reads(probe.kind)) :
          i < probe.next => wire.sent[Reads(probe.kind)[i].path] > 0
    /\ probe.at \notin {"off", "stream", "final"} => call = Idle /\ ~bridge.connected

\* What the probe may say at its end.
ProbeIsKnown ==
    /\ probe.at \in {"read", "stream", "logout"} => probe.authenticated
    /\ probe.authenticated => manager.session >= 1
    /\ probe.at = "stream" => ReadsAreSent
    /\ (probe.at \in {"final", "logout", "done"} /\ probe.error = "none") =>
          probe.authenticated /\ ReadsAreSent
    /\ probe.logout = "PASS" => probe.at = "done" /\ manager.session \notin wire.open
    /\ probe.status # "none" => probe.at = "done"
    /\ probe.status = "PASS" =>
          probe.error = "none" /\ (probe.kind # "gate13" => CleanupPassed)

SessionIInv ==
    /\ SessionTypeOK
    /\ StreamIInv
    /\ CountsAgree
    /\ LoginsAreCounted
    /\ SessionsAreKnown
    /\ RequestIsKnown
    /\ ProbeIsInStep
    /\ ProbeIsKnown

-----------------------------------------------------------------------------
(* The types, part by part. *)

Steps == {"idle", "prove", "identity", "manager", "login", "send", "answered", "ok", "failed"}
Places == {"off", "preflight", "auth", "read", "stream", "final", "logout", "done"}
Versions == {"none", "2", "3"}

Probes == [kind : Kinds, at : Places, next : Nat, authenticated : BOOLEAN, bridge : BOOLEAN,
           first : Contents, error : {"none", "HOURS", "ALLOWANCE", "BLOCKED"},
           unsubscribe : {"NOT_REQUIRED", "PASS", "FAILED"},
           disconnect : {"NOT_REQUIRED", "PASS", "FAILED"},
           logout : {"NOT_REQUIRED", "PASS", "FAILED", "ALLOWANCE"},
           reserved : [{"auth", "account", "schedule", "logout"} -> Nat],
           status : {"none", "PASS", "HOURS", "ALLOWANCE", "BLOCKED"}]

Requests == [step : Steps, path : Routes, version : Versions, attempt : Nat,
             after : {"identity", "send"}, content : Contents \cup {"error"}]

Managers == [tokens : {"none", "live", "expired"}, owner : {"none", "expected", "other"},
             session : 0 .. LoginBound]

Contracts == [version : Versions, content : Contents \cup {"error"}]

Transports == [total : Nat, logins : Nat, routes : [Routes -> Nat], dispatched : Versions,
               contract : Contracts, diagnostic : {"none", "allowance", "other"}]

Wires == [sent : [Routes -> Nat], under : {"none", "expected", "other"},
          open : SUBSET (1 .. LoginBound), made : 0 .. LoginBound]

LEMMA SessionTypeIs ==
    SessionTypeOK <=> /\ probe \in Probes /\ request \in Requests /\ manager \in Managers
                      /\ transport \in Transports /\ broker \in [Counters -> Nat]
                      /\ wire \in Wires
BY DEF SessionTypeOK, Probes, Places, Requests, Steps, Versions, Managers, Contracts,
       Transports, Wires

LEMMA NextTypeIs ==
    ASSUME probe' \in Probes, request' \in Requests, manager' \in Managers,
           transport' \in Transports, broker' \in [Counters -> Nat], wire' \in Wires
    PROVE  SessionTypeOK'
BY DEF SessionTypeOK, Probes, Places, Requests, Steps, Versions, Managers, Contracts,
       Transports, Wires

LEMMA RoutesAre ==
    /\ {"login", "logout", "accounts", "prices"} \subseteq Routes /\ Epics \subseteq Routes
    /\ IsFiniteSet(Routes)
<1>1. IsFiniteSet({"login", "logout", "accounts", "prices"})
  <2>1. IsFiniteSet({} \cup {"login"})
    BY FS_EmptySet, FS_AddElement
  <2>2. IsFiniteSet(({} \cup {"login"}) \cup {"logout"})
    BY <2>1, FS_AddElement
  <2>3. IsFiniteSet((({} \cup {"login"}) \cup {"logout"}) \cup {"accounts"})
    BY <2>2, FS_AddElement
  <2>4. IsFiniteSet(((({} \cup {"login"}) \cup {"logout"}) \cup {"accounts"}) \cup {"prices"})
    BY <2>3, FS_AddElement
  <2>5. ((({} \cup {"login"}) \cup {"logout"}) \cup {"accounts"}) \cup {"prices"}
            = {"login", "logout", "accounts", "prices"}
    OBVIOUS
  <2>6. QED
    BY <2>4, <2>5
<1>2. QED
  BY <1>1, EpicsAssumption, FS_Union DEF Routes

LEMMA MarketsAre ==
    /\ Len(ClockMarkets) \in Nat /\ Len(ClockMarkets) >= 2
    /\ \A i \in 1 .. Len(ClockMarkets) : ClockMarkets[i] \in Epics
BY ClockMarketsAssumption

LEMMA LimitIs ==
    ASSUME NEW kind \in Kinds
    PROVE  Limits(kind) \in [attempts : Nat \ {0}, total : Nat, logins : Nat, route : Nat]
<1>1. Len(ClockMarkets) + 3 \in Nat /\ HttpAttempts \in Nat \ {0}
  BY MarketsAre, HttpAssumption
<1>2. QED
  BY <1>1 DEF Limits, Kinds

LEMMA AskedIs ==
    ASSUME NEW path, NEW version
    PROVE  Asked(path, version).path = path /\ Asked(path, version).version = version
BY DEF Asked

\* The reads of every probe: those of the final clock are the account's and then
\* the markets', those of the others are of one kind.
LEMMA ClockReadsAre ==
    /\ Len(Reads("clock")) = Len(ClockMarkets) + 1
    /\ Reads("clock")[1].path = "accounts" /\ Reads("clock")[1].version = "none"
    /\ \A i \in 2 .. Len(Reads("clock")) :
          Reads("clock")[i].path \in Epics /\ Reads("clock")[i].version = "3"
<1> DEFINE A == [path : Routes, version : Versions]
           Rest == [i \in 1 .. Len(ClockMarkets) |-> Asked(ClockMarkets[i], "3")]
<1>1. Reads("clock") = <<Asked("accounts", "none")>> \o Rest
  BY DEF Reads
<1>2. PICK n \in Nat : n = Len(ClockMarkets)
  BY MarketsAre
<1>3. PICK a \in A : a = Asked("accounts", "none")
  BY RoutesAre DEF Asked, Versions
<1>4. PICK s \in Seq(A) : s = Rest /\ Len(s) = n /\ \A i \in 1 .. n : s[i] = Asked(ClockMarkets[i], "3")
  <2>1. \A i \in 1 .. n : Asked(ClockMarkets[i], "3") \in A
    BY <1>2, MarketsAre, RoutesAre DEF Asked, Versions
  <2>2. Rest \in [1 .. n -> A]
    BY <1>2, <2>1
  <2>3. Rest \in Seq(A)
    BY <1>2, <2>2
  <2>4. Len(Rest) = n
    BY <1>2, <2>2, <2>3
  <2>5. QED
    BY <1>2, <2>3, <2>4
<1>5. PICK f \in Seq(A) : f = <<a>> /\ Len(f) = 1 /\ f[1] = a
  <2>1. <<a>> \in Seq(A) /\ Len(<<a>>) = 1 /\ <<a>>[1] = a
    OBVIOUS
  <2>2. QED
    BY <2>1, Zenon
<1>6. /\ Len(f \o s) = n + 1 /\ (f \o s)[1] = a
      /\ \A i \in 2 .. n + 1 : (f \o s)[i] = s[i - 1]
  BY <1>2, <1>4, <1>5
<1>7. Reads("clock") = f \o s
  BY <1>1, <1>3, <1>4, <1>5
<1>8. \A i \in 2 .. n + 1 : Reads("clock")[i] = Asked(ClockMarkets[i - 1], "3")
                            /\ ClockMarkets[i - 1] \in Epics
  BY <1>2, <1>4, <1>6, <1>7, MarketsAre
<1>9. QED
  BY <1>2, <1>3, <1>6, <1>7, <1>8, AskedIs

LEMMA OneReads ==
    /\ Len(Reads("gate09")) = 1 /\ Reads("gate09")[1].path = "prices"
    /\ Reads("gate09")[1].version = "none"
    /\ Len(Reads("gate13")) = 1 /\ Reads("gate13")[1].path \in Epics
    /\ Reads("gate13")[1].version = "2"
    /\ \A kind \in {"gate12", "gate12xau"} :
          /\ Len(Reads(kind)) = 2
          /\ \A i \in 1 .. 2 : Reads(kind)[i].path \in Epics /\ Reads(kind)[i].version = "3"
<1>1. ClockMarkets[1] \in Epics /\ ClockMarkets[2] \in Epics
  BY MarketsAre
<1>2. /\ Reads("gate09") = <<Asked("prices", "none")>>
      /\ Reads("gate13") = <<Asked(ClockMarkets[1], "2")>>
      /\ \A kind \in {"gate12", "gate12xau"} :
            Reads(kind) = <<Asked(ClockMarkets[1], "3"), Asked(ClockMarkets[2], "3")>>
  BY DEF Reads
<1>3. QED
  BY <1>1, <1>2, AskedIs

LEMMA ReadsAre ==
    ASSUME NEW kind \in Kinds
    PROVE  /\ Len(Reads(kind)) \in Nat \ {0}
           /\ \A i \in 1 .. Len(Reads(kind)) :
                 /\ Reads(kind)[i].path \in Routes \ {"login", "logout"}
                 /\ Reads(kind)[i].version \in Versions
                 /\ Reads(kind)[i].path = "accounts" <=> kind = "clock" /\ i = 1
                 /\ Reads(kind)[i].version = "none" <=> Reads(kind)[i].path \in {"accounts", "prices"}
<1>1. Epics \cap {"login", "logout", "accounts", "prices"} = {}
  BY RoutesAssumption
<1>2. CASE kind = "clock"
  <2>1. \A i \in 1 .. Len(Reads("clock")) : i = 1 \/ i \in 2 .. Len(Reads("clock"))
    BY ClockReadsAre, MarketsAre
  <2>2. QED
    BY <1>1, <1>2, <2>1, ClockReadsAre, MarketsAre, RoutesAre DEF Versions
<1>3. CASE kind \in {"gate12", "gate12xau"}
  BY <1>1, <1>3, OneReads, RoutesAre DEF Versions
<1>4. CASE kind = "gate09" \/ kind = "gate13"
  BY <1>1, <1>4, OneReads, RoutesAre DEF Versions
<1>5. QED
  BY <1>2, <1>3, <1>4 DEF Kinds

-----------------------------------------------------------------------------
(* The steps of a request. *)

LEMMA GotoIs ==
    ASSUME request \in Requests, NEW step \in Steps, Goto(step)
    PROVE  /\ request' \in Requests /\ request'.step = step /\ request'.attempt = 1
           /\ request'.path = request.path /\ request'.version = request.version
           /\ request'.after = request.after /\ request'.content = request.content
BY DEF Goto, Requests

LEMMA TryAgainIs ==
    ASSUME request \in Requests, request.attempt >= 1, TryAgain
    PROVE  /\ request' \in Requests /\ request'.attempt >= 1
           /\ request'.path = request.path /\ request'.version = request.version
           /\ request'.after = request.after
           /\ \/ request'.step = "failed"
              \/ request'.step = request.step /\ request.attempt < Limit.attempts
<1>1. CASE Goto("failed")
  BY <1>1, GotoIs DEF Steps
<1>2. CASE request.attempt < Limit.attempts /\ request' = [request EXCEPT !.attempt = @ + 1]
  BY <1>2 DEF Requests
<1>3. QED
  BY <1>1, <1>2 DEF TryAgain

\* The invariant, its types at hand.
LEMMA SessionIs ==
    ASSUME SessionIInv
    PROVE  /\ probe \in Probes /\ request \in Requests /\ manager \in Managers
           /\ transport \in Transports /\ broker \in [Counters -> Nat] /\ wire \in Wires
           /\ wire.sent \in [Routes -> Nat] /\ transport.routes \in [Routes -> Nat]
           /\ request.path \in Routes /\ request.version \in Versions
           /\ request.attempt >= 1
           /\ Limit.attempts \in Nat \ {0} /\ Limit.total \in Nat /\ Limit.logins \in Nat
           /\ Limit.route \in Nat
<1>1. /\ probe \in Probes /\ request \in Requests /\ manager \in Managers
      /\ transport \in Transports /\ broker \in [Counters -> Nat] /\ wire \in Wires
  BY SessionTypeIs DEF SessionIInv
<1>2. probe.kind \in Kinds
  BY <1>1 DEF Probes
<1>3. Limit \in [attempts : Nat \ {0}, total : Nat, logins : Nat, route : Nat]
  BY <1>2, LimitIs DEF Limit
<1>4. QED
  BY <1>1, <1>3 DEF Wires, Transports, Requests, SessionIInv, RequestIsKnown

\* A step of the request leaves the probe where it is.
LEMMA ProbeWaits ==
    ASSUME SessionIInv, UNCHANGED <<probe, streamVars>>,
           request.step # "idle", request'.step # "idle",
           request'.path = request.path, request'.version = request.version,
           wire'.sent \in [Routes -> Nat],
           \A r \in Routes : wire'.sent[r] >= wire.sent[r],
           manager.session >= 1 => manager'.session >= 1
    PROVE  StreamIInv' /\ ProbeIsInStep' /\ ProbeIsKnown'
<1>1. StreamIInv'
  BY StreamStepKeeps DEF SessionIInv, StreamStep
<1>2. /\ probe' = probe /\ call' = call /\ bridge' = bridge /\ wire.sent \in [Routes -> Nat]
      /\ probe.kind \in Kinds
  BY SessionIs DEF streamVars, Probes
<1>3. \A i \in 1 .. Len(Reads(probe.kind)) :
         wire.sent[Reads(probe.kind)[i].path] > 0 => wire'.sent[Reads(probe.kind)[i].path] > 0
  <2>1. TAKE i \in 1 .. Len(Reads(probe.kind))
  <2>2. Reads(probe.kind)[i].path \in Routes
    BY <1>2, ReadsAre
  <2>3. QED
    BY <1>2, <2>2
<1>4. ReadsAreSent => ReadsAreSent'
  BY <1>2, <1>3 DEF ReadsAreSent
<1>5. probe.at \in {"auth", "read", "logout"}
  BY DEF SessionIInv, ProbeIsInStep
<1>6. ProbeIsInStep'
  BY <1>2, <1>3, <1>5 DEF SessionIInv, ProbeIsInStep
<1>7. ProbeIsKnown'
  BY <1>2, <1>4, <1>5 DEF SessionIInv, ProbeIsKnown
<1>8. QED
  BY <1>1, <1>6, <1>7

\* A step that sends nothing.
LEMMA NothingIsSent ==
    ASSUME SessionIInv, probe' = probe, wire'.sent = wire.sent,
           transport'.total = transport.total, transport'.logins = transport.logins,
           transport'.routes = transport.routes
    PROVE  CountsAgree'
<1>1. AllSent' = AllSent
  BY SumOfSent
<1>2. QED
  BY <1>1 DEF SessionIInv, CountsAgree, Limit

LEMMA CountsAreNatural ==
    ASSUME SessionIInv
    PROVE  /\ wire.sent["login"] \in Nat /\ broker.auth \in Nat /\ broker.internal \in Nat
           /\ LoginsDue \in {0, 1} /\ LoginsDue' \in {0, 1}
BY SessionIs, RoutesAre DEF Counters, LoginsDue

LEMMA LoginsStayCounted ==
    ASSUME SessionIInv, UNCHANGED <<probe, broker>>, wire'.sent = wire.sent,
           request'.path = request.path,
           request.path = "login" /\ request'.step \in {"prove", "login"}
              => request.step \in {"prove", "login"}
    PROVE  LoginsAreCounted'
<1>1. LoginsDue' <= LoginsDue
  BY DEF LoginsDue
<1>2. QED
  BY <1>1, CountsAreNatural DEF SessionIInv, LoginsAreCounted, Limit

LEMMA ProveKeeps ==
    ASSUME SessionIInv, Prove, UNCHANGED streamVars
    PROVE  SessionIInv'
<1>1. /\ request.step = "prove" /\ UNCHANGED <<probe, manager, transport, broker, wire>>
  BY DEF Prove
<1>2. /\ request' \in Requests /\ request'.step \in {"identity", "login"} /\ request'.attempt = 1
      /\ request'.path = request.path /\ request'.version = request.version
      /\ request'.after = request.after
  <2>1. PICK step \in {"identity", "login"} : Goto(step)
    BY DEF Prove
  <2>2. QED
    BY <2>1, GotoIs, SessionIs DEF Steps
<1>3. SessionTypeOK'
  BY <1>1, <1>2, SessionIs, NextTypeIs
<1>4. CountsAgree'
  BY <1>1, NothingIsSent
<1>5. LoginsAreCounted'
  BY <1>1, <1>2, LoginsStayCounted
<1>6. SessionsAreKnown'
  BY <1>1 DEF SessionIInv, SessionsAreKnown
<1>7. RequestIsKnown'
  BY <1>1, <1>2 DEF SessionIInv, RequestIsKnown
<1>8. StreamIInv' /\ ProbeIsInStep' /\ ProbeIsKnown'
  BY <1>1, <1>2, SessionIs, ProbeWaits
<1>9. QED
  BY <1>3, <1>4, <1>5, <1>6, <1>7, <1>8 DEF SessionIInv

LEMMA IdentifyKeeps ==
    ASSUME SessionIInv, Identify, UNCHANGED streamVars
    PROVE  SessionIInv'
<1>1. /\ request.step = "identity" /\ UNCHANGED <<probe, manager, broker, wire>>
  BY DEF Identify
<1>2. /\ transport' \in Transports /\ transport'.total = transport.total
      /\ transport'.logins = transport.logins /\ transport'.routes = transport.routes
  <2>1. transport' = transport \/ transport' = [transport EXCEPT !.diagnostic = "none"]
    BY DEF Identify
  <2>2. QED
    BY <2>1, SessionIs DEF Transports
<1>3. PICK step \in {"failed", "ok", "manager"} :
         /\ Goto(step)
         /\ step = "ok" => Proven /\ request.path = "login"
         /\ step = "manager" => request.path # "login"
  BY DEF Identify
<1>4. /\ request' \in Requests /\ request'.step = step /\ request'.attempt = 1
      /\ request'.path = request.path /\ request'.version = request.version
      /\ request'.after = request.after
  BY <1>3, GotoIs, SessionIs DEF Steps
<1>5. SessionTypeOK'
  BY <1>1, <1>2, <1>4, SessionIs, NextTypeIs
<1>6. CountsAgree'
  BY <1>1, <1>2, NothingIsSent
<1>7. LoginsAreCounted'
  BY <1>1, <1>3, <1>4, LoginsStayCounted
<1>8. SessionsAreKnown'
  BY <1>1 DEF SessionIInv, SessionsAreKnown
<1>9. RequestIsKnown'
  <2>1. step = "ok" => manager.session >= 1
    BY <1>3 DEF Proven, SessionIInv, SessionsAreKnown
  <2>2. QED
    BY <1>1, <1>3, <1>4, <2>1 DEF SessionIInv, RequestIsKnown
<1>10. StreamIInv' /\ ProbeIsInStep' /\ ProbeIsKnown'
  BY <1>1, <1>3, <1>4, SessionIs, ProbeWaits
<1>11. QED
  BY <1>5, <1>6, <1>7, <1>8, <1>9, <1>10 DEF SessionIInv

LEMMA EnterManagerKeeps ==
    ASSUME SessionIInv, EnterManager \/ Refused, UNCHANGED streamVars
    PROVE  SessionIInv'
<1>1. /\ request.step \in {"manager", "login", "send"}
      /\ UNCHANGED <<probe, manager, transport, broker, wire>>
  BY DEF EnterManager, Refused
<1>2. /\ request' \in Requests /\ request'.step \in {"send", "failed", "login"}
      /\ request'.attempt = 1
      /\ request'.path = request.path /\ request'.version = request.version
      /\ request'.step # "failed" => request.step = "manager"
      /\ request.step = "manager" \/ request'.after = request.after
  <2>1. CASE Goto("send") /\ request.step = "manager"
    BY <2>1, GotoIs, SessionIs DEF Steps
  <2>2. CASE Goto("failed")
    BY <2>2, GotoIs, SessionIs DEF Steps
  <2>3. CASE /\ request' = [request EXCEPT !.step = "login", !.attempt = 1, !.after = "send"]
             /\ request.step = "manager"
    BY <2>3, SessionIs DEF Requests, Steps
  <2>4. QED
    BY <2>1, <2>2, <2>3 DEF EnterManager, Refused
<1>3. request.step = "manager" => request.path # "login"
  BY DEF SessionIInv, RequestIsKnown
<1>4. SessionTypeOK'
  BY <1>1, <1>2, SessionIs, NextTypeIs
<1>5. CountsAgree'
  BY <1>1, NothingIsSent
<1>6. LoginsAreCounted'
  BY <1>1, <1>2, <1>3, LoginsStayCounted
<1>7. SessionsAreKnown'
  BY <1>1 DEF SessionIInv, SessionsAreKnown
<1>8. RequestIsKnown'
  BY <1>1, <1>2, <1>3 DEF SessionIInv, RequestIsKnown
<1>9. StreamIInv' /\ ProbeIsInStep' /\ ProbeIsKnown'
  BY <1>1, <1>2, SessionIs, ProbeWaits
<1>10. QED
  BY <1>4, <1>5, <1>6, <1>7, <1>8, <1>9 DEF SessionIInv

LEMMA AnsweredKeeps ==
    ASSUME SessionIInv, Answered, UNCHANGED streamVars
    PROVE  SessionIInv'
<1>1. /\ request.step = "answered" /\ UNCHANGED <<probe, manager, broker, wire>>
  BY DEF Answered
<1>2. PICK step \in {"failed", "ok"} :
         Goto(step) /\ (step = "ok" => Proven /\ request.content # "error")
  BY DEF Answered
<1>3. /\ request' \in Requests /\ request'.step = step /\ request'.attempt = 1
      /\ request'.path = request.path /\ request'.version = request.version
      /\ request'.after = request.after
  BY <1>2, GotoIs, SessionIs DEF Steps
<1>4. /\ transport' \in Transports /\ transport'.total = transport.total
      /\ transport'.logins = transport.logins /\ transport'.routes = transport.routes
      /\ (Proven /\ request.version # "none") => transport'.contract.content = request.content
  <2>1. CASE Proven /\ request.version # "none"
    <3>1. transport' = [transport EXCEPT !.dispatched = "none", !.contract =
                            [version |-> transport.dispatched, content |-> request.content]]
      BY <2>1 DEF Answered
    <3>2. [version |-> transport.dispatched, content |-> request.content] \in Contracts
      BY SessionIs DEF Contracts, Transports, Requests
    <3>3. QED
      BY <3>1, <3>2, SessionIs DEF Transports, Versions
  <2>2. CASE ~(Proven /\ request.version # "none")
    <3>1. transport' = transport
      BY <2>2 DEF Answered
    <3>2. QED
      BY <2>2, <3>1, SessionIs
  <2>3. QED
    BY <2>1, <2>2
<1>5. SessionTypeOK'
  BY <1>1, <1>3, <1>4, SessionIs, NextTypeIs
<1>6. CountsAgree'
  BY <1>1, <1>4, NothingIsSent
<1>7. LoginsAreCounted'
  BY <1>1, <1>3, LoginsStayCounted
<1>8. SessionsAreKnown'
  BY <1>1 DEF SessionIInv, SessionsAreKnown
<1>9. RequestIsKnown'
  <2>1. /\ request.path # "login" /\ request.path # "logout"
        /\ wire.under = manager.owner /\ wire.sent[request.path] > 0
    BY <1>1 DEF SessionIInv, RequestIsKnown
  <2>2. step = "ok" => wire.under = "expected"
    BY <1>2, <2>1 DEF Proven
  <2>3. step = "ok" /\ request.version # "none" => transport'.contract.content \in Contents
    BY <1>2, <1>4, SessionIs DEF Requests
  <2>4. QED
    BY <1>1, <1>3, <2>1, <2>2, <2>3 DEF RequestIsKnown
<1>10. StreamIInv' /\ ProbeIsInStep' /\ ProbeIsKnown'
  BY <1>1, <1>3, SessionIs, ProbeWaits
<1>11. QED
  BY <1>5, <1>6, <1>7, <1>8, <1>9, <1>10 DEF SessionIInv

\* One attempt: it is reserved, counted and sent.
LEMMA AttemptIs ==
    ASSUME SessionIInv, request.step \in {"login", "send"}, ~OverLimit,
           NEW noted \in {"none", "allowance", "other"}, Observe(noted), probe' = probe,
           wire'.sent = [wire.sent EXCEPT ![Route] = @ + 1]
    PROVE  /\ transport' \in Transports /\ broker' \in [Counters -> Nat]
           /\ wire'.sent \in [Routes -> Nat]
           /\ \A r \in Routes : wire'.sent[r] >= wire.sent[r]
           /\ wire'.sent[Route] > 0
           /\ CountsAgree'
           /\ (request'.path = request.path /\ Limit.attempts = 1
                 /\ ~(request'.path = "login" /\ request'.step \in {"prove", "login"}))
                => LoginsAreCounted'
           /\ wire'.sent["login"] = wire.sent["login"] + (IF request.step = "login" THEN 1 ELSE 0)
<1>1. Route \in Routes /\ (Route = "login" <=> request.step = "login")
  BY SessionIs, RoutesAre DEF Route, SessionIInv, RequestIsKnown
<1>2. PICK r \in Routes : r = Route
  BY <1>1
<1>3. PICK more \in {0, 1} : more = IF r = "login" THEN 1 ELSE 0
  OBVIOUS
<1>4. transport' = [transport EXCEPT !.total = @ + 1, !.routes[r] = @ + 1,
                       !.logins = @ + more,
                       !.dispatched = IF r = "login" THEN @ ELSE request.version,
                       !.diagnostic = noted]
  <2>1. Reserved = [transport EXCEPT !.total = @ + 1, !.routes[r] = @ + 1,
                       !.logins = @ + more,
                       !.dispatched = IF r = "login" THEN @ ELSE request.version]
    BY <1>2, <1>3 DEF Reserved
  <2>2. QED
    BY <2>1, SessionIs DEF Observe, Transports
<1>5. /\ transport \in Transports /\ transport.routes \in [Routes -> Nat] /\ request.version \in Versions
      /\ transport.total \in Nat /\ transport.logins \in Nat
      /\ transport.dispatched \in Versions /\ transport.contract \in Contracts
  BY SessionIs DEF Transports
<1>6. /\ transport' \in Transports /\ transport'.total = transport.total + 1
      /\ transport'.logins = transport.logins + more
      /\ transport'.routes = [transport.routes EXCEPT ![r] = @ + 1]
  <2>1. /\ [transport.routes EXCEPT ![r] = @ + 1] \in [Routes -> Nat]
        /\ transport.total + 1 \in Nat /\ transport.logins + more \in Nat
        /\ (IF r = "login" THEN transport.dispatched ELSE request.version) \in Versions
    BY <1>5
  <2>2. QED
    BY <1>4, <1>5, <2>1 DEF Transports
<1>7. wire.sent \in [Routes -> Nat] /\ wire'.sent = [wire.sent EXCEPT ![r] = @ + 1]
  BY <1>2, SessionIs
<1>8. /\ wire'.sent \in [Routes -> Nat] /\ wire'.sent[r] = wire.sent[r] + 1
      /\ \A q \in Routes \ {r} : wire'.sent[q] = wire.sent[q]
      /\ \A q \in Routes : wire'.sent[q] >= wire.sent[q] /\ wire'.sent[r] > 0
  BY <1>7
<1>9. AllSent' = AllSent + 1
  <2>1. SumOver(wire'.sent, Routes)[Routes] = SumOver(wire.sent, Routes)[Routes] + 1
    BY <1>7, RoutesAre, SumGrows
  <2>2. QED
    BY <2>1, SumOfSent
<1>10. wire'.sent["login"] = wire.sent["login"] + more
  BY <1>3, <1>8, CountsAreNatural, RoutesAre
<1>11. CountsAgree'
  <2>1. /\ transport.routes = wire.sent /\ transport.logins = wire.sent["login"]
        /\ transport.total = AllSent
        /\ Limit.total # 0 => transport.total <= Limit.total
        /\ Limit.logins # 0 => transport.logins <= Limit.logins
        /\ Limit.route # 0 => \A q \in Routes : transport.routes[q] <= Limit.route
    BY DEF SessionIInv, CountsAgree
  <2>2. /\ Limit.logins # 0 /\ r = "login" => transport.logins < Limit.logins
        /\ Limit.route # 0 => transport.routes[r] < Limit.route
        /\ Limit.total # 0 => transport.total < Limit.total
    BY <1>2, <1>5, SessionIs DEF OverLimit, Reached
  <2>3. Limit' = Limit
    BY DEF Limit
  <2>4. transport'.routes = wire'.sent /\ transport'.logins = wire'.sent["login"]
        /\ transport'.total = AllSent'
    BY <1>6, <1>7, <1>9, <1>10, <2>1
  <2>5. Limit.total # 0 => transport'.total <= Limit.total
    BY <1>5, <1>6, <2>2, SessionIs
  <2>6. Limit.logins # 0 => transport'.logins <= Limit.logins
    BY <1>3, <1>5, <1>6, <2>1, <2>2, SessionIs
  <2>7. Limit.route # 0 => \A q \in Routes : transport'.routes[q] <= Limit.route
    BY <1>5, <1>6, <2>1, <2>2, SessionIs
  <2>8. QED
    BY <2>3, <2>4, <2>5, <2>6, <2>7 DEF CountsAgree
<1>12. /\ broker' \in [Counters -> Nat]
       /\ broker'.auth = broker.auth
       /\ broker'.internal = broker.internal
             + (IF request.step = "login" /\ request.path # "login" THEN 1 ELSE 0)
  <2>1. broker \in [Counters -> Nat] /\ broker.internal \in Nat /\ broker.internal + 1 \in Nat
    BY SessionIs, CountsAreNatural
  <2>2. CASE request.step = "login" /\ request.path # "login"
    <3>1. broker' = [broker EXCEPT !.internal = @ + 1]
      BY <1>1, <2>2 DEF Observe
    <3>2. QED
      BY <2>1, <2>2, <3>1 DEF Counters
  <2>3. CASE ~(request.step = "login" /\ request.path # "login")
    <3>1. broker' = broker
      BY <1>1, <2>3 DEF Observe
    <3>2. QED
      BY <2>1, <2>3, <3>1
  <2>4. QED
    BY <2>2, <2>3
<1>13. ASSUME request'.path = request.path, Limit.attempts = 1,
              ~(request'.path = "login" /\ request'.step \in {"prove", "login"})
       PROVE  LoginsAreCounted'
  <2>1. wire.sent["login"] + LoginsDue <= broker.auth + broker.internal
    BY <1>13 DEF SessionIInv, LoginsAreCounted
  <2>2. LoginsDue' = 0
    BY <1>13 DEF LoginsDue
  <2>3. request.path = "login" /\ request.step = "login" => LoginsDue = 1
    BY DEF LoginsDue
  <2>4. wire'.sent["login"] + LoginsDue' <= broker'.auth + broker'.internal
    BY <1>1, <1>2, <1>3, <1>10, <1>12, <2>1, <2>2, <2>3, CountsAreNatural
  <2>5. QED
    BY <2>4 DEF LoginsAreCounted
<1>14. QED
  BY <1>1, <1>2, <1>3, <1>6, <1>8, <1>10, <1>11, <1>12, <1>13

\* With more than one attempt nothing is said of the broker's counters.
LEMMA LoginsOfOneAttempt ==
    ASSUME probe' = probe, Limit.attempts # 1
    PROVE  LoginsAreCounted'
BY DEF LoginsAreCounted, Limit

LEMMA ReadAttemptKeeps ==
    ASSUME SessionIInv, ReadAttempt, UNCHANGED streamVars
    PROVE  SessionIInv'
<1>1. /\ request.step = "send" /\ request.path # "logout" /\ ~OverLimit
      /\ wire' = [Sent EXCEPT !.under = manager.owner]
      /\ UNCHANGED <<probe, manager>>
  BY DEF ReadAttempt
<1>2. request.path # "login"
  BY <1>1 DEF SessionIInv, RequestIsKnown
<1>3. Route = request.path /\ Route \in Routes
  BY <1>1, SessionIs DEF Route
<1>4. /\ wire'.sent = [wire.sent EXCEPT ![Route] = @ + 1] /\ wire'.under = manager.owner
      /\ wire'.open = wire.open /\ wire'.made = wire.made
      /\ wire' \in Wires
  <2>1. /\ Sent \in Wires /\ Sent.sent = [wire.sent EXCEPT ![Route] = @ + 1]
        /\ Sent.open = wire.open /\ Sent.made = wire.made
    BY <1>3, SessionIs DEF Sent, Wires
  <2>2. manager.owner \in {"none", "expected", "other"}
    BY SessionIs DEF Managers
  <2>3. QED
    BY <1>1, <2>1, <2>2 DEF Wires
<1>5. PICK noted \in {"none", "allowance", "other"} : Observe(noted)
  BY SessionIs DEF ReadAttempt, Transports
<1>6. /\ request' \in Requests /\ request'.attempt >= 1
      /\ request'.path = request.path /\ request'.version = request.version
      /\ request'.after = request.after
      /\ request'.step \in {"answered", "failed", "send"}
  <2>1. CASE \E content \in Contents \cup {"error"} :
                request' = [request EXCEPT !.step = "answered", !.content = content]
    BY <2>1, SessionIs DEF Requests, Steps
  <2>2. CASE TryAgain
    BY <1>1, <2>2, TryAgainIs, SessionIs
  <2>3. QED
    BY <2>1, <2>2 DEF ReadAttempt, Contents
<1>7. /\ transport' \in Transports /\ broker' \in [Counters -> Nat]
      /\ wire'.sent \in [Routes -> Nat]
      /\ \A r \in Routes : wire'.sent[r] >= wire.sent[r]
      /\ wire'.sent[Route] > 0 /\ CountsAgree'
      /\ Limit.attempts = 1 => LoginsAreCounted'
      /\ wire'.sent["login"] = wire.sent["login"]
  BY <1>1, <1>2, <1>4, <1>5, <1>6, AttemptIs, CountsAreNatural
<1>8. LoginsAreCounted'
  BY <1>1, <1>7, LoginsOfOneAttempt
<1>9. SessionTypeOK'
  BY <1>1, <1>4, <1>6, <1>7, SessionIs, NextTypeIs
<1>10. SessionsAreKnown'
  BY <1>1, <1>4, <1>7 DEF SessionIInv, SessionsAreKnown
<1>11. RequestIsKnown'
  BY <1>1, <1>2, <1>3, <1>4, <1>6, <1>7 DEF RequestIsKnown
<1>12. StreamIInv' /\ ProbeIsInStep' /\ ProbeIsKnown'
  BY <1>1, <1>6, <1>7, ProbeWaits
<1>13. QED
  BY <1>7, <1>8, <1>9, <1>10, <1>11, <1>12 DEF SessionIInv

LEMMA LogoutAttemptKeeps ==
    ASSUME SessionIInv, LogoutAttempt, UNCHANGED streamVars
    PROVE  SessionIInv'
<1>1. request.step = "send" /\ request.path = "logout" /\ ~OverLimit /\ UNCHANGED probe
  BY DEF LogoutAttempt
<1>2. Route = "logout" /\ Route \in Routes
  BY <1>1, RoutesAre DEF Route
<1>3. PICK noted \in {"none", "allowance", "other"} : Observe(noted)
  BY SessionIs DEF LogoutAttempt, Transports
<1>4. /\ wire'.sent = [wire.sent EXCEPT ![Route] = @ + 1]
      /\ wire'.open \in {wire.open, wire.open \ {manager.session}} /\ wire'.made = wire.made
      /\ wire' \in Wires
  <2>1. wire' = Sent \/ wire' = [Sent EXCEPT !.open = @ \ {manager.session}]
    BY DEF LogoutAttempt
  <2>2. /\ Sent \in Wires /\ Sent.sent = [wire.sent EXCEPT ![Route] = @ + 1]
        /\ Sent.open = wire.open /\ Sent.made = wire.made
    BY <1>2, SessionIs DEF Sent, Wires
  <2>3. QED
    BY <2>1, <2>2 DEF Wires
<1>5. /\ manager' \in Managers /\ manager'.session = manager.session
      /\ manager'.tokens # "none" => manager.tokens # "none"
  <2>1. \/ manager' = manager
        \/ manager' = [manager EXCEPT !.tokens = "none", !.owner = "none"]
    BY DEF LogoutAttempt
  <2>2. QED
    BY <2>1, SessionIs DEF Managers
<1>6. /\ request' \in Requests /\ request'.attempt >= 1
      /\ request'.path = request.path /\ request'.version = request.version
      /\ request'.step \in {"ok", "failed", "send"}
      /\ request'.step = "ok" => wire'.open = wire.open \ {manager.session}
  <2>1. CASE Goto("ok") /\ wire' = [Sent EXCEPT !.open = @ \ {manager.session}]
    <3>1. wire'.open = wire.open \ {manager.session}
      BY <1>2, <2>1, SessionIs DEF Sent, Wires
    <3>2. QED
      BY <2>1, <3>1, GotoIs, SessionIs DEF Steps
  <2>2. CASE Goto("failed")
    BY <2>2, GotoIs, SessionIs DEF Steps
  <2>3. CASE TryAgain
    BY <1>1, <2>3, TryAgainIs, SessionIs
  <2>4. QED
    BY <2>1, <2>2, <2>3 DEF LogoutAttempt
<1>7. /\ transport' \in Transports /\ broker' \in [Counters -> Nat]
      /\ wire'.sent \in [Routes -> Nat]
      /\ \A r \in Routes : wire'.sent[r] >= wire.sent[r]
      /\ CountsAgree'
      /\ Limit.attempts = 1 => LoginsAreCounted'
      /\ wire'.sent["login"] = wire.sent["login"]
  BY <1>1, <1>3, <1>4, <1>6, AttemptIs, CountsAreNatural
<1>8. LoginsAreCounted'
  BY <1>1, <1>7, LoginsOfOneAttempt
<1>9. SessionTypeOK'
  BY <1>1, <1>4, <1>5, <1>6, <1>7, SessionIs, NextTypeIs
<1>10. SessionsAreKnown'
  BY <1>4, <1>5, <1>7 DEF SessionIInv, SessionsAreKnown
<1>11. RequestIsKnown'
  BY <1>1, <1>5, <1>6 DEF RequestIsKnown
<1>12. StreamIInv' /\ ProbeIsInStep' /\ ProbeIsKnown'
  BY <1>1, <1>5, <1>6, <1>7, ProbeWaits
<1>13. QED
  BY <1>7, <1>8, <1>9, <1>10, <1>11, <1>12 DEF SessionIInv

LEMMA LoginAttemptKeeps ==
    ASSUME SessionIInv, LoginAttempt, UNCHANGED streamVars
    PROVE  SessionIInv'
<1>1. request.step = "login" /\ ~OverLimit /\ UNCHANGED probe
  BY DEF LoginAttempt
<1>2. Route = "login" /\ Route \in Routes
  BY <1>1, RoutesAre DEF Route
<1>3. PICK noted \in {"none", "allowance", "other"} : Observe(noted)
  BY SessionIs DEF LoginAttempt, Transports
<1>4. /\ Sent \in Wires /\ Sent.sent = [wire.sent EXCEPT ![Route] = @ + 1]
      /\ Sent.open = wire.open /\ Sent.made = wire.made
  BY <1>2, SessionIs DEF Sent, Wires
<1>5. /\ wire.made \in 0 .. LoginBound /\ LoginBound \in Nat
      /\ wire.open \in SUBSET (1 .. LoginBound)
      /\ wire.open \subseteq 1 .. wire.made /\ manager.session \in 0 .. LoginBound
      /\ manager.session <= wire.made /\ wire.made <= wire.sent["login"]
      /\ manager.tokens # "none" => manager.session >= 1
  BY SessionIs, HttpAssumption DEF Wires, Managers, SessionIInv, SessionsAreKnown
<1>6. wire.made < LoginBound /\ wire' = Opened =>
         /\ wire' \in Wires /\ wire'.sent = [wire.sent EXCEPT ![Route] = @ + 1]
         /\ wire'.open = wire.open \cup {wire.made + 1} /\ wire'.made = wire.made + 1
  <2>1. HAVE wire.made < LoginBound /\ wire' = Opened
  <2>2. wire.made + 1 \in 0 .. LoginBound /\ wire.open \cup {wire.made + 1} \in SUBSET (1 .. LoginBound)
    BY <1>5, <2>1
  <2>3. wire' = [Sent EXCEPT !.open = wire.open \cup {wire.made + 1}, !.made = wire.made + 1]
    BY <1>4, <2>1 DEF Opened, Wires
  <2>4. QED
    BY <1>4, <2>2, <2>3 DEF Wires
<1>7. /\ wire' \in Wires /\ wire'.sent = [wire.sent EXCEPT ![Route] = @ + 1]
      /\ \/ wire'.open = wire.open /\ wire'.made = wire.made
         \/ /\ wire'.open = wire.open \cup {wire.made + 1} /\ wire'.made = wire.made + 1
  BY <1>4, <1>6 DEF LoginAttempt
<1>8. /\ manager' \in Managers
      /\ \/ manager' = manager
         \/ manager'.session = wire.made + 1 /\ wire'.made = wire.made + 1
  <2>1. \/ manager' = manager
        \/ \E tokens \in {"live", "none"}, owner \in {"expected", "other"} :
              /\ wire.made < LoginBound /\ wire' = Opened
              /\ manager' = [tokens |-> tokens, owner |-> owner, session |-> wire.made + 1]
    BY DEF LoginAttempt
  <2>2. wire.made < LoginBound => wire.made + 1 \in 0 .. LoginBound
    BY <1>5
  <2>3. QED
    BY <1>6, <2>1, <2>2, SessionIs DEF Managers
<1>9. /\ request' \in Requests /\ request'.attempt >= 1
      /\ request'.path = request.path /\ request'.version = request.version
      /\ request'.after = request.after
      /\ \/ request'.step = request.after
         \/ request'.step = "failed"
         \/ request'.step = "login" /\ Limit.attempts # 1
  <2>1. request.after \in {"identity", "send"}
    BY SessionIs DEF Requests
  <2>2. CASE Goto(request.after)
    BY <2>1, <2>2, GotoIs, SessionIs DEF Steps
  <2>3. CASE Goto("failed")
    BY <2>3, GotoIs, SessionIs DEF Steps
  <2>4. CASE TryAgain
    <3>1. /\ request' \in Requests /\ request'.attempt >= 1
          /\ request'.path = request.path /\ request'.version = request.version
          /\ request'.after = request.after
          /\ \/ request'.step = "failed"
             \/ request'.step = request.step /\ request.attempt < Limit.attempts
      BY <2>4, TryAgainIs, SessionIs
    <3>2. request.attempt < Limit.attempts => Limit.attempts # 1
      BY SessionIs DEF Requests
    <3>3. QED
      BY <1>1, <3>1, <3>2
  <2>5. QED
    BY <2>2, <2>3, <2>4 DEF LoginAttempt
<1>10. request.path = "login" => request.after = "identity"
  BY DEF SessionIInv, RequestIsKnown
<1>11. request.after \in {"identity", "send"}
  BY SessionIs DEF Requests
<1>12. /\ transport' \in Transports /\ broker' \in [Counters -> Nat]
       /\ wire'.sent \in [Routes -> Nat]
       /\ \A r \in Routes : wire'.sent[r] >= wire.sent[r]
       /\ CountsAgree'
       /\ Limit.attempts = 1 => LoginsAreCounted'
       /\ wire'.sent["login"] = wire.sent["login"] + 1
  BY <1>1, <1>3, <1>7, <1>9, <1>11, AttemptIs
<1>13. LoginsAreCounted'
  BY <1>1, <1>12, LoginsOfOneAttempt
<1>14. SessionTypeOK'
  BY <1>1, <1>7, <1>8, <1>9, <1>12, SessionIs, NextTypeIs
<1>15. SessionsAreKnown'
  <2>1. wire'.open \subseteq 1 .. wire'.made
    BY <1>5, <1>7
  <2>2. manager'.session <= wire'.made /\ (manager'.tokens # "none" => manager'.session >= 1)
    BY <1>5, <1>7, <1>8
  <2>3. wire'.made <= wire'.sent["login"]
    BY <1>5, <1>7, <1>12, CountsAreNatural
  <2>4. QED
    BY <2>1, <2>2, <2>3 DEF SessionsAreKnown
<1>16. RequestIsKnown'
  BY <1>9, <1>10, <1>11 DEF RequestIsKnown
<1>17. StreamIInv' /\ ProbeIsInStep' /\ ProbeIsKnown'
  <2>1. manager.session >= 1 => manager'.session >= 1
    BY <1>5, <1>8
  <2>2. request'.step # "idle"
    BY <1>9, <1>11
  <2>3. QED
    BY <1>1, <1>9, <1>12, <2>1, <2>2, ProbeWaits
<1>18. QED
  BY <1>12, <1>13, <1>14, <1>15, <1>16, <1>17 DEF SessionIInv

-----------------------------------------------------------------------------
(* The steps of a probe. *)

\* A step of the probe sends nothing, and leaves the books of what was sent.
Quietly ==
    /\ UNCHANGED <<manager, wire>>
    /\ request' \in Requests /\ transport' \in Transports /\ broker' \in [Counters -> Nat]
    /\ CountsAgree' /\ LoginsAreCounted' /\ RequestIsKnown'

LEMMA CountsStay ==
    ASSUME SessionIInv, probe'.kind = probe.kind, UNCHANGED wire,
           transport'.total = transport.total, transport'.logins = transport.logins,
           transport'.routes = transport.routes
    PROVE  CountsAgree'
<1>1. AllSent' = AllSent
  BY SumOfSent
<1>2. Limit' = Limit
  BY DEF Limit
<1>3. QED
  BY <1>1, <1>2 DEF SessionIInv, CountsAgree

LEMMA NothingIsAsked ==
    ASSUME SessionIInv, UNCHANGED <<request, manager, transport, broker, wire>>,
           probe'.kind = probe.kind
    PROVE  Quietly
<1>1. CountsAgree'
  BY CountsStay
<1>2. LoginsAreCounted'
  BY DEF SessionIInv, LoginsAreCounted, LoginsDue, Limit
<1>3. RequestIsKnown'
  BY DEF SessionIInv, RequestIsKnown
<1>4. QED
  BY <1>1, <1>2, <1>3, SessionIs DEF Quietly

LEMMA TakeIs ==
    ASSUME SessionIInv, Take, UNCHANGED <<manager, wire>>, probe'.kind = probe.kind,
           broker' = broker \/ broker' = [broker EXCEPT !.logout = @ + 1]
    PROVE  Quietly /\ request'.step = "idle"
<1>1. request' = Quiet
  BY DEF Take
<1>2. /\ request' \in Requests /\ request'.step = "idle" /\ request'.path = "login"
      /\ request'.attempt = 1 /\ request'.after = "identity"
  BY <1>1, RoutesAre DEF Quiet, Requests, Steps, Versions, Contents
<1>3. /\ transport' \in Transports /\ transport'.total = transport.total
      /\ transport'.logins = transport.logins /\ transport'.routes = transport.routes
  <2>1. NoContract \in Contracts
    BY DEF NoContract, Contracts, Versions, Contents
  <2>2. transport' = [transport EXCEPT !.contract = NoContract]
    BY DEF Take
  <2>3. QED
    BY <2>1, <2>2, SessionIs DEF Transports
<1>4. /\ broker' \in [Counters -> Nat] /\ broker'.auth = broker.auth
      /\ broker'.internal = broker.internal
  BY SessionIs DEF Counters
<1>5. CountsAgree'
  BY <1>3, CountsStay
<1>6. LoginsAreCounted'
  <2>1. LoginsDue' = 0
    BY <1>2 DEF LoginsDue
  <2>2. QED
    BY <1>4, <2>1, CountsAreNatural DEF SessionIInv, LoginsAreCounted, Limit
<1>7. RequestIsKnown'
  BY <1>2 DEF RequestIsKnown
<1>8. QED
  BY <1>2, <1>3, <1>4, <1>5, <1>6, <1>7 DEF Quietly

LEMMA AskIs ==
    ASSUME SessionIInv, NEW r, Ask(r), r.path \in Routes, r.version \in Versions,
           r.path \in {"login", "accounts", "prices", "logout"} => r.version = "none",
           probe'.kind = probe.kind
    PROVE  /\ Quietly /\ request.step = "idle" /\ request'.step \in {"prove", "identity"}
           /\ request'.path = r.path /\ request'.version = r.version
<1>1. /\ request.step = "idle" /\ UNCHANGED <<manager, wire>>
      /\ request' = [Quiet EXCEPT !.step = IF r.path = "logout" THEN "identity" ELSE "prove",
                                  !.path = r.path, !.version = r.version]
  BY DEF Ask
<1>2. /\ request' \in Requests /\ request'.attempt = 1 /\ request'.after = "identity"
      /\ request'.step \in {"prove", "identity"}
      /\ request'.path = r.path /\ request'.version = r.version
  <2>1. Quiet \in Requests /\ Quiet.attempt = 1 /\ Quiet.after = "identity"
    BY RoutesAre DEF Quiet, Requests, Steps, Versions, Contents
  <2>2. PICK step \in {"prove", "identity"} :
           request' = [Quiet EXCEPT !.step = step, !.path = r.path, !.version = r.version]
    BY <1>1
  <2>3. QED
    BY <2>1, <2>2 DEF Requests, Steps
<1>3. /\ transport' \in Transports /\ transport'.total = transport.total
      /\ transport'.logins = transport.logins /\ transport'.routes = transport.routes
  <2>1. NoContract \in Contracts /\ "none" \in Versions
    BY DEF NoContract, Contracts, Versions, Contents
  <2>2. \/ transport' = [transport EXCEPT !.dispatched = "none", !.contract = NoContract]
        \/ transport' = transport
    BY DEF Ask
  <2>3. QED
    BY <2>1, <2>2, SessionIs DEF Transports
<1>4. broker \in [Counters -> Nat]
  BY SessionIs
<1>5. CASE r.path = "logout"
  <2>1. broker' = broker /\ LoginsDue' = 0 /\ LoginsDue = 0
    BY <1>1, <1>2, <1>5 DEF Ask, LoginsDue
  <2>2. LoginsAreCounted'
    BY <1>1, <2>1 DEF SessionIInv, LoginsAreCounted, Limit
  <2>3. QED
    BY <1>1, <1>2, <1>3, <1>4, <2>1, <2>2, CountsStay DEF Quietly, RequestIsKnown
<1>6. CASE r.path # "logout"
  <2>1. broker' = [broker EXCEPT ![CounterOf(r)] = @ + 1]
    BY <1>6 DEF Ask
  <2>2. /\ CounterOf(r) \in {"auth", "account", "schedule", "history"}
        /\ r.path = "login" => CounterOf(r) = "auth"
    BY DEF CounterOf
  <2>3. /\ broker' \in [Counters -> Nat] /\ broker'.internal = broker.internal
        /\ broker'.auth \in Nat /\ broker'.auth >= broker.auth
        /\ r.path = "login" => broker'.auth = broker.auth + 1
    BY <1>4, <2>1, <2>2 DEF Counters
  <2>4. LoginsDue = 0 /\ (r.path # "login" => LoginsDue' = 0)
    BY <1>1, <1>2 DEF LoginsDue
  <2>5. LoginsAreCounted'
    BY <1>1, <2>3, <2>4, CountsAreNatural DEF SessionIInv, LoginsAreCounted, Limit
  <2>6. QED
    BY <1>1, <1>2, <1>3, <2>3, <2>5, CountsStay DEF Quietly, RequestIsKnown
<1>7. QED
  BY <1>1, <1>2, <1>5, <1>6

LEMMA MoveKeeps ==
    ASSUME SessionIInv, Quietly, StreamStep, probe' \in Probes, ProbeIsInStep', ProbeIsKnown'
    PROVE  SessionIInv'
<1>1. StreamIInv'
  BY StreamStepKeeps DEF SessionIInv
<1>2. SessionTypeOK'
  BY SessionIs, NextTypeIs DEF Quietly
<1>3. SessionsAreKnown'
  BY DEF Quietly, SessionIInv, SessionsAreKnown
<1>4. QED
  BY <1>1, <1>2, <1>3 DEF SessionIInv, Quietly

\* The probe leaves its sequence, with an error or with all its reads made.
LEMMA ToFinalKeeps ==
    ASSUME SessionIInv, Quietly, StreamStep, probe' \in Probes, probe'.kind = probe.kind,
           probe.at # "done", probe'.at = "final", probe'.next = probe.next,
           probe'.authenticated => probe.authenticated,
           probe'.logout = probe.logout, probe'.status = probe.status,
           request'.step = "idle",
           probe'.error # "none" \/ (probe'.authenticated /\ ReadsAreSent)
    PROVE  SessionIInv'
<1>1. wire' = wire /\ manager' = manager
  BY DEF Quietly
<1>2. ReadsAreSent' <=> ReadsAreSent
  BY <1>1 DEF ReadsAreSent
<1>3. probe.logout # "PASS" /\ probe.status = "none"
  BY DEF SessionIInv, ProbeIsKnown
<1>4. ProbeIsInStep'
  BY <1>1 DEF SessionIInv, ProbeIsInStep
<1>5. ProbeIsKnown'
  BY <1>1, <1>2, <1>3 DEF SessionIInv, ProbeIsKnown
<1>6. QED
  BY <1>4, <1>5, MoveKeeps

LEMMA StopIs ==
    ASSUME SessionIInv, NEW error \in {"HOURS", "ALLOWANCE", "BLOCKED"}, NEW first \in Contents,
           Stop(probe, error) \/ Stop([probe EXCEPT !.first = first], error)
    PROVE  /\ probe' \in Probes /\ probe'.kind = probe.kind /\ probe'.at = "final"
           /\ probe'.next = probe.next /\ probe'.authenticated = probe.authenticated
           /\ probe'.logout = probe.logout /\ probe'.status = probe.status
           /\ probe'.error # "none"
<1>1. probe \in Probes
  BY SessionIs
<1>2. CASE Stop(probe, error)
  <2>1. probe' = [probe EXCEPT !.error = error, !.at = "final"]
    BY <1>2 DEF Stop, Sequence
  <2>2. QED
    BY <1>1, <2>1 DEF Probes, Places
<1>3. CASE Stop([probe EXCEPT !.first = first], error)
  <2>1. probe' = [probe EXCEPT !.first = first, !.error = error, !.at = "final"]
    BY <1>3 DEF Stop, Sequence
  <2>2. QED
    BY <1>1, <2>1 DEF Probes, Places
<1>4. QED
  BY <1>2, <1>3

LEMMA StreamStaysPut ==
    ASSUME UNCHANGED streamVars
    PROVE  StreamStep /\ call' = call /\ bridge' = bridge
BY DEF StreamStep, streamVars

LEMMA StopKeeps ==
    ASSUME SessionIInv, NEW error \in {"HOURS", "ALLOWANCE", "BLOCKED"}, NEW first \in Contents,
           Stop(probe, error) \/ Stop([probe EXCEPT !.first = first], error),
           probe.at # "done", Quietly, request'.step = "idle", StreamStep
    PROVE  SessionIInv'
BY StopIs, ToFinalKeeps

LEMMA AfterFailureIs == AfterFailure \in {"HOURS", "ALLOWANCE", "BLOCKED"}
BY DEF AfterFailure

LEMMA ProbePreflightKeeps ==
    ASSUME SessionIInv, ProbePreflight
    PROVE  SessionIInv'
<1>1. /\ probe.at = "preflight" /\ UNCHANGED <<request, manager, transport, broker, wire, streamVars>>
      /\ Sequence(probe, "auth") \/ Stop(probe, "BLOCKED")
  BY DEF ProbePreflight, BrokerBuilt, RequirementFails
<1>2. request.step = "idle" /\ StreamStep /\ call' = call /\ bridge' = bridge
  BY <1>1, StreamStaysPut DEF SessionIInv, ProbeIsInStep
<1>3. CASE Stop(probe, "BLOCKED")
  <2>1. "poor" \in Contents
    BY DEF Contents
  <2>2. Quietly
    BY <1>1, <1>3, <2>1, StopIs, NothingIsAsked
  <2>3. QED
    BY <1>1, <1>2, <1>3, <2>1, <2>2, StopKeeps
<1>4. CASE Sequence(probe, "auth")
  <2>1. /\ probe' \in Probes /\ probe'.kind = probe.kind /\ probe'.at = "auth"
        /\ probe'.next = probe.next /\ probe'.authenticated = probe.authenticated
        /\ probe'.logout = probe.logout /\ probe'.status = probe.status
    BY <1>4, SessionIs DEF Sequence, Probes, Places
  <2>2. Quietly
    BY <1>1, <2>1, NothingIsAsked
  <2>3. probe.logout # "PASS" /\ probe.status = "none" /\ call = Idle /\ ~bridge.connected
    BY <1>1 DEF SessionIInv, ProbeIsKnown, ProbeIsInStep
  <2>4. ProbeIsInStep'
    BY <1>1, <1>2, <2>1, <2>3 DEF SessionIInv, ProbeIsInStep
  <2>5. ProbeIsKnown'
    BY <1>1, <2>1, <2>3 DEF SessionIInv, ProbeIsKnown
  <2>6. QED
    BY <1>2, <2>1, <2>2, <2>4, <2>5, MoveKeeps
<1>5. QED
  BY <1>1, <1>3, <1>4

LEMMA OneMore ==
    ASSUME NEW S, NEW f \in [S -> Nat], NEW c
    PROVE  [f EXCEPT ![c] = @ + 1] \in [S -> Nat]
<1>1. CASE c \in S
  <2>1. f[c] + 1 \in Nat
    BY <1>1
  <2>2. QED
    BY <1>1, <2>1
<1>2. CASE c \notin S
  BY <1>2
<1>3. QED
  BY <1>1, <1>2

\* The probe asks, or its budget is spent.
LEMMA SpendKeeps ==
    ASSUME SessionIInv, NEW category, NEW r, Spend(category, r), UNCHANGED streamVars,
           r.path \in Routes, r.version \in Versions,
           r.path \in {"login", "accounts", "prices", "logout"} => r.version = "none",
           request.step = "idle",
           \/ probe.at = "auth" /\ r.path = "login" /\ category # "logout"
           \/ /\ probe.at = "read" /\ r = Reads(probe.kind)[probe.next]
              /\ category # "logout"
           \/ probe.at = "logout" /\ r.path = "logout" /\ category = "logout"
    PROVE  SessionIInv'
<1>1. StreamStep /\ call' = call /\ bridge' = bridge
  BY StreamStaysPut
<1>2. probe.logout # "PASS" /\ probe.status = "none" /\ call = Idle /\ ~bridge.connected
  BY DEF SessionIInv, ProbeIsKnown, ProbeIsInStep
<1>3. ASSUME Ask(r), probe' \in Probes, probe'.kind = probe.kind, probe'.at = probe.at,
             probe'.next = probe.next, probe'.authenticated = probe.authenticated,
             probe'.logout = probe.logout, probe'.status = probe.status,
             probe'.error = probe.error
      PROVE  SessionIInv'
  <2>1. /\ Quietly /\ request'.step \in {"prove", "identity"}
        /\ request'.path = r.path /\ request'.version = r.version
    BY <1>3, AskIs
  <2>2. wire' = wire /\ manager' = manager
    BY <2>1 DEF Quietly
  <2>3. ProbeIsInStep'
    BY <1>1, <1>2, <1>3, <2>1, <2>2 DEF SessionIInv, ProbeIsInStep
  <2>4. ReadsAreSent' <=> ReadsAreSent
    BY <1>3, <2>2 DEF ReadsAreSent
  <2>5. ProbeIsKnown'
    BY <1>2, <1>3, <2>2, <2>4 DEF SessionIInv, ProbeIsKnown
  <2>6. QED
    BY <1>1, <1>3, <2>1, <2>3, <2>5, MoveKeeps
<1>4. CASE Ask(r) /\ UNCHANGED probe
  BY <1>3, <1>4, SessionIs
<1>5. CASE Ask(r) /\ probe' = [probe EXCEPT !.reserved[category] = @ + 1]
  <2>1. [probe.reserved EXCEPT ![category] = @ + 1]
            \in [{"auth", "account", "schedule", "logout"} -> Nat]
    <3>1. probe.reserved \in [{"auth", "account", "schedule", "logout"} -> Nat]
      BY SessionIs DEF Probes
    <3>2. QED
      BY <3>1, OneMore
  <2>2. /\ probe' \in Probes /\ probe'.kind = probe.kind /\ probe'.at = probe.at
        /\ probe'.next = probe.next /\ probe'.authenticated = probe.authenticated
        /\ probe'.logout = probe.logout /\ probe'.status = probe.status
        /\ probe'.error = probe.error
    BY <1>5, <2>1, SessionIs DEF Probes
  <2>3. QED
    BY <1>3, <1>5, <2>2
<1>6. CASE /\ IF category = "logout"
              THEN Sequence([probe EXCEPT !.logout = "FAILED"], "done")
              ELSE Stop(probe, "BLOCKED")
           /\ UNCHANGED <<request, transport, broker, manager, wire>>
  <2>1. CASE category # "logout"
    <3>1. Stop(probe, "BLOCKED") /\ "poor" \in Contents
      BY <1>6, <2>1 DEF Contents
    <3>2. Quietly
      BY <1>6, <3>1, StopIs, NothingIsAsked
    <3>3. QED
      BY <1>1, <1>6, <3>1, <3>2, StopKeeps
  <2>2. CASE category = "logout" /\ probe.at = "logout"
    <3>1. /\ probe' \in Probes /\ probe'.kind = probe.kind /\ probe'.at = "done"
          /\ probe'.next = probe.next /\ probe'.authenticated = probe.authenticated
          /\ probe'.logout = "FAILED" /\ probe'.status = probe.status
          /\ probe'.error = probe.error
      <4>1. probe' = [probe EXCEPT !.logout = "FAILED", !.at = "done"]
        BY <1>6, <2>2 DEF Sequence
      <4>2. probe \in Probes
        BY SessionIs
      <4>3. QED
        BY <4>1, <4>2 DEF Probes, Places
    <3>2. Quietly
      BY <1>6, <3>1, NothingIsAsked
    <3>3. ReadsAreSent' <=> ReadsAreSent
      BY <1>6, <3>1 DEF ReadsAreSent
    <3>4. ProbeIsInStep'
      BY <1>1, <1>2, <1>6, <3>1 DEF SessionIInv, ProbeIsInStep
    <3>5. ProbeIsKnown'
      BY <1>2, <1>6, <2>2, <3>1, <3>3 DEF SessionIInv, ProbeIsKnown
    <3>6. QED
      BY <1>1, <3>1, <3>2, <3>4, <3>5, MoveKeeps
  <2>3. QED
    BY <1>6, <2>1, <2>2
<1>7. QED
  BY <1>4, <1>5, <1>6 DEF Spend
LEMMA ProbeAuthenticatesKeeps ==
    ASSUME SessionIInv, ProbeAuthenticates
    PROVE  SessionIInv'
<1> DEFINE r == Asked("login", "none")
<1>1. r.path = "login" /\ r.version = "none"
  BY AskedIs
<1>2. Spend("auth", r) /\ UNCHANGED streamVars /\ request.step = "idle" /\ probe.at = "auth"
  BY DEF ProbeAuthenticates
<1> HIDE DEF r
<1>3. r.path \in Routes /\ r.version \in Versions
  BY <1>1, RoutesAre DEF Versions
<1>4. QED
  BY <1>1, <1>2, <1>3, SpendKeeps

LEMMA ProbeLogsOutKeeps ==
    ASSUME SessionIInv, ProbeLogsOut
    PROVE  SessionIInv'
<1> DEFINE r == Asked("logout", "none")
<1>1. r.path = "logout" /\ r.version = "none"
  BY AskedIs
<1>2. Spend("logout", r) /\ UNCHANGED streamVars /\ request.step = "idle" /\ probe.at = "logout"
  BY DEF ProbeLogsOut
<1> HIDE DEF r
<1>3. r.path \in Routes /\ r.version \in Versions
  BY <1>1, RoutesAre DEF Versions
<1>4. QED
  BY <1>1, <1>2, <1>3, SpendKeeps

LEMMA ProbeReadsKeeps ==
    ASSUME SessionIInv, ProbeReads
    PROVE  SessionIInv'
<1>1. PICK r : /\ r = Reads(probe.kind)[probe.next]
               /\ Spend(CounterOf(r), r)
  BY DEF ProbeReads
<1>2. probe.kind \in Kinds /\ probe.next \in 1 .. Len(Reads(probe.kind))
  BY SessionIs DEF ProbeReads, SessionIInv, ProbeIsInStep, Probes
<1>3. /\ r.path \in Routes \ {"login", "logout"} /\ r.version \in Versions
      /\ r.version = "none" <=> r.path \in {"accounts", "prices"}
  BY <1>1, <1>2, ReadsAre
<1>4. CounterOf(r) # "logout"
  BY DEF CounterOf
<1>5. UNCHANGED streamVars /\ request.step = "idle" /\ probe.at = "read"
  BY DEF ProbeReads
<1>6. QED
  BY <1>1, <1>3, <1>4, <1>5, SpendKeeps

LEMMA ProbeAuthenticatedKeeps ==
    ASSUME SessionIInv, ProbeAuthenticated
    PROVE  SessionIInv'
<1>1. /\ probe.at = "auth" /\ request.step \in {"ok", "failed"} /\ Take
      /\ UNCHANGED <<manager, broker, wire, streamVars>>
  BY DEF ProbeAuthenticated
<1>2. StreamStep /\ call' = call /\ bridge' = bridge
  BY <1>1, StreamStaysPut
<1>3. CASE request.step = "ok"
  <2>1. probe' = [probe EXCEPT !.authenticated = TRUE, !.at = "read"]
    BY <1>3 DEF ProbeAuthenticated, Sequence
  <2>2. /\ probe' \in Probes /\ probe'.kind = probe.kind /\ probe'.at = "read"
        /\ probe'.next = probe.next /\ probe'.authenticated
        /\ probe'.logout = probe.logout /\ probe'.status = probe.status
    BY <2>1, SessionIs DEF Probes, Places
  <2>3. Quietly /\ request'.step = "idle"
    BY <1>1, <2>2, TakeIs
  <2>4. manager.session >= 1
    BY <1>1, <1>3 DEF SessionIInv, ProbeIsInStep, RequestIsKnown
  <2>5. probe.next = 1 /\ call = Idle /\ ~bridge.connected
    BY <1>1 DEF SessionIInv, ProbeIsInStep
  <2>6. 1 \in 1 .. Len(Reads(probe.kind))
    BY SessionIs, ReadsAre DEF Probes
  <2>7. ProbeIsInStep'
    BY <1>2, <2>2, <2>3, <2>5, <2>6 DEF ProbeIsInStep
  <2>8. ProbeIsKnown'
    BY <1>1, <2>2, <2>4 DEF SessionIInv, ProbeIsKnown
  <2>9. QED
    BY <1>2, <2>2, <2>3, <2>7, <2>8, MoveKeeps
<1>4. CASE request.step = "failed"
  <2>1. PICK error \in {"HOURS", "ALLOWANCE", "BLOCKED"} : Stop(probe, error)
    BY <1>4, AfterFailureIs DEF ProbeAuthenticated
  <2>2. "poor" \in Contents
    BY DEF Contents
  <2>3. probe'.kind = probe.kind
    BY <2>1, <2>2, StopIs
  <2>4. Quietly /\ request'.step = "idle"
    BY <1>1, <2>3, TakeIs
  <2>5. QED
    BY <1>1, <1>2, <2>1, <2>2, <2>4, StopKeeps
<1>5. QED
  BY <1>1, <1>3, <1>4

-----------------------------------------------------------------------------
(* The answers of the reads. *)

\* What every answer of a read comes with.
Answer ==
    /\ probe.at = "read" /\ request.step \in {"ok", "failed"} /\ Take
    /\ UNCHANGED <<manager, broker, wire, streamVars>>

LEMMA AnswersAre ==
    /\ HistoryRead => Answer
    /\ AccountRead => Answer
    /\ Gate12Read => Answer
    /\ Gate13Read => Answer
    /\ ClockRead => Answer
BY DEF HistoryRead, AccountRead, Gate12Read, Gate13Read, ClockRead, ReadDone, Answer

\* A read that has ended well was sent, after all the reads before it.
LEMMA ReadIsSent ==
    ASSUME SessionIInv, Answer
    PROVE  /\ probe.kind \in Kinds /\ probe.next \in 1 .. Len(Reads(probe.kind))
           /\ Len(Reads(probe.kind)) \in Nat
           /\ request.path = Reads(probe.kind)[probe.next].path
           /\ request.version = Reads(probe.kind)[probe.next].version
           /\ probe.authenticated /\ call = Idle /\ ~bridge.connected
           /\ StreamStep /\ call' = call /\ bridge' = bridge
           /\ request.step = "ok" =>
                 /\ \A i \in 1 .. Len(Reads(probe.kind)) :
                       i < probe.next + 1 => wire.sent[Reads(probe.kind)[i].path] > 0
                 /\ probe.kind # "clock" \/ probe.next = Len(Reads(probe.kind)) => ReadsAreSent
                 /\ request.version # "none" => transport.contract.content \in Contents
<1>1. probe.kind \in Kinds
  BY SessionIs DEF Probes
<1>2. Len(Reads(probe.kind)) \in Nat
  BY <1>1, ReadsAre
<1>3. /\ probe.next \in 1 .. Len(Reads(probe.kind))
      /\ request.path = Reads(probe.kind)[probe.next].path
      /\ request.version = Reads(probe.kind)[probe.next].version
      /\ probe.authenticated /\ call = Idle /\ ~bridge.connected
  BY DEF Answer, SessionIInv, ProbeIsInStep, ProbeIsKnown
<1>4. StreamStep /\ call' = call /\ bridge' = bridge
  BY StreamStaysPut DEF Answer
<1>5. ASSUME request.step = "ok"
      PROVE  /\ \A i \in 1 .. Len(Reads(probe.kind)) :
                   i < probe.next + 1 => wire.sent[Reads(probe.kind)[i].path] > 0
             /\ probe.kind # "clock" \/ probe.next = Len(Reads(probe.kind)) => ReadsAreSent
             /\ request.version # "none" => transport.contract.content \in Contents
  <2>1. request.path \notin {"login", "logout"}
    BY <1>1, <1>3, ReadsAre
  <2>2. /\ wire.sent[request.path] > 0
        /\ request.version # "none" => transport.contract.content \in Contents
    BY <1>5, <2>1 DEF SessionIInv, RequestIsKnown
  <2>3. \A i \in 1 .. Len(Reads(probe.kind)) :
           i < probe.next => wire.sent[Reads(probe.kind)[i].path] > 0
    BY DEF SessionIInv, ProbeIsInStep
  <2>4. \A i \in 1 .. Len(Reads(probe.kind)) :
           i < probe.next + 1 => i < probe.next \/ i = probe.next
    BY <1>2, <1>3
  <2>5. \A i \in 1 .. Len(Reads(probe.kind)) :
           i < probe.next + 1 => wire.sent[Reads(probe.kind)[i].path] > 0
    BY <1>3, <2>2, <2>3, <2>4
  <2>6. \A i \in 1 .. Len(Reads(probe.kind)) :
           /\ i = 1 => i < probe.next + 1
           /\ probe.next = Len(Reads(probe.kind)) => i < probe.next + 1
    BY <1>2, <1>3
  <2>7. probe.kind # "clock" \/ probe.next = Len(Reads(probe.kind)) => ReadsAreSent
    BY <2>5, <2>6 DEF ReadsAreSent
  <2>8. QED
    BY <2>2, <2>5, <2>7
<1>6. QED
  BY <1>1, <1>2, <1>3, <1>4, <1>5

LEMMA ReadStops ==
    ASSUME SessionIInv, Answer, NEW error \in {"HOURS", "ALLOWANCE", "BLOCKED"},
           NEW first \in Contents,
           Stop(probe, error) \/ Stop([probe EXCEPT !.first = first], error)
    PROVE  SessionIInv'
<1>1. probe'.kind = probe.kind
  BY StopIs
<1>2. Quietly /\ request'.step = "idle"
  BY <1>1, TakeIs DEF Answer
<1>3. QED
  BY <1>2, ReadIsSent, StopKeeps DEF Answer

\* The last read: the probe goes on to its end.
LEMMA ReadEnds ==
    ASSUME SessionIInv, Answer, request.step = "ok", NEW first \in Contents,
           probe' = [probe EXCEPT !.first = first, !.at = "final"],
           probe.kind # "clock" \/ probe.next = Len(Reads(probe.kind))
    PROVE  SessionIInv'
<1>1. /\ probe' \in Probes /\ probe'.kind = probe.kind /\ probe'.at = "final"
      /\ probe'.next = probe.next /\ probe'.authenticated = probe.authenticated
      /\ probe'.logout = probe.logout /\ probe'.status = probe.status
  BY SessionIs DEF Probes, Places
<1>2. Quietly /\ request'.step = "idle"
  BY <1>1, TakeIs DEF Answer
<1>3. QED
  BY <1>1, <1>2, ReadIsSent, ToFinalKeeps DEF Answer

\* There is another read to make.
LEMMA ReadGoesOn ==
    ASSUME SessionIInv, Answer, request.step = "ok", NEW first \in Contents,
           probe' = [probe EXCEPT !.first = first, !.next = probe.next + 1],
           probe.next < Len(Reads(probe.kind))
    PROVE  SessionIInv'
<1>1. probe.next + 1 \in Nat /\ probe.next + 1 \in 1 .. Len(Reads(probe.kind))
  BY ReadIsSent
<1>2. /\ probe' \in Probes /\ probe'.kind = probe.kind /\ probe'.at = "read"
      /\ probe'.next = probe.next + 1 /\ probe'.authenticated = probe.authenticated
      /\ probe'.logout = probe.logout /\ probe'.status = probe.status
  BY <1>1, SessionIs DEF Probes, Answer
<1>3. Quietly /\ request'.step = "idle"
  BY <1>2, TakeIs DEF Answer
<1>4. wire' = wire /\ manager' = manager
  BY DEF Answer
<1>5. ProbeIsInStep'
  BY <1>1, <1>2, <1>3, <1>4, ReadIsSent DEF ProbeIsInStep
<1>6. ProbeIsKnown'
  BY <1>2, <1>4, ReadIsSent DEF Answer, SessionIInv, ProbeIsKnown
<1>7. QED
  BY <1>2, <1>3, <1>5, <1>6, ReadIsSent, MoveKeeps

\* A probe keeps what it has no new word of.
LEMMA FirstStays ==
    ASSUME SessionIInv
    PROVE  /\ probe.first \in Contents
           /\ [probe EXCEPT !.at = "final"]
                 = [probe EXCEPT !.first = probe.first, !.at = "final"]
           /\ [probe EXCEPT !.next = probe.next + 1]
                 = [probe EXCEPT !.first = probe.first, !.next = probe.next + 1]
BY SessionIs DEF Probes

LEMMA HistoryReadKeeps ==
    ASSUME SessionIInv, HistoryRead
    PROVE  SessionIInv'
<1>1. Answer /\ probe.kind = "gate09" /\ "poor" \in Contents
  BY AnswersAre DEF HistoryRead, Contents
<1>2. CASE Stop(probe, "BLOCKED")
  BY <1>1, <1>2, ReadStops
<1>3. CASE request.step = "ok" /\ Sequence(probe, "stream")
  <2>1. /\ probe' \in Probes /\ probe'.kind = probe.kind /\ probe'.at = "stream"
        /\ probe'.next = probe.next /\ probe'.authenticated = probe.authenticated
        /\ probe'.logout = probe.logout /\ probe'.status = probe.status
    BY <1>3, SessionIs DEF Probes, Places, Sequence
  <2>2. Quietly /\ request'.step = "idle"
    BY <1>1, <2>1, TakeIs DEF Answer
  <2>3. wire' = wire /\ manager' = manager
    BY <1>1 DEF Answer
  <2>4. ReadsAreSent /\ (ReadsAreSent' <=> ReadsAreSent)
    BY <1>1, <1>3, <2>1, <2>3, ReadIsSent DEF ReadsAreSent
  <2>5. ProbeIsInStep'
    BY <2>1, <2>2, <2>3 DEF SessionIInv, ProbeIsInStep
  <2>6. ProbeIsKnown'
    BY <1>1, <2>1, <2>3, <2>4, ReadIsSent DEF Answer, SessionIInv, ProbeIsKnown
  <2>7. QED
    BY <1>1, <2>1, <2>2, <2>5, <2>6, ReadIsSent, MoveKeeps
<1>4. QED
  BY <1>2, <1>3 DEF HistoryRead

LEMMA AccountReadKeeps ==
    ASSUME SessionIInv, AccountRead
    PROVE  SessionIInv'
<1>1. Answer /\ request.path = "accounts" /\ "poor" \in Contents
  BY AnswersAre DEF AccountRead, Contents
<1>2. CASE Stop(probe, AfterFailure) \/ Stop(probe, "BLOCKED")
  BY <1>1, <1>2, ReadStops, AfterFailureIs
<1>3. CASE request.step = "ok" /\ probe' = [probe EXCEPT !.next = @ + 1]
  <2>1. probe.kind = "clock" /\ probe.next = 1
    BY <1>1, ReadIsSent, ReadsAre
  <2>2. probe.next < Len(Reads(probe.kind))
    BY <2>1, ClockReadsAre, MarketsAre
  <2>3. PICK first \in Contents :
           probe' = [probe EXCEPT !.first = first, !.next = probe.next + 1]
    BY <1>3, FirstStays
  <2>4. QED
    BY <1>1, <1>3, <2>2, <2>3, ReadGoesOn
<1>4. QED
  BY <1>1, <1>2, <1>3 DEF AccountRead, Answer

LEMMA Gate12ReadKeeps ==
    ASSUME SessionIInv, Gate12Read
    PROVE  SessionIInv'
<1>1. Answer /\ probe.kind \in {"gate12", "gate12xau"} /\ "poor" \in Contents
  BY AnswersAre DEF Gate12Read, Contents
<1>2. Len(Reads(probe.kind)) = 2 /\ probe.kind # "clock" /\ request.version # "none"
  BY <1>1, ReadIsSent, OneReads
<1>3. CASE Stop(probe, AfterFailure)
  BY <1>1, <1>3, ReadStops, AfterFailureIs
<1>4. CASE request.step = "ok" /\ ~Stop(probe, AfterFailure)
  <2>1. PICK first \in Contents :
           first = IF probe.next = 1 THEN transport.contract.content ELSE probe.first
    BY <1>1, <1>2, <1>4, ReadIsSent, FirstStays
  <2>2. \/ /\ probe.next = 1
           /\ probe' = [[probe EXCEPT !.first = first] EXCEPT !.next = 2]
        \/ probe' = [(IF probe.next = 1 THEN [probe EXCEPT !.first = first] ELSE probe)
                        EXCEPT !.at = "final"]
    BY <1>4, <2>1 DEF Gate12Read, Sequence
  <2>3. CASE probe.next = 1 /\ probe' = [[probe EXCEPT !.first = first] EXCEPT !.next = 2]
    <3>1. probe' = [probe EXCEPT !.first = first, !.next = probe.next + 1]
      BY <2>3
    <3>2. probe.next < Len(Reads(probe.kind))
      BY <1>2, <2>3
    <3>3. QED
      BY <1>1, <1>4, <3>1, <3>2, ReadGoesOn
  <2>4. CASE probe' = [(IF probe.next = 1 THEN [probe EXCEPT !.first = first] ELSE probe)
                          EXCEPT !.at = "final"]
    <3>1. CASE probe.next = 1
      <4>1. probe' = [probe EXCEPT !.first = first, !.at = "final"]
        BY <2>4, <3>1
      <4>2. QED
        BY <1>1, <1>2, <1>4, <4>1, ReadEnds
    <3>2. CASE probe.next # 1
      <4>1. probe' = [probe EXCEPT !.first = first, !.at = "final"]
        BY <2>1, <2>4, <3>2, FirstStays
      <4>2. QED
        BY <1>1, <1>2, <1>4, <4>1, ReadEnds
    <3>3. QED
      BY <3>1, <3>2
  <2>5. QED
    BY <2>2, <2>3, <2>4
<1>5. QED
  BY <1>1, <1>3, <1>4 DEF Gate12Read, Answer

LEMMA Gate13ReadKeeps ==
    ASSUME SessionIInv, Gate13Read
    PROVE  SessionIInv'
<1>1. Answer /\ probe.kind = "gate13" /\ "poor" \in Contents
  BY AnswersAre DEF Gate13Read, Contents
<1>2. request.version # "none"
  BY <1>1, ReadIsSent, OneReads
<1>3. CASE Stop(probe, AfterFailure) \/ Stop(probe, "BLOCKED")
  BY <1>1, <1>3, ReadStops, AfterFailureIs
<1>4. CASE request.step = "ok" /\ ~(Stop(probe, AfterFailure) \/ Stop(probe, "BLOCKED"))
  <2>1. PICK first \in Contents : first = transport.contract.content
    BY <1>1, <1>2, <1>4, ReadIsSent
  <2>2. \/ Stop([probe EXCEPT !.first = first], "HOURS")
        \/ Sequence([probe EXCEPT !.first = first], "final")
    BY <1>4, <2>1 DEF Gate13Read
  <2>3. CASE Stop([probe EXCEPT !.first = first], "HOURS")
    BY <1>1, <2>3, ReadStops
  <2>4. CASE Sequence([probe EXCEPT !.first = first], "final")
    <3>1. probe' = [probe EXCEPT !.first = first, !.at = "final"]
      BY <2>4 DEF Sequence
    <3>2. QED
      BY <1>1, <1>4, <3>1, ReadEnds
  <2>5. QED
    BY <2>2, <2>3, <2>4
<1>5. QED
  BY <1>1, <1>3, <1>4 DEF Gate13Read, Answer

LEMMA ClockReadKeeps ==
    ASSUME SessionIInv, ClockRead
    PROVE  SessionIInv'
<1>1. Answer /\ probe.kind = "clock" /\ "poor" \in Contents
  BY AnswersAre DEF ClockRead, Contents
<1>2. CASE \/ Stop(probe, AfterFailure) \/ Stop(probe, "BLOCKED") \/ Stop(probe, "HOURS")
  BY <1>1, <1>2, ReadStops, AfterFailureIs
<1>3. CASE /\ request.step = "ok"
           /\ IF probe.next = Len(Reads("clock"))
              THEN Sequence(probe, "final") ELSE probe' = [probe EXCEPT !.next = @ + 1]
  <2>1. CASE probe.next = Len(Reads("clock"))
    <3>1. PICK first \in Contents : probe' = [probe EXCEPT !.first = first, !.at = "final"]
      BY <1>3, <2>1, FirstStays DEF Sequence
    <3>2. QED
      BY <1>1, <1>3, <2>1, <3>1, ReadEnds
  <2>2. CASE probe.next # Len(Reads("clock"))
    <3>1. PICK first \in Contents :
             probe' = [probe EXCEPT !.first = first, !.next = probe.next + 1]
      BY <1>3, <2>2, FirstStays
    <3>2. probe.next < Len(Reads(probe.kind))
      BY <1>1, <2>2, ReadIsSent
    <3>3. QED
      BY <1>1, <1>3, <3>1, <3>2, ReadGoesOn
  <2>3. QED
    BY <2>1, <2>2
<1>4. QED
  BY <1>1, <1>2, <1>3 DEF ClockRead, Answer

-----------------------------------------------------------------------------
(* The stream of a probe, its end, and the invariant. *)

\* A step of the stream and of what the probe notes of it.
LEMMA StaysKeeps ==
    ASSUME SessionIInv, StreamStep, UNCHANGED <<request, manager, transport, broker, wire>>,
           probe.at \in {"stream", "final"}, probe' \in Probes, probe'.kind = probe.kind,
           probe'.at = probe.at, probe'.next = probe.next,
           probe'.authenticated = probe.authenticated, probe'.logout = probe.logout,
           probe'.status = probe.status, probe'.error = probe.error
    PROVE  SessionIInv'
<1>1. Quietly
  BY NothingIsAsked
<1>2. probe.status = "none"
  BY DEF SessionIInv, ProbeIsKnown
<1>3. ReadsAreSent' <=> ReadsAreSent
  BY DEF ReadsAreSent
<1>4. ProbeIsInStep'
  BY DEF SessionIInv, ProbeIsInStep
<1>5. ProbeIsKnown'
  BY <1>2, <1>3 DEF SessionIInv, ProbeIsKnown
<1>6. QED
  BY <1>1, <1>4, <1>5, MoveKeeps

\* The end of a stream, with an error or without.
LEMMA StreamEnds ==
    ASSUME SessionIInv, StreamStep, UNCHANGED <<request, manager, transport, broker, wire>>,
           probe.at = "stream", Stop(probe, "BLOCKED") \/ Sequence(probe, "final")
    PROVE  SessionIInv'
<1>1. request.step = "idle" /\ probe.authenticated /\ ReadsAreSent /\ "poor" \in Contents
  BY DEF SessionIInv, ProbeIsInStep, ProbeIsKnown, Contents
<1>2. CASE Stop(probe, "BLOCKED")
  <2>1. Quietly
    BY <1>1, <1>2, StopIs, NothingIsAsked
  <2>2. QED
    BY <1>1, <1>2, <2>1, StopKeeps
<1>3. CASE Sequence(probe, "final")
  <2>1. /\ probe' \in Probes /\ probe'.kind = probe.kind /\ probe'.at = "final"
        /\ probe'.next = probe.next /\ probe'.authenticated = probe.authenticated
        /\ probe'.logout = probe.logout /\ probe'.status = probe.status
    BY <1>3, SessionIs DEF Sequence, Probes, Places
  <2>2. Quietly
    BY <2>1, NothingIsAsked
  <2>3. QED
    BY <1>1, <2>1, <2>2, ToFinalKeeps
<1>4. QED
  BY <1>2, <1>3

LEMMA StreamStartKeeps ==
    ASSUME SessionIInv, StreamStart
    PROVE  SessionIInv'
<1>1. probe.at = "stream" /\ UNCHANGED <<request, manager, transport, broker, wire>>
  BY DEF StreamStart
<1>2. CASE Connect /\ probe' = [probe EXCEPT !.bridge = TRUE]
  <2>1. StreamStep
    BY <1>2 DEF StreamStep, Operation
  <2>2. /\ probe' \in Probes /\ probe'.kind = probe.kind
        /\ probe'.at = probe.at /\ probe'.next = probe.next
        /\ probe'.authenticated = probe.authenticated /\ probe'.logout = probe.logout
        /\ probe'.status = probe.status /\ probe'.error = probe.error
    BY <1>2, SessionIs DEF Probes
  <2>3. QED
    BY <1>1, <2>1, <2>2, StaysKeeps
<1>3. CASE Stop(probe, "BLOCKED") /\ UNCHANGED streamVars
  BY <1>1, <1>3, StreamStaysPut, StreamEnds
<1>4. QED
  BY <1>2, <1>3 DEF StreamStart

LEMMA StreamGoesOnKeeps ==
    ASSUME SessionIInv, StreamGoesOn
    PROVE  SessionIInv'
<1>1. probe.at = "stream" /\ UNCHANGED <<request, manager, transport, broker, wire>>
  BY DEF StreamGoesOn
<1>2. CASE Subscribe({ClockMarkets[1]}) /\ UNCHANGED probe
  <2>1. {ClockMarkets[1]} \in SUBSET Epics
    BY MarketsAre
  <2>2. StreamStep
    BY <1>2, <2>1 DEF StreamStep, Operation
  <2>3. QED
    BY <1>1, <1>2, <2>2, SessionIs, StaysKeeps
<1>3. CASE Stop(probe, "BLOCKED") /\ UNCHANGED streamVars
  BY <1>1, <1>3, StreamStaysPut, StreamEnds
<1>4. QED
  BY <1>2, <1>3 DEF StreamGoesOn

LEMMA StreamReceivesKeeps ==
    ASSUME SessionIInv, StreamReceives
    PROVE  SessionIInv'
<1>1. probe.at = "stream" /\ UNCHANGED <<request, manager, transport, broker, wire>>
  BY DEF StreamReceives
<1>2. StreamStep
  BY DEF StreamReceives, StreamStep, Operation
<1>3. Stop(probe, "BLOCKED") \/ Sequence(probe, "final")
  BY DEF StreamReceives
<1>4. QED
  BY <1>1, <1>2, <1>3, StreamEnds

LEMMA FinalUnsubscribesKeeps ==
    ASSUME SessionIInv, FinalUnsubscribes
    PROVE  SessionIInv'
<1>1. /\ probe.at = "final" /\ UNCHANGED <<request, manager, transport, broker, wire>>
      /\ Unsubscribe(bridge.subs) /\ probe' = [probe EXCEPT !.unsubscribe = "FAILED"]
  BY DEF FinalUnsubscribes
<1>2. bridge.subs \in SUBSET Epics
  BY DEF SessionIInv, StreamIInv, StreamTypeOK
<1>3. StreamStep
  BY <1>1, <1>2 DEF StreamStep, Operation
<1>4. /\ probe' \in Probes /\ probe'.kind = probe.kind
      /\ probe'.at = probe.at /\ probe'.next = probe.next
      /\ probe'.authenticated = probe.authenticated /\ probe'.logout = probe.logout
      /\ probe'.status = probe.status /\ probe'.error = probe.error
  BY <1>1, SessionIs DEF Probes
<1>5. QED
  BY <1>1, <1>3, <1>4, StaysKeeps

LEMMA FinalDisconnectsKeeps ==
    ASSUME SessionIInv, FinalDisconnects
    PROVE  SessionIInv'
<1>1. probe.at = "final" /\ UNCHANGED <<request, manager, transport, broker, wire>>
  BY DEF FinalDisconnects
<1>2. StreamStep
  BY DEF FinalDisconnects, StreamStep, Operation
<1>3. PICK unsubscribe \in {"NOT_REQUIRED", "PASS", "FAILED"}, disconnect \in {"PASS", "FAILED"} :
         probe' = [probe EXCEPT !.unsubscribe = unsubscribe, !.disconnect = disconnect]
  BY SessionIs DEF FinalDisconnects, Probes
<1>4. /\ probe' \in Probes /\ probe'.kind = probe.kind
      /\ probe'.at = probe.at /\ probe'.next = probe.next
      /\ probe'.authenticated = probe.authenticated /\ probe'.logout = probe.logout
      /\ probe'.status = probe.status /\ probe'.error = probe.error
  BY <1>3, SessionIs DEF Probes
<1>5. QED
  BY <1>1, <1>2, <1>4, StaysKeeps

LEMMA FinalLogsOutKeeps ==
    ASSUME SessionIInv, FinalLogsOut
    PROVE  SessionIInv'
<1>1. /\ probe.at = "final" /\ call = Idle /\ ~bridge.connected
      /\ UNCHANGED <<request, manager, transport, broker, wire, streamVars>>
      /\ Sequence(probe, IF probe.authenticated THEN "logout" ELSE "done")
  BY DEF FinalLogsOut
<1>2. StreamStep /\ call' = call /\ bridge' = bridge
  BY <1>1, StreamStaysPut
<1>3. PICK at \in {"logout", "done"} :
         /\ probe' = [probe EXCEPT !.at = at]
         /\ at = "logout" => probe.authenticated
  BY <1>1 DEF Sequence
<1>4. /\ probe' \in Probes /\ probe'.kind = probe.kind /\ probe'.at = at
      /\ probe'.next = probe.next /\ probe'.authenticated = probe.authenticated
      /\ probe'.logout = probe.logout /\ probe'.status = probe.status
      /\ probe'.error = probe.error
  BY <1>3, SessionIs DEF Probes, Places
<1>5. Quietly
  BY <1>1, <1>4, NothingIsAsked
<1>6. request.step = "idle" /\ probe.logout # "PASS" /\ probe.status = "none"
  BY <1>1 DEF SessionIInv, ProbeIsInStep, ProbeIsKnown
<1>7. ReadsAreSent' <=> ReadsAreSent
  BY <1>1, <1>4 DEF ReadsAreSent
<1>8. ProbeIsInStep'
  BY <1>1, <1>2, <1>4, <1>6 DEF SessionIInv, ProbeIsInStep
<1>9. ProbeIsKnown'
  BY <1>1, <1>3, <1>4, <1>6, <1>7 DEF SessionIInv, ProbeIsKnown
<1>10. QED
  BY <1>2, <1>4, <1>5, <1>8, <1>9, MoveKeeps

LEMMA ProbeLoggedOutKeeps ==
    ASSUME SessionIInv, ProbeLoggedOut
    PROVE  SessionIInv'
<1>1. /\ probe.at = "logout" /\ request.step \in {"ok", "failed"} /\ Take
      /\ UNCHANGED <<manager, wire, streamVars>>
      /\ broker' = broker \/ broker' = [broker EXCEPT !.logout = @ + 1]
  BY DEF ProbeLoggedOut
<1>2. StreamStep /\ call' = call /\ bridge' = bridge
  BY <1>1, StreamStaysPut
<1>3. PICK logout \in {"PASS", "FAILED", "ALLOWANCE"}, error \in {probe.error, "ALLOWANCE"} :
         /\ probe' = [probe EXCEPT !.logout = logout, !.error = error, !.at = "done"]
         /\ logout = "PASS" => request.step = "ok"
  <2>1. CASE request.step = "ok"
    <3>1. probe' = [probe EXCEPT !.logout = "PASS", !.at = "done"]
      BY <2>1 DEF ProbeLoggedOut, Sequence
    <3>2. probe' = [probe EXCEPT !.logout = "PASS", !.error = probe.error, !.at = "done"]
      BY <3>1, SessionIs DEF Probes
    <3>3. QED
      BY <2>1, <3>2
  <2>2. CASE request.step = "failed"
    <3>1. \/ probe' = [probe EXCEPT !.logout = "ALLOWANCE", !.error = "ALLOWANCE", !.at = "done"]
          \/ probe' = [probe EXCEPT !.logout = "FAILED", !.at = "done"]
      BY <2>2 DEF ProbeLoggedOut, Sequence
    <3>2. [probe EXCEPT !.logout = "FAILED", !.at = "done"]
             = [probe EXCEPT !.logout = "FAILED", !.error = probe.error, !.at = "done"]
      BY SessionIs DEF Probes
    <3>3. QED
      BY <3>1, <3>2
  <2>3. QED
    BY <1>1, <2>1, <2>2
<1>4. /\ probe' \in Probes /\ probe'.kind = probe.kind /\ probe'.at = "done"
      /\ probe'.next = probe.next /\ probe'.authenticated = probe.authenticated
      /\ probe'.logout = logout /\ probe'.status = probe.status
      /\ probe'.error = error
  <2>1. probe \in Probes
    BY SessionIs
  <2>2. error \in {"none", "HOURS", "ALLOWANCE", "BLOCKED"}
    BY <2>1 DEF Probes
  <2>3. QED
    BY <1>3, <2>1, <2>2 DEF Probes, Places
<1>5. Quietly /\ request'.step = "idle"
  BY <1>1, <1>4, TakeIs
<1>6. logout = "PASS" => manager.session \notin wire.open
  BY <1>1, <1>3 DEF SessionIInv, ProbeIsInStep, RequestIsKnown
<1>7. call = Idle /\ ~bridge.connected /\ probe.status = "none"
  BY <1>1 DEF SessionIInv, ProbeIsInStep, ProbeIsKnown
<1>8. ReadsAreSent' <=> ReadsAreSent
  BY <1>1, <1>4 DEF ReadsAreSent
<1>9. ProbeIsInStep'
  BY <1>1, <1>2, <1>4, <1>5, <1>7 DEF SessionIInv, ProbeIsInStep
<1>10. ProbeIsKnown'
  BY <1>1, <1>4, <1>6, <1>7, <1>8 DEF SessionIInv, ProbeIsKnown
<1>11. QED
  BY <1>2, <1>4, <1>5, <1>9, <1>10, MoveKeeps

LEMMA ProbeReportsKeeps ==
    ASSUME SessionIInv, ProbeReports
    PROVE  SessionIInv'
<1>1. /\ probe.at = "done" /\ UNCHANGED <<request, manager, transport, broker, wire, streamVars>>
      /\ probe' = [probe EXCEPT !.status = Verdict]
  BY DEF ProbeReports
<1>2. StreamStep /\ call' = call /\ bridge' = bridge
  BY <1>1, StreamStaysPut
<1>3. probe.error \in {"none", "HOURS", "ALLOWANCE", "BLOCKED"} /\ probe.authenticated \in BOOLEAN
  BY SessionIs DEF Probes
<1>4. /\ Verdict \in {"PASS", "HOURS", "ALLOWANCE", "BLOCKED"}
      /\ Verdict = "PASS" => probe.error = "none" /\ (probe.kind # "gate13" => CleanupPassed)
  BY <1>3 DEF Verdict, ShapeOutcome
<1>5. /\ probe' \in Probes /\ probe'.kind = probe.kind /\ probe'.at = "done"
      /\ probe'.next = probe.next /\ probe'.authenticated = probe.authenticated
      /\ probe'.logout = probe.logout /\ probe'.status = Verdict
      /\ probe'.error = probe.error /\ probe'.bridge = probe.bridge
      /\ probe'.unsubscribe = probe.unsubscribe /\ probe'.disconnect = probe.disconnect
  BY <1>1, <1>4, SessionIs DEF Probes
<1>6. Quietly
  BY <1>1, <1>5, NothingIsAsked
<1>7. ReadsAreSent' <=> ReadsAreSent
  BY <1>1, <1>5 DEF ReadsAreSent
<1>8. CleanupPassed' <=> CleanupPassed
  BY <1>5 DEF CleanupPassed
<1>9. ProbeIsInStep'
  BY <1>1, <1>2, <1>5 DEF SessionIInv, ProbeIsInStep
<1>10. ProbeIsKnown'
  BY <1>1, <1>4, <1>5, <1>7, <1>8 DEF SessionIInv, ProbeIsKnown
<1>11. QED
  BY <1>2, <1>5, <1>6, <1>9, <1>10, MoveKeeps

LEMMA TokensExpireKeeps ==
    ASSUME SessionIInv, TokensExpire
    PROVE  SessionIInv'
<1>1. /\ manager.tokens = "live" /\ manager' = [manager EXCEPT !.tokens = "expired"]
      /\ UNCHANGED <<probe, request, transport, broker, wire, streamVars>>
  BY DEF TokensExpire
<1>2. /\ manager' \in Managers /\ manager'.owner = manager.owner
      /\ manager'.session = manager.session
  BY <1>1, SessionIs DEF Managers
<1>3. StreamIInv' /\ call' = call /\ bridge' = bridge
  BY <1>1, StreamStaysPut, StreamStepKeeps DEF SessionIInv
<1>4. CountsAgree'
  BY <1>1, CountsStay
<1>5. LoginsAreCounted'
  BY <1>1 DEF SessionIInv, LoginsAreCounted, LoginsDue, Limit
<1>6. SessionTypeOK'
  BY <1>1, <1>2, SessionIs, NextTypeIs
<1>7. SessionsAreKnown'
  BY <1>1, <1>2 DEF SessionIInv, SessionsAreKnown
<1>8. RequestIsKnown'
  BY <1>1, <1>2 DEF SessionIInv, RequestIsKnown
<1>9. ProbeIsInStep'
  BY <1>1, <1>3 DEF SessionIInv, ProbeIsInStep
<1>10. ReadsAreSent' <=> ReadsAreSent
  BY <1>1 DEF ReadsAreSent
<1>11. CleanupPassed' <=> CleanupPassed
  BY <1>1 DEF CleanupPassed
<1>12. ProbeIsKnown'
  BY <1>1, <1>2, <1>10, <1>11 DEF SessionIInv, ProbeIsKnown
<1>13. QED
  BY <1>3, <1>4, <1>5, <1>6, <1>7, <1>8, <1>9, <1>12 DEF SessionIInv

\* The stream moves between two steps of the probe.
LEMMA OtherThreadKeeps ==
    ASSUME SessionIInv, CallerSteps \/ ListenerSteps \/ UNCHANGED streamVars,
           UNCHANGED sessionVars
    PROVE  SessionIInv'
<1>1. UNCHANGED <<probe, request, manager, transport, broker, wire>>
  BY DEF sessionVars
<1>2. StreamStep
  BY DEF StreamStep
<1>3. call = Idle /\ ~bridge.connected => call' = call /\ bridge' = bridge
  <2>1. CASE CallerSteps
    <3>1. call.step # "idle"
      BY <2>1 DEF CallerSteps, ConnectReturns, SubscribeItem, SubscribeReturns, UnsubscribeReturns,
                  Attempt, Exhausted, RepresentativeReconnects, CallFails
    <3>2. QED
      BY <3>1, IdleIs
  <2>2. CASE ListenerSteps
    BY <2>2 DEF ListenerSteps, ItemUpdate, ConnectionLost
  <2>3. CASE UNCHANGED streamVars
    BY <2>3, StreamStaysPut
  <2>4. QED
    BY <2>1, <2>2, <2>3
<1>4. Quietly
  BY <1>1, NothingIsAsked
<1>5. ProbeIsInStep'
  BY <1>1, <1>3 DEF SessionIInv, ProbeIsInStep
<1>6. ReadsAreSent' <=> ReadsAreSent
  BY <1>1 DEF ReadsAreSent
<1>7. CleanupPassed' <=> CleanupPassed
  BY <1>1 DEF CleanupPassed
<1>8. ProbeIsKnown'
  BY <1>1, <1>6, <1>7 DEF SessionIInv, ProbeIsKnown
<1>9. QED
  BY <1>1, <1>2, <1>4, <1>5, <1>8, SessionIs, MoveKeeps

LEMMA SessionStarts ==
    ASSUME StreamInit, ProbeInit("preflight")
    PROVE  SessionIInv
<1>1. PICK kind \in Kinds :
         probe = [kind |-> kind, at |-> "preflight", next |-> 1, authenticated |-> FALSE,
                  bridge |-> FALSE, first |-> "poor", error |-> "none",
                  unsubscribe |-> "NOT_REQUIRED", disconnect |-> "NOT_REQUIRED",
                  logout |-> "NOT_REQUIRED",
                  reserved |-> [c \in {"auth", "account", "schedule", "logout"} |-> 0],
                  status |-> "none"]
  BY DEF ProbeInit
<1>2. /\ request = Quiet
      /\ manager = [tokens |-> "none", owner |-> "none", session |-> 0]
      /\ transport = [total |-> 0, logins |-> 0, routes |-> [r \in Routes |-> 0],
                      dispatched |-> "none", contract |-> NoContract, diagnostic |-> "none"]
      /\ broker = [c \in Counters |-> 0]
      /\ wire = [sent |-> [r \in Routes |-> 0], under |-> "none", open |-> {}, made |-> 0]
  BY DEF ProbeInit
<1>3. probe \in Probes
  BY <1>1 DEF Probes, Places, Contents
<1>4. /\ request \in Requests /\ request.step = "idle" /\ request.path = "login"
      /\ request.attempt = 1 /\ request.after = "identity"
  BY <1>2, RoutesAre DEF Quiet, Requests, Steps, Versions, Contents
<1>5. manager \in Managers /\ manager.session = 0 /\ manager.tokens = "none"
  BY <1>2, HttpAssumption DEF Managers
<1>6. /\ transport \in Transports /\ transport.total = 0 /\ transport.logins = 0
      /\ transport.routes = [r \in Routes |-> 0]
  <2>1. NoContract \in Contracts
    BY DEF NoContract, Contracts, Versions, Contents
  <2>2. QED
    BY <1>2, <2>1 DEF Transports, Versions
<1>7. broker \in [Counters -> Nat] /\ broker.auth = 0 /\ broker.internal = 0
  BY <1>2 DEF Counters
<1>8. /\ wire \in Wires /\ wire.sent = [r \in Routes |-> 0] /\ wire.open = {} /\ wire.made = 0
      /\ wire.sent["login"] = 0
  BY <1>2, RoutesAre, HttpAssumption DEF Wires
<1>9. SessionTypeOK
  BY <1>3, <1>4, <1>5, <1>6, <1>7, <1>8, SessionTypeIs
<1>10. StreamIInv /\ call = Idle /\ ~bridge.connected
  BY StreamStarts DEF StreamInit
<1>11. /\ Limit.attempts \in Nat \ {0} /\ Limit.total \in Nat /\ Limit.logins \in Nat
       /\ Limit.route \in Nat
  BY <1>1, LimitIs DEF Limit
<1>12. CountsAgree
  <2>1. AllSent = 0
    BY <1>8, SumOfSent, SumOfNothing, RoutesAre
  <2>2. QED
    BY <1>6, <1>8, <1>11, <2>1 DEF CountsAgree
<1>13. LoginsAreCounted
  BY <1>4, <1>7, <1>8 DEF LoginsAreCounted, LoginsDue
<1>14. SessionsAreKnown
  BY <1>5, <1>8 DEF SessionsAreKnown
<1>15. RequestIsKnown
  BY <1>4 DEF RequestIsKnown
<1>16. ProbeIsInStep
  BY <1>1, <1>4, <1>10 DEF ProbeIsInStep
<1>17. ProbeIsKnown
  BY <1>1 DEF ProbeIsKnown
<1>18. QED
  BY <1>9, <1>10, <1>12, <1>13, <1>14, <1>15, <1>16, <1>17 DEF SessionIInv

LEMMA SessionStepKeeps ==
    ASSUME SessionIInv, [SessionNext]_<<sessionVars, streamVars>>
    PROVE  SessionIInv'
<1>1. CASE RequestSteps
  BY <1>1, ProveKeeps, IdentifyKeeps, EnterManagerKeeps, LoginAttemptKeeps, ReadAttemptKeeps,
     AnsweredKeeps, LogoutAttemptKeeps DEF RequestSteps
<1>2. CASE ProbeSteps
  <2>1. CASE ProbePreflight \/ ProbeAuthenticates \/ ProbeAuthenticated \/ ProbeReads
    BY <2>1, ProbePreflightKeeps, ProbeAuthenticatesKeeps, ProbeAuthenticatedKeeps,
       ProbeReadsKeeps
  <2>2. CASE HistoryRead \/ AccountRead \/ Gate12Read \/ Gate13Read \/ ClockRead
    BY <2>2, HistoryReadKeeps, AccountReadKeeps, Gate12ReadKeeps, Gate13ReadKeeps, ClockReadKeeps
  <2>3. CASE StreamStart \/ StreamGoesOn \/ StreamReceives \/ FinalUnsubscribes \/ FinalDisconnects
    BY <2>3, StreamStartKeeps, StreamGoesOnKeeps, StreamReceivesKeeps, FinalUnsubscribesKeeps,
       FinalDisconnectsKeeps
  <2>4. CASE FinalLogsOut \/ ProbeLogsOut \/ ProbeLoggedOut \/ ProbeReports
    BY <2>4, FinalLogsOutKeeps, ProbeLogsOutKeeps, ProbeLoggedOutKeeps, ProbeReportsKeeps
  <2>5. QED
    BY <1>2, <2>1, <2>2, <2>3, <2>4 DEF ProbeSteps
<1>3. CASE (CallerSteps \/ ListenerSteps) /\ UNCHANGED sessionVars
  BY <1>3, OtherThreadKeeps
<1>4. CASE TokensExpire
  BY <1>4, TokensExpireKeeps
<1>5. CASE UNCHANGED <<sessionVars, streamVars>>
  BY <1>5, OtherThreadKeeps
<1>6. QED
  BY <1>1, <1>2, <1>3, <1>4, <1>5 DEF SessionNext

LEMMA RequestsAreCountedThen ==
    ASSUME SessionIInv
    PROVE  RequestsAreCounted
<1>1. Limit.attempts = 1 => wire.sent["login"] <= broker.auth + broker.internal
  BY CountsAreNatural DEF SessionIInv, LoginsAreCounted
<1>2. QED
  BY <1>1 DEF SessionIInv, CountsAgree, RequestsAreCounted

LEMMA ProbeIsHonestThen ==
    ASSUME SessionIInv
    PROVE  ProbeIsHonest
<1>1. DocumentsAreOfTheAccount
  BY DEF SessionIInv, RequestIsKnown, DocumentsAreOfTheAccount
<1>2. ASSUME probe.status = "PASS", probe.kind = "gate13" => CleanupPassed
      PROVE  /\ manager.session \notin wire.open
             /\ Limit.logins = 1 => wire.open = {}
             /\ client = NoClient
             /\ ReadsAreSent
  <2>1. /\ probe.at = "done" /\ probe.error = "none" /\ CleanupPassed
        /\ probe.authenticated /\ ReadsAreSent
    BY <1>2 DEF SessionIInv, ProbeIsKnown
  <2>2. manager.session \notin wire.open /\ manager.session >= 1
    BY <2>1 DEF SessionIInv, ProbeIsKnown, CleanupPassed
  <2>3. client = NoClient
    BY <2>1 DEF SessionIInv, ProbeIsInStep, StreamIInv, CallIsInStep
  <2>4. ASSUME Limit.logins = 1
        PROVE  wire.open = {}
    <3>1. wire.sent["login"] <= 1
      BY <2>4 DEF SessionIInv, CountsAgree
    <3>2. /\ wire.open \subseteq 1 .. wire.made /\ manager.session <= wire.made
          /\ wire.made <= wire.sent["login"]
      BY DEF SessionIInv, SessionsAreKnown
    <3>3. wire.made \in Nat /\ manager.session \in Nat /\ wire.sent["login"] \in Nat
      BY SessionIs, HttpAssumption, CountsAreNatural DEF Wires, Managers
    <3>4. wire.made = 1 /\ manager.session = 1
      BY <2>2, <3>1, <3>2, <3>3
    <3>5. wire.open \subseteq {1}
      BY <3>2, <3>4
    <3>6. QED
      BY <2>2, <3>4, <3>5
  <2>5. QED
    BY <2>1, <2>2, <2>3, <2>4
<1>3. PassIsClosed
  BY <1>2 DEF PassIsClosed, ReadsAreSent
<1>4. QED
  BY <1>1, <1>3 DEF ProbeIsHonest

(* A probe and the layers under it stay within their types in every        *)
(* interleaving of the probe, the request, the clock of the tokens and the *)
(* stream's two threads (live_contract_probe.py:108,                       *)
(* local_demo_read_only.py:214).                                           *)
THEOREM SessionTypeCorrect == SessionSpec => []SessionTypeOK
<1>1. StreamInit /\ ProbeInit("preflight") => SessionIInv
  BY SessionStarts
<1>2. SessionIInv /\ [SessionNext]_<<sessionVars, streamVars>> => SessionIInv'
  BY SessionStepKeeps
<1>3. SessionIInv => SessionTypeOK
  BY DEF SessionIInv
<1>4. QED
  BY <1>1, <1>2, <1>3, PTL DEF SessionSpec

(* Whatever is repeated and whoever logs in, what the transport has        *)
(* counted is what was sent, no more is sent than the probe was allowed,   *)
(* and a probe that sends each request once has counted every login in the *)
(* broker (local_demo_read_only.py:502, 529).                              *)
THEOREM RequestsStayCounted == SessionSpec => []RequestsAreCounted
<1>1. StreamInit /\ ProbeInit("preflight") => SessionIInv
  BY SessionStarts
<1>2. SessionIInv /\ [SessionNext]_<<sessionVars, streamVars>> => SessionIInv'
  BY SessionStepKeeps
<1>3. SessionIInv => RequestsAreCounted
  BY RequestsAreCountedThen
<1>4. QED
  BY <1>1, <1>2, <1>3, PTL DEF SessionSpec

(* A document is handed up only under the expected account, and a probe    *)
(* that passes has made its reads and has closed its stream and its        *)
(* session (local_demo_read_only.py:291, live_contract_probe.py:249).      *)
THEOREM ProbesAreHonest == SessionSpec => []ProbeIsHonest
<1>1. StreamInit /\ ProbeInit("preflight") => SessionIInv
  BY SessionStarts
<1>2. SessionIInv /\ [SessionNext]_<<sessionVars, streamVars>> => SessionIInv'
  BY SessionStepKeeps
<1>3. SessionIInv => ProbeIsHonest
  BY ProbeIsHonestThen
<1>4. QED
  BY <1>1, <1>2, <1>3, PTL DEF SessionSpec

(* The stream of a probe is faithful as well: what its bridge believes is  *)
(* so, and nothing that came over it is dropped in silence                 *)
(* (stream_bridge.py:412, local_demo_stream_transport.py:842).             *)
THEOREM StreamIsFaithfulInSession == SessionSpec => []StreamIsFaithful
<1>1. StreamInit /\ ProbeInit("preflight") => SessionIInv
  BY SessionStarts
<1>2. SessionIInv /\ [SessionNext]_<<sessionVars, streamVars>> => SessionIInv'
  BY SessionStepKeeps
<1>3. SessionIInv => StreamIsFaithful
  BY StreamIsFaithfulThen DEF SessionIInv
<1>4. QED
  BY <1>1, <1>2, <1>3, PTL DEF SessionSpec

=============================================================================
