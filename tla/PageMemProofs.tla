---------------------------- MODULE PageMemProofs ----------------------------
(***************************************************************************)
(* The page memory loses no page and no slot and gives none twice, for any *)
(* spaces, pages and descriptors.                                          *)
(***************************************************************************)
EXTENDS PageMemInv, SequenceTheorems, FiniteSetTheorems, TLAPS

-----------------------------------------------------------------------------
(* Sequences                                                               *)

LEMMA InRange ==
    ASSUME NEW S, NEW q \in Seq(S)
    PROVE  /\ Range(q) \subseteq S
           /\ \A x : x \in Range(q) <=> \E i \in 1..Len(q) : q[i] = x
           /\ Len(q) \in Nat
           /\ \A i \in 1..Len(q) : q[i] \in S
  <1>1. DOMAIN q = 1..Len(q) /\ Len(q) \in Nat /\ \A i \in 1..Len(q) : q[i] \in S
    BY LenProperties, ElementOfSeq
  <1> QED BY <1>1 DEF Range

LEMMA EmptyRange ==
    /\ Range(<<>>) = {} /\ Distinct(<<>>) /\ Len(<<>>) = 0
    /\ \A S : <<>> \in Seq(S) /\ \A q \in Seq(S) : Len(q) = 0 <=> q = <<>>
  <1>1. \A S : /\ <<>> \in Seq(S) /\ Len(<<>>) = 0
               /\ \A q \in Seq(S) : Len(q) = 0 <=> q = <<>>
    BY EmptySeq
  <1>2. Range(<<>>) = {}
    BY DEF Range
  <1> QED BY <1>1, <1>2 DEF Distinct

LEMMA AppendRange ==
    ASSUME NEW S, NEW q \in Seq(S), NEW x \in S
    PROVE  /\ Append(q, x) \in Seq(S) /\ Len(Append(q, x)) = Len(q) + 1
           /\ Range(Append(q, x)) = Range(q) \cup {x}
           /\ Distinct(q) /\ x \notin Range(q) => Distinct(Append(q, x))
  <1> DEFINE a == Append(q, x)
  <1>1. /\ a \in Seq(S) /\ Len(a) = Len(q) + 1 /\ Len(q) \in Nat
        /\ \A i \in 1..Len(q) : a[i] = q[i]
        /\ a[Len(q) + 1] = x
    BY AppendProperties, LenProperties
  <1> HIDE DEF a
  <1>2. \A y : y \in Range(a) <=> \E i \in 1..Len(a) : a[i] = y
    BY <1>1, InRange
  <1>3. \A y : y \in Range(q) <=> \E i \in 1..Len(q) : q[i] = y
    BY InRange
  <1>4. 1..Len(a) = (1..Len(q)) \cup {Len(q) + 1}
    BY <1>1
  <1>5. \A y : y \in Range(a) <=> y \in Range(q) \cup {x}
    BY <1>1, <1>2, <1>3, <1>4
  <1>6. ASSUME Distinct(q), x \notin Range(q)
        PROVE  Distinct(a)
    <2> SUFFICES ASSUME NEW i \in 1..Len(a), NEW j \in 1..Len(a), a[i] = a[j]
                 PROVE  i = j
      BY DEF Distinct
    <2>1. CASE i \in 1..Len(q) /\ j \in 1..Len(q)
      BY <1>1, <1>6, <2>1 DEF Distinct
    <2>2. CASE i = Len(q) + 1 /\ j = Len(q) + 1
      BY <2>2
    <2>3. CASE i \in 1..Len(q) /\ j = Len(q) + 1
      BY <1>1, <1>3, <1>6, <2>3
    <2>4. CASE j \in 1..Len(q) /\ i = Len(q) + 1
      BY <1>1, <1>3, <1>6, <2>4
    <2> QED BY <1>4, <2>1, <2>2, <2>3, <2>4
  <1> QED BY <1>1, <1>5, <1>6 DEF a

LEMMA TailRange ==
    ASSUME NEW S, NEW q \in Seq(S), q # <<>>
    PROVE  /\ Tail(q) \in Seq(S) /\ Len(Tail(q)) = Len(q) - 1
           /\ Len(q) \in Nat \ {0} /\ Head(q) = q[1] /\ Head(q) \in Range(q)
           /\ \A i \in 1..Len(Tail(q)) : Tail(q)[i] = q[i + 1]
           /\ Distinct(q) => /\ Distinct(Tail(q))
                             /\ Range(Tail(q)) = Range(q) \ {Head(q)}
  <1> DEFINE r == Tail(q)
  <1>1. /\ r \in Seq(S) /\ Len(r) = Len(q) - 1 /\ Len(q) \in Nat \ {0}
        /\ \A i \in 1..Len(r) : r[i] = q[i + 1]
    BY HeadTailProperties, EmptySeq
  <1>2. Head(q) = q[1]
    OBVIOUS
  <1> HIDE DEF r
  <1>3. \A y : y \in Range(r) <=> \E i \in 1..Len(r) : r[i] = y
    BY <1>1, InRange
  <1>4. \A y : y \in Range(q) <=> \E i \in 1..Len(q) : q[i] = y
    BY InRange
  <1>5. Head(q) \in Range(q)
    BY <1>1, <1>2, <1>4
  <1>6. ASSUME Distinct(q)
        PROVE  Distinct(r) /\ Range(r) = Range(q) \ {Head(q)}
    <2>1. \A i \in 1..Len(r) : i + 1 \in 1..Len(q) /\ i + 1 # 1
      BY <1>1
    <2>2. Distinct(r)
      <3> SUFFICES ASSUME NEW i \in 1..Len(r), NEW j \in 1..Len(r), r[i] = r[j]
                   PROVE  i = j
        BY DEF Distinct
      <3>1. i + 1 = j + 1
        BY <1>1, <1>6, <2>1 DEF Distinct
      <3> QED BY <1>1, <3>1
    <2>3. ASSUME NEW y \in Range(r)
          PROVE  y \in Range(q) \ {Head(q)}
      <3>1. PICK i \in 1..Len(r) : r[i] = y
        BY <1>3, <2>3
      <3>2. y = q[i + 1] /\ i + 1 \in 1..Len(q) /\ i + 1 # 1 /\ 1 \in 1..Len(q)
        BY <1>1, <2>1, <3>1
      <3> QED BY <1>2, <1>4, <1>6, <3>2 DEF Distinct
    <2>4. ASSUME NEW y \in Range(q) \ {Head(q)}
          PROVE  y \in Range(r)
      <3>1. PICK i \in 1..Len(q) : q[i] = y
        BY <1>4, <2>4
      <3>2. i # 1
        BY <1>2, <2>4, <3>1
      <3>3. i - 1 \in 1..Len(r) /\ (i - 1) + 1 = i
        BY <1>1, <3>2
      <3>4. r[i - 1] = y
        BY <1>1, <3>1, <3>3
      <3> QED BY <1>3, <3>3, <3>4
    <2> QED BY <2>2, <2>3, <2>4
  <1> QED BY <1>1, <1>2, <1>5, <1>6 DEF r

\* What Taken leaves and takes of the idle slots.
LEMMA TakenRange ==
    ASSUME NEW q \in Seq(Nat), Distinct(q), NEW n \in Nat
    PROVE  LET k == Len(Taken(q, n))
               t == Taken(q, n)
               r == SubSeq(q, k + 1, Len(q))
           IN  /\ t \in Seq(Nat) /\ Distinct(t)
               /\ r \in Seq(Nat) /\ Distinct(r)
               /\ k = IF n < Len(q) THEN n ELSE Len(q)
               /\ k \in Nat /\ Len(r) = Len(q) - k
               /\ Range(t) \cap Range(r) = {}
               /\ Range(t) \cup Range(r) = Range(q)
  <1> DEFINE m == IF n < Len(q) THEN n ELSE Len(q)
             t == Taken(q, n)
             r == SubSeq(q, m + 1, Len(q))
  <1>1. Len(q) \in Nat /\ m \in Nat /\ m <= Len(q) /\ \A i \in 1..Len(q) : q[i] \in Nat
    BY InRange
  <1>2. t = SubSeq(q, 1, m)
    BY DEF Taken
  <1> HIDE DEF m, t
  <1>3. /\ t \in Seq(Nat) /\ Len(t) = m
        /\ \A i \in 1..m : t[i] = q[i]
    <2>1. \A i \in 1..m : q[i] \in Nat
      BY <1>1
    <2>2. /\ t \in Seq(Nat) /\ Len(t) = IF 1 <= m THEN m - 1 + 1 ELSE 0
          /\ \A i \in 1..(m - 1 + 1) : t[i] = q[1 + i - 1]
      BY <1>1, <1>2, <2>1, SubSeqProperties
    <2> QED BY <1>1, <2>2
  <1>4. /\ r \in Seq(Nat) /\ Len(r) = Len(q) - m
        /\ \A i \in 1..(Len(q) - m) : r[i] = q[m + i]
    <2>1. \A i \in (m + 1)..Len(q) : q[i] \in Nat
      BY <1>1
    <2>2. /\ r \in Seq(Nat)
          /\ Len(r) = IF m + 1 <= Len(q) THEN Len(q) - (m + 1) + 1 ELSE 0
          /\ \A i \in 1..(Len(q) - (m + 1) + 1) : r[i] = q[(m + 1) + i - 1]
      BY <1>1, <2>1, SubSeqProperties
    <2> QED BY <1>1, <2>2
  <1> HIDE DEF r
  <1>5. Distinct(t)
    BY <1>1, <1>3, SMTT(30) DEF Distinct
  <1>6. Distinct(r)
    <2> SUFFICES ASSUME NEW i \in 1..Len(r), NEW j \in 1..Len(r), r[i] = r[j]
                 PROVE  i = j
      BY DEF Distinct
    <2>1. m + i \in 1..Len(q) /\ m + j \in 1..Len(q) /\ q[m + i] = q[m + j]
      BY <1>1, <1>4, SMTT(30)
    <2>2. m + i = m + j
      BY <2>1 DEF Distinct
    <2> QED BY <1>1, <1>4, <2>2
  <1>7. /\ \A y : y \in Range(q) <=> \E i \in 1..Len(q) : q[i] = y
        /\ \A y : y \in Range(t) <=> \E i \in 1..m : t[i] = y
        /\ \A y : y \in Range(r) <=> \E i \in 1..(Len(q) - m) : r[i] = y
    BY <1>3, <1>4, InRange, SMTT(30)
  <1>8. Range(t) \cap Range(r) = {}
    <2> SUFFICES ASSUME NEW y \in Range(t), y \in Range(r) PROVE FALSE
      OBVIOUS
    <2>1. PICK i \in 1..m : t[i] = y
      BY <1>7
    <2>2. PICK j \in 1..(Len(q) - m) : r[j] = y
      BY <1>7
    <2>3. i \in 1..Len(q) /\ m + j \in 1..Len(q) /\ i # m + j
      BY <1>1
    <2>4. q[i] = y /\ q[m + j] = y
      BY <1>3, <1>4, <2>1, <2>2
    <2> QED BY <2>3, <2>4 DEF Distinct
  <1>9. ASSUME NEW y
        PROVE  y \in Range(q) <=> y \in Range(t) \/ y \in Range(r)
    <2>1. ASSUME y \in Range(q) PROVE y \in Range(t) \/ y \in Range(r)
      <3>1. PICK i \in 1..Len(q) : q[i] = y
        BY <1>7, <2>1
      <3>2. CASE i <= m
        BY <1>1, <1>3, <1>7, <3>1, <3>2
      <3>3. CASE i > m
        <4>1. i - m \in 1..(Len(q) - m) /\ m + (i - m) = i
          BY <1>1, <3>3
        <4> QED BY <1>4, <1>7, <3>1, <4>1
      <3> QED BY <1>1, <3>2, <3>3
    <2>2. ASSUME y \in Range(t) PROVE y \in Range(q)
      <3>1. PICK i \in 1..m : t[i] = y
        BY <1>7, <2>2
      <3>2. i \in 1..Len(q) /\ q[i] = y
        BY <1>1, <1>3, <3>1
      <3> QED BY <1>7, <3>2
    <2>3. ASSUME y \in Range(r) PROVE y \in Range(q)
      <3>1. PICK i \in 1..(Len(q) - m) : r[i] = y
        BY <1>7, <2>3
      <3>2. m + i \in 1..Len(q) /\ q[m + i] = y
        BY <1>1, <1>4, <3>1
      <3> QED BY <1>7, <3>2
    <2> QED BY <2>1, <2>2, <2>3
  <1> QED BY <1>1, <1>3, <1>4, <1>5, <1>6, <1>8, <1>9 DEF m, t, r

LEMMA SlotsRange ==
    ASSUME NEW p \in Page, NEW q \in Seq(Nat)
    PROVE  /\ Slots(p, q) \in Seq(Page \X Nat) /\ Len(Slots(p, q)) = Len(q)
           /\ Range(Slots(p, q)) = {<<p, i>> : i \in Range(q)}
           /\ Distinct(q) => Distinct(Slots(p, q))
  <1> DEFINE a == Slots(p, q)
  <1>1. Len(q) \in Nat /\ \A i \in 1..Len(q) : q[i] \in Nat
    BY InRange
  <1>2. a = [i \in 1..Len(q) |-> <<p, q[i]>>]
    BY DEF Slots
  <1> HIDE DEF a
  <1>3. a \in Seq(Page \X Nat) /\ Len(a) = Len(q)
    BY <1>1, <1>2
  <1>4. \A i \in 1..Len(q) : a[i] = <<p, q[i]>>
    BY <1>2
  <1>5. /\ \A y : y \in Range(a) <=> \E i \in 1..Len(q) : a[i] = y
        /\ \A y : y \in Range(q) <=> \E i \in 1..Len(q) : q[i] = y
    BY <1>3, InRange
  <1>6. Range(a) = {<<p, i>> : i \in Range(q)}
    <2>1. ASSUME NEW y \in Range(a) PROVE y \in {<<p, i>> : i \in Range(q)}
      <3>1. PICK i \in 1..Len(q) : a[i] = y
        BY <1>5, <2>1
      <3> QED BY <1>4, <1>5, <3>1
    <2>2. ASSUME NEW j \in Range(q) PROVE <<p, j>> \in Range(a)
      <3>1. PICK i \in 1..Len(q) : q[i] = j
        BY <1>5, <2>2
      <3> QED BY <1>4, <1>5, <3>1
    <2> QED BY <2>1, <2>2
  <1>7. Distinct(q) => Distinct(a)
    BY <1>3, <1>4 DEF Distinct
  <1> QED BY <1>3, <1>6, <1>7 DEF a

LEMMA ConcatRange ==
    ASSUME NEW S, NEW q \in Seq(S), NEW r \in Seq(S)
    PROVE  /\ q \o r \in Seq(S) /\ Len(q \o r) = Len(q) + Len(r)
           /\ Range(q \o r) = Range(q) \cup Range(r)
           /\ Distinct(q) /\ Distinct(r) /\ Range(q) \cap Range(r) = {}
              => Distinct(q \o r)
  <1> DEFINE c == q \o r
  <1>1. /\ c \in Seq(S) /\ Len(c) = Len(q) + Len(r)
        /\ \A i \in 1..(Len(q) + Len(r)) :
               c[i] = IF i <= Len(q) THEN q[i] ELSE r[i - Len(q)]
        /\ Len(q) \in Nat /\ Len(r) \in Nat
    BY ConcatProperties, LenProperties
  <1>2. Range(c) = Range(q) \cup Range(r)
    BY RangeConcatenation
  <1>3. /\ \A i \in 1..Len(q) : q[i] \in Range(q)
        /\ \A i \in 1..Len(r) : r[i] \in Range(r)
    BY InRange
  <1> HIDE DEF c
  <1>4. ASSUME Distinct(q), Distinct(r), Range(q) \cap Range(r) = {}
        PROVE  Distinct(c)
    <2> SUFFICES ASSUME NEW i \in 1..Len(c), NEW j \in 1..Len(c), c[i] = c[j]
                 PROVE  i = j
      BY DEF Distinct
    <2>1. /\ i <= Len(q) => i \in 1..Len(q) /\ c[i] = q[i]
          /\ ~(i <= Len(q)) => i - Len(q) \in 1..Len(r) /\ c[i] = r[i - Len(q)]
          /\ j <= Len(q) => j \in 1..Len(q) /\ c[j] = q[j]
          /\ ~(j <= Len(q)) => j - Len(q) \in 1..Len(r) /\ c[j] = r[j - Len(q)]
      BY <1>1
    <2>2. CASE i <= Len(q) /\ j <= Len(q)
      BY <1>4, <2>1, <2>2 DEF Distinct
    <2>3. CASE ~(i <= Len(q)) /\ ~(j <= Len(q))
      <3>1. i - Len(q) = j - Len(q)
        BY <1>4, <2>1, <2>3 DEF Distinct
      <3> QED BY <1>1, <3>1
    <2>4. CASE ~(i <= Len(q) <=> j <= Len(q))
      BY <1>3, <1>4, <2>1, <2>4
    <2> QED BY <2>2, <2>3, <2>4
  <1> QED BY <1>1, <1>2, <1>4 DEF c

-----------------------------------------------------------------------------
(* Lists of pages                                                          *)

LEMMA ListEnds ==
    ASSUME NEW q, NEW first, NEW last, NEW link, IsList(q, first, last, link)
    PROVE  /\ q \in Seq(Page) /\ Len(q) \in Nat /\ Range(q) \subseteq Page
           /\ first = NullPos <=> q = <<>>
           /\ last = NullPos <=> q = <<>>
           /\ first = NullPos <=> Range(q) = {}
           /\ first # NullPos => first \in Range(q) /\ first = Head(q)
           /\ last # NullPos => last \in Range(q) /\ link[last] = NullPos
           /\ \A p \in Range(q) : /\ link[p] \in Range(q) \cup {NullPos}
                                  /\ link[p] = NullPos => p = last
  <1>1. /\ q \in Seq(Page) /\ Len(q) \in Nat /\ Range(q) \subseteq Page
        /\ \A x : x \in Range(q) <=> \E i \in 1..Len(q) : q[i] = x
        /\ \A i \in 1..Len(q) : q[i] \in Page
        /\ Len(q) = 0 <=> q = <<>>
    BY InRange, EmptyRange DEF IsList
  <1>2. NullPos \notin Page
    BY PagesAssumption
  <1>3. CASE q = <<>>
    <2>1. Range(q) = {} /\ first = NullPos /\ last = NullPos
      BY <1>1, <1>3, EmptyRange DEF IsList
    <2> QED BY <1>1, <1>3, <2>1
  <1>4. CASE q # <<>>
    <2>1. Len(q) # 0 /\ 1 \in 1..Len(q) /\ Len(q) \in 1..Len(q)
      BY <1>1, <1>4
    <2>2. first = q[1] /\ last = q[Len(q)] /\ link[last] = NullPos
      BY <2>1 DEF IsList
    <2>3. first \in Range(q) /\ last \in Range(q) /\ Head(q) = q[1]
      BY <1>1, <1>4, <2>1, <2>2
    <2>4. ASSUME NEW p \in Range(q)
          PROVE  /\ link[p] \in Range(q) \cup {NullPos}
                 /\ link[p] = NullPos => p = last
      <3>1. PICK i \in 1..Len(q) : q[i] = p
        BY <1>1, <2>4
      <3>2. CASE i = Len(q)
        BY <2>1, <2>2, <3>1, <3>2 DEF IsList
      <3>3. CASE i # Len(q)
        <4>1. i + 1 \in 1..Len(q) /\ link[p] = q[i + 1]
          BY <1>1, <3>1, <3>3 DEF IsList
        <4> QED BY <1>1, <1>2, <4>1
      <3> QED BY <3>2, <3>3
    <2> QED BY <1>1, <1>2, <1>4, <2>1, <2>2, <2>3, <2>4
  <1> QED BY <1>3, <1>4

LEMMA ListFrame ==
    ASSUME NEW q, NEW first, NEW last, NEW link, NEW other,
           IsList(q, first, last, link), \A p \in Range(q) : other[p] = link[p]
    PROVE  IsList(q, first, last, other)
  <1>1. q \in Seq(Page)
    BY DEF IsList
  <1>2. \A i \in 1..Len(q) : q[i] \in Range(q)
    BY <1>1, InRange
  <1> QED BY <1>2 DEF IsList

\* Page p is linked to the end of a list, which begins at start then.
LinkedAtEnd(q, first, last, link, p, start, other) ==
    /\ IsList(q, first, last, link) /\ p \in Page /\ p \notin Range(q)
    /\ other[p] = NullPos
    /\ last # NullPos => other[last] = p
    /\ \A x \in Range(q) : x # last => other[x] = link[x]
    /\ start = IF last = NullPos THEN p ELSE first

LEMMA ListAppend ==
    ASSUME NEW q, NEW first, NEW last, NEW link, NEW p, NEW start, NEW other,
           LinkedAtEnd(q, first, last, link, p, start, other)
    PROVE  /\ IsList(Append(q, p), start, p, other)
           /\ Range(Append(q, p)) = Range(q) \cup {p}
           /\ Append(q, p) \in Seq(Page) /\ Len(Append(q, p)) = Len(q) + 1
  <1> DEFINE a == Append(q, p)
  <1> USE DEF LinkedAtEnd
  <1>1. /\ q \in Seq(Page) /\ Len(q) \in Nat /\ Distinct(q)
        /\ last = NullPos <=> Len(q) = 0
        /\ last # NullPos => last = q[Len(q)]
        /\ first = IF Len(q) = 0 THEN NullPos ELSE q[1]
        /\ \A i \in 1..Len(q) :
               link[q[i]] = IF i = Len(q) THEN NullPos ELSE q[i + 1]
    BY ListEnds, EmptyRange DEF IsList
  <1>2. /\ a \in Seq(Page) /\ Len(a) = Len(q) + 1
        /\ Range(a) = Range(q) \cup {p} /\ Distinct(a)
    BY <1>1, AppendRange
  <1>3. /\ \A i \in 1..Len(q) : a[i] = q[i]
        /\ a[Len(q) + 1] = p
    BY <1>1, AppendProperties
  <1>4. \A i \in 1..Len(q) : q[i] \in Range(q)
    BY <1>1, InRange
  <1> HIDE DEF a
  <1>5. ASSUME NEW i \in 1..Len(a)
        PROVE  other[a[i]] = IF i = Len(a) THEN NullPos ELSE a[i + 1]
    <2>1. CASE i = Len(a)
      BY <1>2, <1>3, <2>1
    <2>2. CASE i = Len(q) /\ i # Len(a)
      <3>1. i \in 1..Len(q) /\ last # NullPos /\ a[i] = last /\ a[i + 1] = p
        BY <1>1, <1>2, <1>3, <2>2
      <3> QED BY <2>2, <3>1
    <2>3. CASE i # Len(q) /\ i # Len(a)
      <3>1. i \in 1..Len(q) /\ i + 1 \in 1..Len(q) /\ Len(q) \in 1..Len(q)
        BY <1>1, <1>2, <2>3
      <3>2. q[i] # last
        BY <1>1, <2>3, <3>1 DEF Distinct
      <3>3. other[q[i]] = q[i + 1]
        BY <1>1, <1>4, <2>3, <3>1, <3>2
      <3> QED BY <1>3, <2>3, <3>1, <3>3
    <2> QED BY <2>1, <2>2, <2>3
  <1>6. a[1] = start
    <2>1. CASE Len(q) = 0
      BY <1>1, <1>3, <2>1
    <2>2. CASE Len(q) # 0
      <3>1. 1 \in 1..Len(q)
        BY <1>1, <2>2
      <3> QED BY <1>1, <1>3, <2>2, <3>1
    <2> QED BY <2>1, <2>2
  <1>7. Len(a) # 0 /\ a[Len(a)] = p
    BY <1>1, <1>2, <1>3
  <1>8. IsList(a, start, p, other)
    BY <1>2, <1>5, <1>6, <1>7 DEF IsList
  <1> QED BY <1>2, <1>8 DEF a

LEMMA ListTail ==
    ASSUME NEW q, NEW first, NEW last, NEW link,
           IsList(q, first, last, link), first # NullPos
    PROVE  /\ IsList(Tail(q), link[first],
                     IF link[first] = NullPos THEN NullPos ELSE last, link)
           /\ Range(Tail(q)) = Range(q) \ {first}
           /\ Tail(q) \in Seq(Page) /\ Len(Tail(q)) = Len(q) - 1
  <1> DEFINE r == Tail(q)
  <1>1. /\ q \in Seq(Page) /\ Distinct(q) /\ q # <<>> /\ first = Head(q)
        /\ last = q[Len(q)]
        /\ \A i \in 1..Len(q) :
               /\ link[q[i]] = IF i = Len(q) THEN NullPos ELSE q[i + 1]
               /\ q[i] \in Page
    BY ListEnds, EmptyRange, InRange DEF IsList
  <1>2. /\ r \in Seq(Page) /\ Len(r) = Len(q) - 1 /\ Len(q) \in Nat \ {0}
        /\ Head(q) = q[1] /\ Distinct(r) /\ Range(r) = Range(q) \ {Head(q)}
        /\ \A i \in 1..Len(r) : r[i] = q[i + 1]
    BY <1>1, TailRange
  <1>3. NullPos \notin Page
    BY PagesAssumption
  <1> HIDE DEF r
  <1>4. link[first] = IF Len(r) = 0 THEN NullPos ELSE r[1]
    BY <1>1, <1>2
  <1>5. link[first] = NullPos <=> Len(r) = 0
    BY <1>1, <1>2, <1>3, <1>4
  <1>6. Len(r) # 0 => last = r[Len(r)]
    BY <1>1, <1>2
  <1>7. ASSUME NEW i \in 1..Len(r)
        PROVE  link[r[i]] = IF i = Len(r) THEN NullPos ELSE r[i + 1]
    <2>1. /\ i + 1 \in 1..Len(q) /\ r[i] = q[i + 1]
          /\ i = Len(r) <=> i + 1 = Len(q)
          /\ i # Len(r) => i + 1 \in 1..Len(r)
      BY <1>2
    <2> QED BY <1>1, <1>2, <2>1
  <1>8. IsList(r, link[first], IF link[first] = NullPos THEN NullPos ELSE last, link)
    BY <1>2, <1>4, <1>5, <1>6, <1>7 DEF IsList
  <1> QED BY <1>1, <1>2, <1>8 DEF r

\* Following the links finds the pages of the list.
LEMMA ListChain ==
    ASSUME NEW q, NEW first, NEW last, NEW link, IsList(q, first, last, link)
    PROVE  Chain(first, link) = Range(q)
  <1>1. Range(q) \in SUBSET Page /\ first \in Range(q) \cup {NullPos}
        /\ \A p \in Range(q) : link[p] \in Range(q) \cup {NullPos}
    BY ListEnds
  <1>2. Chain(first, link) \subseteq Range(q)
    BY <1>1 DEF Chain
  <1>3. ASSUME NEW S \in SUBSET Page, first \in S \cup {NullPos},
               \A p \in S : link[p] \in S \cup {NullPos}
        PROVE  Range(q) \subseteq S
    <2>1. /\ q \in Seq(Page) /\ Len(q) \in Nat
          /\ \A x : x \in Range(q) <=> \E i \in 1..Len(q) : q[i] = x
          /\ \A i \in 1..Len(q) : q[i] \in Page
      BY InRange DEF IsList
    <2>2. NullPos \notin Page
      BY PagesAssumption
    <2> DEFINE Missed == {i \in 1..Len(q) : q[i] \notin S}
    <2> SUFFICES ASSUME Missed # {} PROVE FALSE
      BY <2>1
    <2>3. Missed \subseteq Nat
      BY <2>1
    <2>4. PICK i \in Missed : \A j \in Missed : ~(j < i)
      <3> DEFINE less == {ss \in Nat \X Nat : ss[1] < ss[2]}
      <3>1. IsWellFoundedOn(less, Nat)
        BY NatLessThanWellFounded, Zenon DEF OpToRel
      <3> HIDE DEF Missed, less
      <3>2. \E i \in Missed : \A j \in Missed : ~(<<j, i>> \in less)
        BY <2>3, <3>1, WFMin
      <3> USE DEF less
      <3> QED BY <2>3, <3>2
    <2>5. CASE i = 1
      BY <1>3, <2>1, <2>2, <2>5 DEF IsList
    <2>6. CASE i # 1
      <3>1. i - 1 \in 1..Len(q) /\ i - 1 # Len(q) /\ (i - 1) + 1 = i /\ i - 1 < i
        BY <2>1, <2>6
      <3>2. q[i - 1] \in S
        BY <2>4, <3>1
      <3>3. link[q[i - 1]] = q[i]
        BY <3>1 DEF IsList
      <3> QED BY <1>3, <2>1, <2>2, <3>2, <3>3
    <2> QED BY <2>5, <2>6
  <1> QED BY <1>1, <1>2, <1>3 DEF Chain

-----------------------------------------------------------------------------
(* What a step leaves alone                                                *)

LEMMA Places ==
    /\ \A s \in Spaces : <<"idle", s>> \in Place
    /\ \A d \in Descs : <<"list", d>> \in Place /\ <<"new", d>> \in Place
    /\ \A s, d : <<"idle", s>> # <<"list", d>> /\ <<"idle", s>> # <<"new", d>>
    /\ \A d, e : <<"list", d>> # <<"new", e>>
    /\ \A d, e : d # e => /\ <<"list", d>> # <<"list", e>>
                          /\ <<"new", d>> # <<"new", e>>
                          /\ <<"idle", d>> # <<"idle", e>>
  BY DEF Place

\* A space whose idle pages keep their places and links.
SpaceSame(s, pl, pg, pl2, pg2) ==
    \A p \in Page : /\ pl[p] = <<"idle", s>> <=> pl2[p] = <<"idle", s>>
                    /\ pl[p] = <<"idle", s>> => pg2[p].next = pg[p].next

LEMMA SpaceKept ==
    ASSUME NEW s, NEW pl, NEW pg, NEW pl2, NEW pg2, NEW sp,
           IdleInv(pl, pg, s, sp), SpaceSame(s, pl, pg, pl2, pg2)
    PROVE  IdleInv(pl2, pg2, s, sp)
  <1>1. PICK q \in Seq(Page) :
            /\ IsList(q, sp.first, sp.last, NextIn(pg))
            /\ Range(q) = PagesAt(pl, <<"idle", s>>)
            /\ Len(q) = sp.idleNum
    BY DEF IdleInv
  <1>2. PagesAt(pl2, <<"idle", s>>) = PagesAt(pl, <<"idle", s>>)
    BY DEF PagesAt, SpaceSame
  <1>3. \A p \in Range(q) : NextIn(pg2)[p] = NextIn(pg)[p]
    BY <1>1 DEF NextIn, PagesAt, SpaceSame
  <1>4. IsList(q, sp.first, sp.last, NextIn(pg2))
    BY <1>1, <1>3, ListFrame
  <1> QED BY <1>1, <1>2, <1>4 DEF IdleInv

\* The parts of a descriptor's state that a step may leave alone: its list,
ListSame(d, pl, pg, r, pl2, pg2, r2) ==
    /\ \A p \in Page : /\ pl[p] = <<"list", d>> <=> pl2[p] = <<"list", d>>
                       /\ pl[p] = <<"list", d>> => pg2[p].next = pg[p].next
    /\ r2.pc = "truncate" <=> r.pc = "truncate"
    /\ r2.walk = r.walk
    /\ r2.desc.first = r.desc.first /\ r2.desc.last = r.desc.last

LEMMA ListKept ==
    ASSUME NEW d, NEW pl, NEW pg, NEW r, NEW pl2, NEW pg2, NEW r2,
           ListInv(pl, pg, d, r), ListSame(d, pl, pg, r, pl2, pg2, r2)
    PROVE  ListInv(pl2, pg2, d, r2)
  <1>1. PICK q \in Seq(Page), last \in Link :
            /\ IsList(q, IF r.pc = "truncate" THEN r.walk ELSE r.desc.first,
                      last, NextIn(pg))
            /\ r.pc # "truncate" => last = r.desc.last
            /\ Range(q) = PagesAt(pl, <<"list", d>>)
    BY DEF ListInv
  <1>2. \A p \in Range(q) : NextIn(pg2)[p] = NextIn(pg)[p]
    BY <1>1 DEF NextIn, PagesAt, ListSame
  <1>3. IsList(q, IF r.pc = "truncate" THEN r.walk ELSE r.desc.first,
               last, NextIn(pg2))
    BY <1>1, <1>2, ListFrame
  <1>4. PagesAt(pl2, <<"list", d>>) = PagesAt(pl, <<"list", d>>)
    BY DEF PagesAt, ListSame
  <1>5. IsList(q, IF r2.pc = "truncate" THEN r2.walk ELSE r2.desc.first,
               last, NextIn(pg2))
    BY <1>3 DEF ListSame
  <1> QED BY <1>1, <1>4, <1>5 DEF ListInv, ListSame

\* its not-full queue,
QueueSame(d, pl, pg, r, pl2, pg2, r2) ==
    /\ \A p \in Page :
           /\ pl[p] = <<"list", d>> <=> pl2[p] = <<"list", d>>
           /\ pl[p] = <<"list", d>> =>
                  /\ pg2[p].nextNotFull = pg[p].nextNotFull
                  /\ pg2[p].idleNum > 0 <=> pg[p].idleNum > 0
    /\ r2.pc = "truncate" <=> r.pc = "truncate"
    /\ r2.desc.firstNotFull = r.desc.firstNotFull
    /\ r2.desc.lastNotFull = r.desc.lastNotFull

LEMMA QueueKept ==
    ASSUME NEW d, NEW pl, NEW pg, NEW r, NEW pl2, NEW pg2, NEW r2,
           QueueInv(pl, pg, d, r), QueueSame(d, pl, pg, r, pl2, pg2, r2)
    PROVE  QueueInv(pl2, pg2, d, r2)
  <1> SUFFICES ASSUME r.pc # "truncate" PROVE QueueInv(pl2, pg2, d, r2)
    BY DEF QueueInv, QueueSame
  <1>1. PICK q \in Seq(Page) :
            /\ IsList(q, r.desc.firstNotFull, r.desc.lastNotFull, NextNotFullIn(pg))
            /\ Range(q) = {p \in PagesAt(pl, <<"list", d>>) : pg[p].idleNum > 0}
    BY DEF QueueInv
  <1>2. \A p \in Range(q) : NextNotFullIn(pg2)[p] = NextNotFullIn(pg)[p]
    BY <1>1 DEF NextNotFullIn, PagesAt, QueueSame
  <1>3. IsList(q, r.desc.firstNotFull, r.desc.lastNotFull, NextNotFullIn(pg2))
    BY <1>1, <1>2, ListFrame
  <1>4. Range(q) = {p \in PagesAt(pl2, <<"list", d>>) : pg2[p].idleNum > 0}
    BY <1>1 DEF PagesAt, QueueSame
  <1>5. \A p \in PagesAt(pl2, <<"list", d>>) :
            pg2[p].idleNum > 0 \/ pg2[p].nextNotFull = NullPos
    BY DEF QueueInv, PagesAt, QueueSame
  <1> QED BY <1>3, <1>4, <1>5 DEF QueueInv, QueueSame

\* and everything.
DescSame(d, pl, pg, pl2, pg2) ==
    \A p \in Page : /\ pl[p] = <<"list", d>> <=> pl2[p] = <<"list", d>>
                    /\ pl[p] = <<"new", d>> <=> pl2[p] = <<"new", d>>
                    /\ pl[p] \in {<<"list", d>>, <<"new", d>>} => pg2[p] = pg[p]

LEMMA DescKept ==
    ASSUME NEW d, NEW pl, NEW pg, NEW r, NEW pl2, NEW pg2,
           DescInv(pl, pg, d, r), DescSame(d, pl, pg, pl2, pg2)
    PROVE  DescInv(pl2, pg2, d, r)
  <1>1. /\ PagesAt(pl2, <<"list", d>>) = PagesAt(pl, <<"list", d>>)
        /\ PagesAt(pl2, <<"new", d>>) = PagesAt(pl, <<"new", d>>)
    BY DEF PagesAt, DescSame
  <1>2. ListInv(pl2, pg2, d, r)
    <2>1. ListSame(d, pl, pg, r, pl2, pg2, r)
      BY DEF ListSame, DescSame
    <2> QED BY <2>1, ListKept DEF DescInv
  <1>3. QueueInv(pl2, pg2, d, r)
    <2>1. QueueSame(d, pl, pg, r, pl2, pg2, r)
      BY DEF QueueSame, DescSame
    <2> QED BY <2>1, QueueKept DEF DescInv
  <1>4. NewInv(pl2, d, r)
    BY <1>1 DEF DescInv, NewInv
  <1>5. GivenInv(pl2, d, r)
    BY <1>1 DEF DescInv, GivenInv, SlotsAt
  <1>6. SlotInv(pl2, pg2, d, r)
    BY DEF DescInv, SlotInv, Live, DescSame
  <1> QED BY <1>2, <1>3, <1>4, <1>5, <1>6 DEF DescInv

-----------------------------------------------------------------------------
(* Pages of a space                                                        *)

LEMMA SpaceOfPage ==
    ASSUME NEW p \in Page
    PROVE  /\ SpaceOf(p) \in Spaces /\ p \in Range(PageList[SpaceOf(p)])
           /\ \A s \in Spaces : p \in Range(PageList[s]) => s = SpaceOf(p)
  <1>1. \E s \in Spaces : p \in Range(PageList[s])
    BY DEF Page
  <1>2. SpaceOf(p) \in Spaces /\ p \in Range(PageList[SpaceOf(p)])
    BY <1>1 DEF SpaceOf
  <1> QED BY <1>2, PagesAssumption

\* A page that is not idle is freed: it is the last idle one of its space.
LEMMA PageFreed ==
    ASSUME Shape, NEW pl \in [Page -> Place], NEW p \in Page,
           NEW s \in Spaces, p \in Range(PageList[s]),
           \A t \in Spaces : IdleInv(pl, page, t, space[t]),
           \A t \in Spaces : pl[p] # <<"idle", t>>,
           freePage(s, p),
           NEW pl2, pl2 = [pl EXCEPT ![p] = <<"idle", s>>]
    PROVE  /\ pl2 \in [Page -> Place]
           /\ \A t \in Spaces : IdleInv(pl2, page', t, space'[t])
           /\ \A x \in Page : x # p /\ pl[x] # <<"idle", s>> => page'[x] = page[x]
           /\ space' \in [Spaces -> SpaceHeader]
           /\ page' \in [Page -> PageHeader]
           /\ \A x \in Page : page'[x].idleNum = Len(page'[x].idle)
  <1>1. /\ space \in [Spaces -> SpaceHeader]
        /\ page \in [Page -> PageHeader]
        /\ \A x \in Page : page[x].idleNum = Len(page[x].idle)
    BY DEF Shape
  <1>2. PICK q \in Seq(Page) :
            /\ IsList(q, space[s].first, space[s].last, NextIn(page))
            /\ Range(q) = PagesAt(pl, <<"idle", s>>)
            /\ Len(q) = space[s].idleNum
    BY DEF IdleInv
  <1>3. /\ p \notin Range(q) /\ Range(q) \subseteq Page
        /\ space[s].last # NullPos => space[s].last \in Range(q)
    BY <1>2, ListEnds DEF PagesAt
  <1>4. NullPos \notin Page
    BY PagesAssumption
  <1>5. space' = [space EXCEPT ![s] =
                    [first |-> IF space[s].last = NullPos THEN p
                               ELSE space[s].first,
                     last |-> p, idleNum |-> space[s].idleNum + 1]]
    BY DEF freePage
  <1>6. \A x \in Page :
            page'[x] = IF x = p THEN Unused(page[p])
                       ELSE IF x = space[s].last
                       THEN [page[x] EXCEPT !.next = p] ELSE page[x]
    BY <1>1, <1>3, <1>4 DEF freePage
  <1>7. ASSUME NEW x \in Page
        PROVE  page'[x] \in PageHeader /\ page'[x].idleNum = Len(page'[x].idle)
    <2>1. <<>> \in Seq(Nat) /\ Len(<<>>) = 0
      BY EmptyRange
    <2>2. page[x] \in PageHeader /\ page[x].idleNum = Len(page[x].idle)
      BY <1>1
    <2>3. CASE x = p
      <3>1. page'[x] = [next |-> NullPos, nextNotFull |-> page[p].nextNotFull,
                        idleNum |-> 0, idle |-> <<>>]
        BY <1>6, <2>2, <2>3 DEF PageHeader, Unused
      <3> QED BY <2>1, <2>2, <2>3, <3>1 DEF PageHeader, Link
    <2>4. CASE x # p /\ x = space[s].last
      BY <1>6, <2>2, <2>4 DEF PageHeader, Link
    <2>5. CASE x # p /\ x # space[s].last
      BY <1>6, <2>2, <2>5
    <2> QED BY <2>3, <2>4, <2>5
  <1>8. page' \in [Page -> PageHeader]
    <2>1. page' = [x \in Page |-> page'[x]]
      BY <1>1 DEF freePage
    <2> QED BY <1>7, <2>1
  <1>9. \A x \in Page : x # p /\ pl[x] # <<"idle", s>> => page'[x] = page[x]
    BY <1>2, <1>3, <1>4, <1>6 DEF PagesAt
  <1>10. space' \in [Spaces -> SpaceHeader]
    BY <1>1, <1>5 DEF Link, SpaceHeader
  <1>11. pl2 \in [Page -> Place]
    BY Places
  <1>12. IdleInv(pl2, page', s, space'[s])
    <2>1. /\ NextIn(page')[p] = NullPos
          /\ space[s].last # NullPos => NextIn(page')[space[s].last] = p
          /\ \A x \in Range(q) :
                 x # space[s].last => NextIn(page')[x] = NextIn(page)[x]
      BY <1>1, <1>3, <1>6, ZenonT(30) DEF NextIn, Unused, PageHeader
    <2>2. /\ space'[s].first = IF space[s].last = NullPos THEN p ELSE space[s].first
          /\ space'[s].last = p /\ space'[s].idleNum = Len(q) + 1
      BY <1>1, <1>2, <1>5 DEF SpaceHeader
    <2>3. /\ IsList(Append(q, p), space'[s].first, p, NextIn(page'))
          /\ Range(Append(q, p)) = Range(q) \cup {p}
          /\ Append(q, p) \in Seq(Page) /\ Len(Append(q, p)) = Len(q) + 1
      <3>1. LinkedAtEnd(q, space[s].first, space[s].last, NextIn(page),
                        p, space'[s].first, NextIn(page'))
        BY <1>2, <1>3, <2>1, <2>2 DEF LinkedAtEnd
      <3> QED BY <3>1, ListAppend
    <2>4. PagesAt(pl2, <<"idle", s>>) = PagesAt(pl, <<"idle", s>>) \cup {p}
      BY DEF PagesAt
    <2>5. PagesAt(pl2, <<"idle", s>>) \subseteq Range(PageList[s])
      BY <2>4 DEF IdleInv
    <2> QED BY <1>2, <2>2, <2>3, <2>4, <2>5 DEF IdleInv
  <1>13. ASSUME NEW t \in Spaces, t # s PROVE IdleInv(pl2, page', t, space'[t])
    <2>1. space'[t] = space[t]
      BY <1>1, <1>5, <1>13
    <2>2. SpaceSame(t, pl, page, pl2, page')
      BY <1>9, <1>13, Places DEF SpaceSame
    <2> QED BY <2>1, <2>2, SpaceKept
  <1> QED BY <1>7, <1>8, <1>9, <1>10, <1>11, <1>12, <1>13

-----------------------------------------------------------------------------
(* The not-full queue                                                      *)

\* A page that is not in the queue and has no link joins it.
CanJoin(d, p, q, pg, ds) ==
    /\ pg \in [Page -> PageHeader] /\ ds \in [Descs -> DescHeader]
    /\ IsList(q, ds[d].firstNotFull, ds[d].lastNotFull, NextNotFullIn(pg))
    /\ d \in Descs /\ p \in Page /\ p \notin Range(q)
    /\ pg[p].nextNotFull = NullPos
Joined(d, p, q, pg, ds, pg2, ds2) ==
    /\ \E q2 \in Seq(Page) :
           /\ IsList(q2, ds2[d].firstNotFull, ds2[d].lastNotFull,
                     NextNotFullIn(pg2))
           /\ Range(q2) = Range(q) \cup {p}
    /\ pg2 \in [Page -> PageHeader] /\ ds2 \in [Descs -> DescHeader]
    /\ \A x \in Page : /\ pg2[x].next = pg[x].next
                       /\ pg2[x].idle = pg[x].idle
                       /\ pg2[x].idleNum = pg[x].idleNum
                       /\ x \notin Range(q) => pg2[x] = pg[x]
    /\ ds2[d].first = ds[d].first /\ ds2[d].last = ds[d].last
    /\ \A e \in Descs : e # d => ds2[e] = ds[e]

LEMMA Enqueued ==
    ASSUME NEW d, NEW p, NEW q, NEW pg, NEW ds, CanJoin(d, p, q, pg, ds),
           NEW m, m = Enqueue([page |-> pg, desc |-> ds], d, p)
    PROVE  Joined(d, p, q, pg, ds, m.page, m.desc)
  <1> DEFINE last == ds[d].lastNotFull
  <1> USE DEF CanJoin
  <1>1. /\ Range(q) \subseteq Page /\ NullPos \notin Page
        /\ last # NullPos => last \in Range(q)
        /\ last # p
    BY ListEnds, PagesAssumption
  <1>2. ds[d] \in DescHeader
    OBVIOUS
  <1>3. /\ m.page = IF last = NullPos THEN pg
                    ELSE [pg EXCEPT ![last].nextNotFull = p]
        /\ m.desc = [ds EXCEPT ![d].lastNotFull = p,
                        ![d].firstNotFull = IF last = NullPos THEN p ELSE @]
    BY DEF Enqueue
  <1>4. m.desc[d] = [first |-> ds[d].first, last |-> ds[d].last,
                     firstNotFull |-> IF last = NullPos THEN p
                                      ELSE ds[d].firstNotFull,
                     lastNotFull |-> p]
    BY <1>2, <1>3 DEF DescHeader
  <1>5. \A e \in Descs : e # d => m.desc[e] = ds[e]
    BY <1>3
  <1>6. m.desc \in [Descs -> DescHeader]
    <2>1. m.desc[d] \in DescHeader
      BY <1>2, <1>4 DEF DescHeader, Link
    <2>2. m.desc = [e \in Descs |-> m.desc[e]]
      BY <1>3
    <2> QED BY <1>5, <2>1, <2>2
  <1>7. \A x \in Page : m.page[x] = IF x = last THEN [pg[x] EXCEPT !.nextNotFull = p]
                                    ELSE pg[x]
    BY <1>1, <1>3, ZenonT(30)
  <1>8. ASSUME NEW x \in Page
        PROVE  /\ m.page[x] \in PageHeader
               /\ m.page[x].next = pg[x].next /\ m.page[x].idle = pg[x].idle
               /\ m.page[x].idleNum = pg[x].idleNum
               /\ m.page[x].nextNotFull = IF x = last THEN p
                                          ELSE pg[x].nextNotFull
               /\ x \notin Range(q) => m.page[x] = pg[x]
    <2>1. pg[x] \in PageHeader
      OBVIOUS
    <2>2. CASE x = last
      BY <1>1, <1>7, <2>1, <2>2, ZenonT(30) DEF PageHeader, Link
    <2>3. CASE x # last
      BY <1>7, <2>1, <2>3 DEF PageHeader
    <2> QED BY <2>2, <2>3
  <1>9. m.page \in [Page -> PageHeader]
    <2>1. m.page = [x \in Page |-> m.page[x]]
      BY <1>3
    <2> QED BY <1>8, <2>1
  <1>10. LinkedAtEnd(q, ds[d].firstNotFull, last, NextNotFullIn(pg), p,
                     m.desc[d].firstNotFull, NextNotFullIn(m.page))
    <2>1. \A x \in Page : NextNotFullIn(m.page)[x] = IF x = last THEN p
                                                    ELSE NextNotFullIn(pg)[x]
      BY <1>8 DEF NextNotFullIn
    <2>2. NextNotFullIn(pg)[p] = NullPos
      BY DEF NextNotFullIn
    <2> QED BY <1>1, <1>4, <2>1, <2>2 DEF LinkedAtEnd
  <1>11. /\ IsList(Append(q, p), m.desc[d].firstNotFull, p, NextNotFullIn(m.page))
         /\ Append(q, p) \in Seq(Page) /\ Range(Append(q, p)) = Range(q) \cup {p}
    BY <1>10, ListAppend
  <1>12. \E q2 \in Seq(Page) :
             /\ IsList(q2, m.desc[d].firstNotFull, m.desc[d].lastNotFull,
                       NextNotFullIn(m.page))
             /\ Range(q2) = Range(q) \cup {p}
    <2>1. m.desc[d].lastNotFull = p
      BY <1>4
    <2> QED BY <1>11, <2>1
  <1> QED BY <1>4, <1>5, <1>6, <1>8, <1>9, <1>12 DEF Joined

-----------------------------------------------------------------------------
(* Steps                                                                   *)

RequestAfter(d) ==
    [desc |-> desc'[d], used |-> used'[d], pc |-> pc'[d], need |-> need'[d],
     old |-> old'[d], new |-> new'[d], newPages |-> newPages'[d],
     walk |-> walk'[d]]

\* A step of the request on d, from the places pl to the places pl2.
LEMMA StepOf ==
    ASSUME NEW d \in Descs, NEW pl, NEW pl2 \in [Page -> Place],
           PlacesInv(pl), Shape',
           \A s \in Spaces : IdleInv(pl2, page', s, space'[s]),
           DescInv(pl2, page', d, RequestAfter(d)),
           \A e \in Descs : e # d => /\ RequestAfter(e) = Request(e)
                                     /\ DescSame(e, pl, page, pl2, page')
    PROVE  IInv'
  <1>1. ASSUME NEW e \in Descs PROVE DescInv(pl2, page', e, RequestAfter(e))
    <2>1. CASE e = d
      BY <2>1
    <2>2. CASE e # d
      <3>1. DescInv(pl, page, e, Request(e))
        BY DEF PlacesInv
      <3>2. DescSame(e, pl, page, pl2, page')
        BY <2>2
      <3>3. DescInv(pl2, page', e, Request(e))
        BY <3>1, <3>2, DescKept
      <3> QED BY <2>2, <3>3
    <2> QED BY <2>1, <2>2
  <1>2. \A e \in Descs : DescInv(pl2, page', e, Request(e)')
    BY <1>1 DEF Request, RequestAfter
  <1>3. PlacesInv(pl2)'
    BY <1>2 DEF PlacesInv
  <1> QED BY <1>3 DEF IInv

\* A slot of a page of the list is freed.
LEMMA SlotFreed ==
    ASSUME Shape, NEW pl \in [Page -> Place], NEW d \in Descs,
           DescInv(pl, page, d, Request(d)), pc[d] # "truncate",
           NEW p \in Page, NEW i \in Nat, pl[p] = <<"list", d>>,
           NEW m, m = Freed([page |-> page, desc |-> desc], d, <<p, i>>),
           page' = m.page, desc' = m.desc
    PROVE  /\ page' \in [Page -> PageHeader] /\ desc' \in [Descs -> DescHeader]
           /\ \A x \in Page : /\ page'[x].idleNum = Len(page'[x].idle)
                              /\ page'[x].next = page[x].next
                              /\ x # p => page'[x].idle = page[x].idle
                              /\ pl[x] # <<"list", d>> => page'[x] = page[x]
           /\ page'[p].idle = Append(page[p].idle, i)
           /\ desc'[d].first = desc[d].first /\ desc'[d].last = desc[d].last
           /\ \A e \in Descs : e # d => desc'[e] = desc[e]
           /\ \A r : r.desc = desc'[d] => QueueInv(pl, page', d, r)
  <1>1. /\ page \in [Page -> PageHeader] /\ desc \in [Descs -> DescHeader]
        /\ \A x \in Page : page[x].idleNum = Len(page[x].idle)
    BY DEF Shape
  <1>2. PICK q \in Seq(Page) :
            /\ IsList(q, desc[d].firstNotFull, desc[d].lastNotFull,
                      NextNotFullIn(page))
            /\ Range(q) = {x \in PagesAt(pl, <<"list", d>>) : page[x].idleNum > 0}
    BY DEF DescInv, QueueInv, Request
  <1>3. \A x \in PagesAt(pl, <<"list", d>>) :
            page[x].idleNum > 0 \/ page[x].nextNotFull = NullPos
    BY DEF DescInv, QueueInv, Request
  <1>4. p \in PagesAt(pl, <<"list", d>>)
    BY DEF PagesAt
  <1> DEFINE pg == [page EXCEPT ![p] = freeNode(@, i)]
  <1>5. m = IF page[p].idleNum > 0 THEN [page |-> pg, desc |-> desc]
            ELSE Enqueue([page |-> pg, desc |-> desc], d, p)
    <2>1. [[page |-> page, desc |-> desc] EXCEPT !.page[p] = freeNode(@, i)]
          = [page |-> pg, desc |-> desc]
      OBVIOUS
    <2> QED BY <2>1 DEF Freed
  <1>6. PICK grown \in Seq(Nat) : /\ grown = Append(page[p].idle, i)
                                  /\ Len(grown) = page[p].idleNum + 1
    <2>1. page[p].idle \in Seq(Nat)
      BY <1>1 DEF PageHeader
    <2>2. /\ Append(page[p].idle, i) \in Seq(Nat)
          /\ Len(Append(page[p].idle, i)) = page[p].idleNum + 1
      BY <1>1, <2>1, AppendRange
    <2> QED BY <2>2
  <1>7. /\ pg[p] \in PageHeader /\ pg[p].next = page[p].next
        /\ pg[p].nextNotFull = page[p].nextNotFull
        /\ pg[p].idleNum = page[p].idleNum + 1 /\ pg[p].idle = grown
        /\ \A x \in Page : x # p => pg[x] = page[x]
    <2>1. page[p].idleNum + 1 \in Nat /\ page[p] \in PageHeader
      BY <1>1 DEF PageHeader
    <2>2. pg[p] = [page[p] EXCEPT !.idle = grown, !.idleNum = page[p].idleNum + 1]
      BY <1>1, <1>6, <2>1 DEF freeNode
    <2> QED BY <1>1, <2>1, <2>2 DEF PageHeader
  <1>8. pg \in [Page -> PageHeader]
    <2>1. pg = [x \in Page |-> pg[x]]
      BY <1>1
    <2> HIDE DEF pg
    <2> QED BY <1>1, <1>7, <2>1
  <1> HIDE DEF pg
  <1>9. IsList(q, desc[d].firstNotFull, desc[d].lastNotFull, NextNotFullIn(pg))
    <2>1. \A x \in Page : NextNotFullIn(pg)[x] = NextNotFullIn(page)[x]
      BY <1>7 DEF NextNotFullIn
    <2> QED BY <1>2, <2>1, ListFrame, ListEnds
  <1>10. page[p].idleNum \in Nat
    BY <1>1 DEF PageHeader
  <1>11. CASE page[p].idleNum > 0
    <2>1. page' = pg /\ desc' = desc
      BY <1>5, <1>11
    <2>2. Range(q) = {x \in PagesAt(pl, <<"list", d>>) : page'[x].idleNum > 0}
      BY <1>2, <1>7, <1>10, <1>11, <2>1 DEF PagesAt
    <2>3. \A x \in PagesAt(pl, <<"list", d>>) :
              page'[x].idleNum > 0 \/ page'[x].nextNotFull = NullPos
      <3> TAKE x \in PagesAt(pl, <<"list", d>>)
      <3>1. CASE x = p
        BY <1>7, <1>10, <2>1, <3>1
      <3>2. CASE x # p
        BY <1>3, <1>7, <2>1, <3>2 DEF PagesAt
      <3> QED BY <3>1, <3>2
    <2>4. \A r : r.desc = desc'[d] => QueueInv(pl, page', d, r)
      BY <1>9, <2>1, <2>2, <2>3 DEF QueueInv
    <2>5. ASSUME NEW x \in Page
          PROVE  /\ page'[x].idleNum = Len(page'[x].idle)
                 /\ page'[x].next = page[x].next
                 /\ x # p => page'[x].idle = page[x].idle
                 /\ pl[x] # <<"list", d>> => page'[x] = page[x]
      <3>1. CASE x = p
        BY <1>6, <1>7, <2>1, <3>1
      <3>2. CASE x # p
        BY <1>1, <1>7, <2>1, <3>2
      <3> QED BY <3>1, <3>2
    <2>6. page'[p].idle = grown
      BY <1>7, <2>1
    <2> QED BY <1>1, <1>6, <1>8, <2>1, <2>4, <2>5, <2>6
  <1>12. CASE ~(page[p].idleNum > 0)
    <2>1. m = Enqueue([page |-> pg, desc |-> desc], d, p)
      BY <1>5, <1>12
    <2>2. p \notin Range(q) /\ pg[p].nextNotFull = NullPos
      BY <1>2, <1>3, <1>4, <1>7, <1>12
    <2>3. Joined(d, p, q, pg, desc, page', desc')
      <3>1. CanJoin(d, p, q, pg, desc)
        BY <1>1, <1>8, <1>9, <2>2 DEF CanJoin
      <3> QED BY <2>1, <3>1, Enqueued
    <2> USE DEF Joined
    <2>4. PICK q2 \in Seq(Page) :
              /\ IsList(q2, desc'[d].firstNotFull, desc'[d].lastNotFull,
                        NextNotFullIn(page'))
              /\ Range(q2) = Range(q) \cup {p}
      BY <2>3
    <2>5. page'[p].idleNum > 0
      <3>1. page'[p].idleNum = page[p].idleNum + 1
        BY <1>7, <2>3
      <3> QED BY <1>10, <3>1, SMTT(30)
    <2>6. ASSUME NEW x \in PagesAt(pl, <<"list", d>>)
          PROVE  /\ x \in Range(q2) <=> page'[x].idleNum > 0
                 /\ page'[x].idleNum > 0 \/ page'[x].nextNotFull = NullPos
      <3>1. CASE x = p
        BY <2>4, <2>5, <3>1
      <3>2. CASE x # p /\ x \in Range(q)
        <4>1. x \in Page /\ page[x].idleNum > 0 /\ pg[x] = page[x]
          BY <1>2, <1>7, <3>2 DEF PagesAt
        <4> QED BY <2>3, <2>4, <3>2, <4>1
      <3>3. CASE x # p /\ x \notin Range(q)
        <4>1. x \in Page /\ ~(page[x].idleNum > 0) /\ pg[x] = page[x]
          BY <1>2, <1>7, <3>3 DEF PagesAt
        <4> QED BY <1>3, <2>3, <2>4, <3>3, <4>1, ZenonT(30)
      <3> QED BY <3>1, <3>2, <3>3
    <2> Range(q2) = {x \in PagesAt(pl, <<"list", d>>) : page'[x].idleNum > 0}
      BY <1>2, <1>4, <2>4, <2>6
    <2>7. \A r : r.desc = desc'[d] => QueueInv(pl, page', d, r)
      BY <2>4, <2>6 DEF QueueInv
    <2>8. ASSUME NEW x \in Page
          PROVE  /\ page'[x].idleNum = Len(page'[x].idle)
                 /\ page'[x].next = page[x].next
                 /\ x # p => page'[x].idle = page[x].idle
                 /\ pl[x] # <<"list", d>> => page'[x] = page[x]
      <3>1. /\ page'[x].next = pg[x].next /\ page'[x].idle = pg[x].idle
            /\ page'[x].idleNum = pg[x].idleNum
            /\ x \notin Range(q) => page'[x] = pg[x]
        BY <2>3
      <3>2. CASE x = p
        BY <1>6, <1>7, <3>1, <3>2
      <3>3. CASE x # p
        BY <1>1, <1>2, <1>7, <3>1, <3>3 DEF PagesAt
      <3> QED BY <3>2, <3>3
    <2>9. page'[p].idle = grown
      BY <1>7, <2>3
    <2> QED BY <1>6, <2>3, <2>7, <2>8, <2>9
  <1> QED BY <1>11, <1>12

\* A step that leaves pages and spaces alone.
LEMMA QuietStepOf ==
    ASSUME NEW d \in Descs, NEW pl \in [Page -> Place], PlacesInv(pl), Shape',
           UNCHANGED <<space, page>>, DescInv(pl, page, d, RequestAfter(d)),
           \A e \in Descs : e # d => RequestAfter(e) = Request(e)
    PROVE  IInv'
  <1>1. \A s \in Spaces : IdleInv(pl, page', s, space'[s])
    BY DEF PlacesInv
  <1>2. \A e \in Descs : DescSame(e, pl, page, pl, page')
    BY DEF DescSame
  <1>3. DescInv(pl, page', d, RequestAfter(d))
    OBVIOUS
  <1> QED BY <1>1, <1>2, <1>3, StepOf

LEMMA AllocateMem ==
    ASSUME Shape, NEW pl \in [Page -> Place], PlacesInv(pl), NEW d \in Descs,
           NEW n \in 1..MaxRequest, allocateMem(d, n)
    PROVE  IInv'
  <1>1. PICK r : r = Request(d)
    OBVIOUS
  <1>2. PICK r2 : r2 = RequestAfter(d)
    OBVIOUS
  <1>3. /\ r2.desc = r.desc /\ r2.used = r.used /\ r2.need = n
        /\ r2.old = r.old /\ r2.new = r.new /\ r2.newPages = r.newPages
        /\ r2.walk = r.walk /\ r.pc = "idle"
        /\ r2.pc = IF r.desc.firstNotFull = NullPos THEN "new" ELSE "old"
    BY <1>1, <1>2 DEF Request, RequestAfter, Shape, allocateMem, Goto
  <1>4. DescInv(pl, page, d, r)
    BY <1>1 DEF PlacesInv
  <1>5. r.old = <<>> /\ r.newPages = <<>> /\ r.new = <<>>
    BY <1>3, <1>4 DEF DescInv, RequestInv
  <1>6. DescInv(pl, page, d, r2)
    <2>1. ListInv(pl, page, d, r2)
      <3>1. ListSame(d, pl, page, r, pl, page, r2)
        BY <1>3 DEF ListSame
      <3> QED BY <1>4, <3>1, ListKept DEF DescInv
    <2>2. QueueInv(pl, page, d, r2)
      <3>1. QueueSame(d, pl, page, r, pl, page, r2)
        BY <1>3 DEF QueueSame
      <3> QED BY <1>4, <3>1, QueueKept DEF DescInv
    <2>3. NewInv(pl, d, r2)
      BY <1>3, <1>4 DEF DescInv, NewInv
    <2>4. Given(r2) = Given(r)
      BY <1>3 DEF Given
    <2>5. GivenInv(pl, d, r2)
      BY <1>3, <1>4, <1>5, EmptyRange DEF DescInv, GivenInv
    <2>6. PagesAt(pl, <<"new", d>>) = {}
      BY <1>4, <1>5, EmptyRange DEF DescInv, NewInv
    <2>7. SlotInv(pl, page, d, r2)
      BY <1>3, <1>4, <2>4, <2>6 DEF DescInv, SlotInv, Live, Ungiven, PagesAt
    <2>8. RequestInv(r2)
      BY <1>3, <1>4, <1>5, EmptyRange, DescsAssumption DEF DescInv, RequestInv
    <2> QED BY <2>1, <2>2, <2>3, <2>5, <2>7, <2>8 DEF DescInv
  <1>7. Shape'
    <2>1. pc' \in [Descs -> PCs]
      BY DEF Shape, allocateMem, Goto, PCs
    <2>2. need' \in [Descs -> Nat]
      BY DescsAssumption DEF Shape, allocateMem
    <2> QED BY <2>1, <2>2 DEF Shape, allocateMem
  <1>8. UNCHANGED <<space, page>>
    BY DEF allocateMem
  <1>9. \A e \in Descs : e # d => RequestAfter(e) = Request(e)
    BY DEF Shape, Request, RequestAfter, allocateMem, Goto
  <1> QED BY <1>2, <1>6, <1>7, <1>8, <1>9, QuietStepOf

LEMMA AllocatePageFull ==
    ASSUME Shape, NEW pl \in [Page -> Place], PlacesInv(pl), NEW d \in Descs,
           allocatePage_full(d)
    PROVE  IInv'
  <1>1. \A e \in Descs : RequestAfter(e) = Request(e)
    BY DEF Request, RequestAfter, allocatePage_full
  <1>2. DescInv(pl, page, d, RequestAfter(d))
    BY <1>1 DEF PlacesInv
  <1>3. Shape'
    <2>1. nth' \in [Descs -> Nat \ {0}]
      BY DEF Shape, allocatePage_full
    <2> QED BY <2>1 DEF Shape, allocatePage_full
  <1>4. UNCHANGED <<space, page>>
    BY DEF allocatePage_full
  <1> QED BY <1>1, <1>2, <1>3, <1>4, QuietStepOf

\* allocateMem throws: the slots of new pages are not given any more.
LEMMA AllocateMemThrow ==
    ASSUME Shape, NEW pl \in [Page -> Place], PlacesInv(pl), NEW d \in Descs,
           allocateMem_throw(d)
    PROVE  IInv'
  <1>1. PICK r : r = Request(d)
    OBVIOUS
  <1>2. PICK r2 : r2 = RequestAfter(d)
    OBVIOUS
  <1>3. /\ r2.desc = r.desc /\ r2.used = r.used /\ r2.need = 0
        /\ r2.old = r.old /\ r2.new = <<>> /\ r2.newPages = r.newPages
        /\ r2.walk = r.walk /\ r.pc = "new" /\ r2.pc = "undo" /\ r.need > 0
    BY <1>1, <1>2 DEF Request, RequestAfter, Shape, allocateMem_throw, Goto
  <1>4. DescInv(pl, page, d, r)
    BY <1>1 DEF PlacesInv
  <1>5. DescInv(pl, page, d, r2)
    <2>1. ListInv(pl, page, d, r2)
      <3>1. ListSame(d, pl, page, r, pl, page, r2)
        BY <1>3 DEF ListSame
      <3> QED BY <1>4, <3>1, ListKept DEF DescInv
    <2>2. QueueInv(pl, page, d, r2)
      <3>1. QueueSame(d, pl, page, r, pl, page, r2)
        BY <1>3 DEF QueueSame
      <3> QED BY <1>4, <3>1, QueueKept DEF DescInv
    <2>3. NewInv(pl, d, r2)
      BY <1>3, <1>4 DEF DescInv, NewInv
    <2>4. GivenInv(pl, d, r2)
      BY <1>3, <1>4, EmptyRange DEF DescInv, GivenInv
    <2>5. SlotInv(pl, page, d, r2)
      <3> SUFFICES ASSUME NEW p \in Page, Live(pl, d, r2, p)
                   PROVE  /\ Distinct(page[p].idle)
                          /\ Range(page[p].idle) = Ungiven(d, r2, p)
        BY DEF SlotInv
      <3>1. pl[p] = <<"list", d>>
        BY <1>3 DEF Live
      <3>2. Distinct(page[p].idle) /\ Range(page[p].idle) = Ungiven(d, r, p)
        BY <1>3, <1>4, <3>1 DEF DescInv, SlotInv, Live
      <3>3. \A i : <<p, i>> \notin Range(r.new)
        BY <1>3, <1>4, <3>1, Places DEF DescInv, GivenInv, SlotsAt, PagesAt
      <3>4. Ungiven(d, r2, p) = Ungiven(d, r, p)
        BY <1>3, <3>3, EmptyRange DEF Ungiven, Given
      <3> QED BY <3>2, <3>4
    <2>6. RequestInv(r2)
      BY <1>3, <1>4 DEF DescInv, RequestInv
    <2> QED BY <2>1, <2>2, <2>3, <2>4, <2>5, <2>6 DEF DescInv
  <1>6. Shape'
    <2>1. pc' \in [Descs -> PCs]
      BY DEF Shape, allocateMem_throw, Goto, PCs
    <2>2. need' \in [Descs -> Nat] /\ nth' \in [Descs -> Nat \ {0}]
      BY DEF Shape, allocateMem_throw
    <2>3. new' \in [Descs -> Seq(Page \X Nat)]
      BY EmptyRange DEF Shape, allocateMem_throw
    <2> QED BY <2>1, <2>2, <2>3 DEF Shape, allocateMem_throw
  <1>7. UNCHANGED <<space, page>>
    BY DEF allocateMem_throw
  <1>8. \A e \in Descs : e # d => RequestAfter(e) = Request(e)
    BY DEF Shape, Request, RequestAfter, allocateMem_throw, Goto
  <1> QED BY <1>2, <1>5, <1>6, <1>7, <1>8, QuietStepOf

\* All new pages are linked: the caller has its slots.
LEMMA AllocateMemReturn ==
    ASSUME Shape, NEW pl \in [Page -> Place], PlacesInv(pl), NEW d \in Descs,
           allocateMem_new(d), newPages[d] = <<>>
    PROVE  IInv'
  <1>1. PICK r : r = Request(d)
    OBVIOUS
  <1>2. PICK r2 : r2 = RequestAfter(d)
    OBVIOUS
  <1>3. /\ UNCHANGED <<space, page, desc, newPages, walk>>
        /\ used' = [used EXCEPT ![d] = used[d] \cup Range(old[d]) \cup Range(new[d])]
        /\ pc' = [pc EXCEPT ![d] = "idle"] /\ pc[d] = "new"
        /\ need' = [need EXCEPT ![d] = 0] /\ old' = [old EXCEPT ![d] = <<>>]
        /\ new' = [new EXCEPT ![d] = <<>>] /\ nth' = [nth EXCEPT ![d] = 1]
    BY DEF allocateMem_new, Forget, Goto
  <1>4. /\ r2.desc = r.desc /\ r2.used = Given(r) /\ r2.need = 0
        /\ r2.old = <<>> /\ r2.new = <<>> /\ r2.newPages = r.newPages
        /\ r2.walk = r.walk /\ r.pc = "new" /\ r2.pc = "idle"
        /\ r.newPages = <<>>
    BY <1>1, <1>2, <1>3 DEF Request, RequestAfter, Shape, Given
  <1>5. DescInv(pl, page, d, r)
    BY <1>1 DEF PlacesInv
  <1>6. DescInv(pl, page, d, r2)
    <2>1. ListInv(pl, page, d, r2)
      <3>1. ListSame(d, pl, page, r, pl, page, r2)
        BY <1>4 DEF ListSame
      <3> QED BY <1>5, <3>1, ListKept DEF DescInv
    <2>2. QueueInv(pl, page, d, r2)
      <3>1. QueueSame(d, pl, page, r, pl, page, r2)
        BY <1>4 DEF QueueSame
      <3> QED BY <1>5, <3>1, QueueKept DEF DescInv
    <2>3. NewInv(pl, d, r2) /\ PagesAt(pl, <<"new", d>>) = {}
      BY <1>4, <1>5, EmptyRange DEF DescInv, NewInv
    <2>4. GivenInv(pl, d, r2)
      BY <1>4, <1>5, <2>3, EmptyRange DEF DescInv, GivenInv, Given, SlotsAt
    <2>5. Given(r2) = Given(r)
      BY <1>4, EmptyRange DEF Given
    <2>6. SlotInv(pl, page, d, r2)
      BY <1>4, <1>5, <2>3, <2>5 DEF DescInv, SlotInv, Live, Ungiven, PagesAt
    <2>7. RequestInv(r2)
      BY <1>4, <1>5 DEF DescInv, RequestInv
    <2> QED BY <2>1, <2>2, <2>3, <2>4, <2>6, <2>7 DEF DescInv
  <1>7. Shape'
    <2>1. pc' \in [Descs -> PCs] /\ need' \in [Descs -> Nat]
          /\ nth' \in [Descs -> Nat \ {0}]
      BY <1>3 DEF Shape, PCs
    <2>2. /\ old' \in [Descs -> Seq(Page \X Nat)]
          /\ new' \in [Descs -> Seq(Page \X Nat)]
      BY <1>3, EmptyRange DEF Shape
    <2>3. used' \in [Descs -> SUBSET (Page \X Nat)]
      <3>1. /\ old[d] \in Seq(Page \X Nat) /\ new[d] \in Seq(Page \X Nat)
            /\ used[d] \in SUBSET (Page \X Nat)
        BY DEF Shape
      <3>2. /\ Range(old[d]) \subseteq Page \X Nat
            /\ Range(new[d]) \subseteq Page \X Nat
        BY <3>1, InRange
      <3> QED BY <1>3, <3>1, <3>2 DEF Shape
    <2> QED BY <1>3, <2>1, <2>2, <2>3 DEF Shape
  <1>8. \A e \in Descs : e # d => RequestAfter(e) = Request(e)
    BY <1>3 DEF Shape, Request, RequestAfter
  <1> QED BY <1>2, <1>3, <1>6, <1>7, <1>8, QuietStepOf

\* What freeMem and the undoing of a request have in common: a slot that was
\* given goes back to its page.
LEMMA SlotBack ==
    ASSUME Shape, NEW pl \in [Page -> Place], PlacesInv(pl), NEW d \in Descs,
           NEW p, NEW i, NEW r, r = Request(d), NEW r2, r2 = RequestAfter(d),
           pc[d] \in {"idle", "undo"}, pc'[d] = pc[d], walk' = walk,
           <<p, i>> \in SlotsAt(pl, <<"list", d>>, d), <<p, i>> \in Given(r),
           Given(r2) = Given(r) \ {<<p, i>>}, space' = space,
           NEW m, m = Freed([page |-> page, desc |-> desc], d, <<p, i>>),
           page' = m.page, desc' = m.desc
    PROVE  /\ page' \in [Page -> PageHeader] /\ desc' \in [Descs -> DescHeader]
           /\ \A x \in Page : page'[x].idleNum = Len(page'[x].idle)
           /\ \A s \in Spaces : IdleInv(pl, page', s, space'[s])
           /\ ListInv(pl, page', d, r2) /\ QueueInv(pl, page', d, r2)
           /\ SlotInv(pl, page', d, r2)
           /\ \A e \in Descs : e # d => /\ desc'[e] = desc[e]
                                        /\ DescSame(e, pl, page, pl, page')
  <1>1. p \in Page /\ pl[p] = <<"list", d>> /\ i \in 1..SlotNum[d] /\ i \in Nat
    BY DescsAssumption DEF SlotsAt, PagesAt
  <1>2. DescInv(pl, page, d, r)
    BY DEF PlacesInv
  <1>3. /\ r.desc = desc[d] /\ r2.desc = desc'[d] /\ r2.pc = r.pc
        /\ r.pc \in {"idle", "undo"} /\ r2.walk = r.walk
    BY DEF Request, RequestAfter
  <1>4. /\ page' \in [Page -> PageHeader] /\ desc' \in [Descs -> DescHeader]
        /\ \A x \in Page : /\ page'[x].idleNum = Len(page'[x].idle)
                           /\ page'[x].next = page[x].next
                           /\ x # p => page'[x].idle = page[x].idle
                           /\ pl[x] # <<"list", d>> => page'[x] = page[x]
        /\ page'[p].idle = Append(page[p].idle, i)
        /\ desc'[d].first = desc[d].first /\ desc'[d].last = desc[d].last
        /\ \A e \in Descs : e # d => desc'[e] = desc[e]
        /\ \A x : x.desc = desc'[d] => QueueInv(pl, page', d, x)
    BY <1>1, <1>2, SlotFreed
  <1>5. \A s \in Spaces : IdleInv(pl, page', s, space'[s])
    <2>1. \A s \in Spaces : SpaceSame(s, pl, page, pl, page')
      BY <1>4 DEF SpaceSame
    <2> QED BY <2>1, SpaceKept DEF PlacesInv
  <1>6. ListInv(pl, page', d, r2)
    <2>1. ListSame(d, pl, page, r, pl, page', r2)
      BY <1>3, <1>4 DEF ListSame
    <2> QED BY <1>2, <2>1, ListKept DEF DescInv
  <1>7. QueueInv(pl, page', d, r2)
    BY <1>3, <1>4
  <1>8. SlotInv(pl, page', d, r2)
    <2> SUFFICES ASSUME NEW x \in Page, Live(pl, d, r2, x)
                 PROVE  /\ Distinct(page'[x].idle)
                        /\ Range(page'[x].idle) = Ungiven(d, r2, x)
      BY DEF SlotInv
    <2>1. Distinct(page[x].idle) /\ Range(page[x].idle) = Ungiven(d, r, x)
      BY <1>2, <1>3 DEF DescInv, SlotInv, Live
    <2>2. CASE x # p
      <3>1. Ungiven(d, r2, x) = Ungiven(d, r, x)
        BY <2>2 DEF Ungiven
      <3> QED BY <1>4, <2>1, <2>2, <3>1
    <2>3. CASE x = p
      <3>1. Ungiven(d, r2, p) = Ungiven(d, r, p) \cup {i} /\ i \notin Ungiven(d, r, p)
        BY <1>1 DEF Ungiven
      <3>2. page[p].idle \in Seq(Nat)
        BY <1>1 DEF Shape, PageHeader
      <3>3. /\ Range(Append(page[p].idle, i)) = Range(page[p].idle) \cup {i}
            /\ Distinct(Append(page[p].idle, i))
        BY <1>1, <2>1, <2>3, <3>1, <3>2, AppendRange
      <3> QED BY <1>4, <2>1, <2>3, <3>1, <3>3
    <2> QED BY <2>2, <2>3
  <1>9. \A e \in Descs : e # d => DescSame(e, pl, page, pl, page')
    <2> TAKE e \in Descs
    <2> HAVE e # d
    <2>1. \A x \in Page : pl[x] \in {<<"list", e>>, <<"new", e>>}
                              => pl[x] # <<"list", d>>
      BY Places
    <2> QED BY <1>4, <2>1 DEF DescSame
  <1> QED BY <1>4, <1>5, <1>6, <1>7, <1>8, <1>9

LEMMA FreeMem ==
    ASSUME Shape, NEW pl \in [Page -> Place], PlacesInv(pl), NEW d \in Descs,
           NEW slot \in used[d], freeMem(d, slot)
    PROVE  IInv'
  <1>1. PICK r : r = Request(d)
    OBVIOUS
  <1>2. PICK r2 : r2 = RequestAfter(d)
    OBVIOUS
  <1>3. PICK m : m = Freed([page |-> page, desc |-> desc], d, slot)
    OBVIOUS
  <1>4. /\ page' = m.page /\ desc' = m.desc /\ pc[d] = "idle"
        /\ used' = [used EXCEPT ![d] = used[d] \ {slot}]
        /\ UNCHANGED <<space, pc, need, old, new, newPages, nth, walk>>
    BY <1>3 DEF freeMem, requestVars
  <1>5. /\ r2.used = r.used \ {slot} /\ r2.need = r.need /\ r2.old = r.old
        /\ r2.new = r.new /\ r2.newPages = r.newPages /\ r2.walk = r.walk
        /\ r.pc = "idle" /\ r2.pc = "idle" /\ slot \in r.used
    BY <1>1, <1>2, <1>4 DEF Request, RequestAfter, Shape
  <1>6. DescInv(pl, page, d, r)
    BY <1>1 DEF PlacesInv
  <1>7. r.old = <<>> /\ r.new = <<>>
    BY <1>5, <1>6 DEF DescInv, RequestInv
  <1>8. Given(r) = r.used /\ Given(r2) = r2.used
    BY <1>5, <1>7, EmptyRange DEF Given
  <1>9. slot \in SlotsAt(pl, <<"list", d>>, d)
    BY <1>5, <1>6 DEF DescInv, GivenInv
  <1>10. PICK p \in Page, i \in Nat : slot = <<p, i>>
    BY <1>9, DescsAssumption DEF SlotsAt, PagesAt
  <1>11. /\ page' \in [Page -> PageHeader] /\ desc' \in [Descs -> DescHeader]
         /\ \A x \in Page : page'[x].idleNum = Len(page'[x].idle)
         /\ \A s \in Spaces : IdleInv(pl, page', s, space'[s])
         /\ ListInv(pl, page', d, r2) /\ QueueInv(pl, page', d, r2)
         /\ SlotInv(pl, page', d, r2)
         /\ \A e \in Descs : e # d => /\ desc'[e] = desc[e]
                                      /\ DescSame(e, pl, page, pl, page')
    <2>1. Given(r2) = Given(r) \ {<<p, i>>} /\ <<p, i>> \in Given(r)
      BY <1>5, <1>8, <1>10
    <2>2. m = Freed([page |-> page, desc |-> desc], d, <<p, i>>)
      BY <1>3, <1>10
    <2>3. <<p, i>> \in SlotsAt(pl, <<"list", d>>, d)
      BY <1>9, <1>10
    <2>4. pc[d] \in {"idle", "undo"} /\ pc'[d] = pc[d] /\ walk' = walk
          /\ space' = space
      BY <1>4
    <2> QED BY <1>1, <1>2, <1>4, <2>1, <2>2, <2>3, <2>4, SlotBack
  <1>12. DescInv(pl, page', d, r2)
    <2>1. NewInv(pl, d, r2)
      BY <1>5, <1>6 DEF DescInv, NewInv
    <2>2. GivenInv(pl, d, r2)
      BY <1>5, <1>6 DEF DescInv, GivenInv
    <2>3. RequestInv(r2)
      BY <1>5, <1>6 DEF DescInv, RequestInv
    <2> QED BY <1>11, <2>1, <2>2, <2>3 DEF DescInv
  <1>13. Shape'
    <2>1. used' \in [Descs -> SUBSET (Page \X Nat)]
      BY <1>4 DEF Shape
    <2> QED BY <1>4, <1>11, <2>1 DEF Shape
  <1>14. \A e \in Descs : e # d => RequestAfter(e) = Request(e)
    BY <1>4, <1>11 DEF Shape, Request, RequestAfter
  <1> QED BY <1>2, <1>11, <1>12, <1>13, <1>14, StepOf

\* The slots of old pages go back first.
LEMMA UndoSlot ==
    ASSUME Shape, NEW pl \in [Page -> Place], PlacesInv(pl), NEW d \in Descs,
           allocateMem_undo(d), old[d] # <<>>
    PROVE  IInv'
  <1>1. PICK r : r = Request(d)
    OBVIOUS
  <1>2. PICK r2 : r2 = RequestAfter(d)
    OBVIOUS
  <1>3. PICK slot : slot = Head(old[d])
    OBVIOUS
  <1>4. PICK rest : rest = Tail(old[d])
    OBVIOUS
  <1>5. PICK m : m = Freed([page |-> page, desc |-> desc], d, slot)
    OBVIOUS
  <1>6. /\ page' = m.page /\ desc' = m.desc /\ pc[d] = "undo"
        /\ old' = [old EXCEPT ![d] = rest]
        /\ UNCHANGED <<space, pc, used, need, new, newPages, nth, walk>>
    BY <1>3, <1>4, <1>5 DEF allocateMem_undo
  <1>7. /\ r2.used = r.used /\ r2.need = r.need /\ r.old = old[d]
        /\ r2.old = rest /\ r2.new = r.new /\ r2.newPages = r.newPages
        /\ r2.walk = r.walk /\ r.pc = "undo" /\ r2.pc = "undo"
    BY <1>1, <1>2, <1>6 DEF Request, RequestAfter, Shape
  <1>8. DescInv(pl, page, d, r)
    BY <1>1 DEF PlacesInv
  <1>9. r.new = <<>> /\ Range(r.new) = {}
    BY <1>7, <1>8, EmptyRange DEF DescInv, RequestInv
  <1>10. /\ Distinct(r.old) /\ r.used \cap Range(r.old) = {}
         /\ Range(r.old) \subseteq SlotsAt(pl, <<"list", d>>, d)
    BY <1>8 DEF DescInv, GivenInv
  <1>11. /\ slot \in Range(r.old) /\ Range(rest) = Range(r.old) \ {slot}
         /\ Distinct(rest) /\ rest \in Seq(Page \X Nat)
    <2>1. r.old \in Seq(Page \X Nat)
      BY <1>7 DEF Shape
    <2> QED BY <1>3, <1>4, <1>7, <1>10, <2>1, TailRange
  <1>12. PICK p \in Page, i \in Nat : slot = <<p, i>>
    BY <1>10, <1>11, DescsAssumption DEF SlotsAt, PagesAt
  <1>13. /\ page' \in [Page -> PageHeader] /\ desc' \in [Descs -> DescHeader]
         /\ \A x \in Page : page'[x].idleNum = Len(page'[x].idle)
         /\ \A s \in Spaces : IdleInv(pl, page', s, space'[s])
         /\ ListInv(pl, page', d, r2) /\ QueueInv(pl, page', d, r2)
         /\ SlotInv(pl, page', d, r2)
         /\ \A e \in Descs : e # d => /\ desc'[e] = desc[e]
                                      /\ DescSame(e, pl, page, pl, page')
    <2>1. Given(r2) = Given(r) \ {<<p, i>>} /\ <<p, i>> \in Given(r)
      BY <1>7, <1>9, <1>10, <1>11, <1>12 DEF Given
    <2>2. m = Freed([page |-> page, desc |-> desc], d, <<p, i>>)
      BY <1>5, <1>12
    <2>3. <<p, i>> \in SlotsAt(pl, <<"list", d>>, d)
      BY <1>10, <1>11, <1>12
    <2>4. pc[d] \in {"idle", "undo"} /\ pc'[d] = pc[d] /\ walk' = walk
          /\ space' = space
      BY <1>6
    <2> QED BY <1>1, <1>2, <1>6, <2>1, <2>2, <2>3, <2>4, SlotBack
  <1>14. DescInv(pl, page', d, r2)
    <2>1. NewInv(pl, d, r2)
      BY <1>7, <1>8 DEF DescInv, NewInv
    <2>2. GivenInv(pl, d, r2)
      BY <1>7, <1>8, <1>11 DEF DescInv, GivenInv
    <2>3. RequestInv(r2)
      BY <1>7, <1>8 DEF DescInv, RequestInv
    <2> QED BY <1>13, <2>1, <2>2, <2>3 DEF DescInv
  <1>15. Shape'
    <2>1. old' \in [Descs -> Seq(Page \X Nat)]
      BY <1>6, <1>11 DEF Shape
    <2> QED BY <1>6, <1>13, <2>1 DEF Shape
  <1>16. \A e \in Descs : e # d => RequestAfter(e) = Request(e)
    BY <1>6, <1>13 DEF Shape, Request, RequestAfter
  <1> QED BY <1>2, <1>13, <1>14, <1>15, <1>16, StepOf

\* Then the new pages are freed.
LEMMA UndoPage ==
    ASSUME Shape, NEW pl \in [Page -> Place], PlacesInv(pl), NEW d \in Descs,
           allocateMem_undo(d), old[d] = <<>>, newPages[d] # <<>>
    PROVE  IInv'
  <1>1. PICK r : r = Request(d)
    OBVIOUS
  <1>2. PICK r2 : r2 = RequestAfter(d)
    OBVIOUS
  <1>3. PICK p : p = Head(newPages[d])
    OBVIOUS
  <1>4. PICK rest : rest = Tail(newPages[d])
    OBVIOUS
  <1>5. /\ freePage(SpaceOf(p), p) /\ pc[d] = "undo"
        /\ newPages' = [newPages EXCEPT ![d] = rest]
        /\ UNCHANGED <<desc, pc, old, used, need, new, nth, walk>>
    BY <1>3, <1>4 DEF allocateMem_undo
  <1>6. /\ r2.desc = r.desc /\ r2.used = r.used /\ r2.need = r.need
        /\ r2.old = r.old /\ r2.new = r.new /\ r.newPages = newPages[d]
        /\ r2.newPages = rest /\ r2.walk = r.walk /\ r.old = <<>>
        /\ r.pc = "undo" /\ r2.pc = "undo"
    BY <1>1, <1>2, <1>5 DEF Request, RequestAfter, Shape
  <1>7. DescInv(pl, page, d, r)
    BY <1>1 DEF PlacesInv
  <1>8. r.new = <<>> /\ Range(r.new) = {}
    BY <1>6, <1>7, EmptyRange DEF DescInv, RequestInv
  <1>9. /\ p \in Range(r.newPages) /\ Range(rest) = Range(r.newPages) \ {p}
        /\ Distinct(rest) /\ rest \in Seq(Page)
    <2>1. r.newPages \in Seq(Page) /\ Distinct(r.newPages)
      BY <1>6, <1>7 DEF Shape, DescInv, NewInv
    <2> QED BY <1>3, <1>4, <1>6, <2>1, TailRange
  <1>10. p \in Page /\ pl[p] = <<"new", d>>
    BY <1>7, <1>9 DEF DescInv, NewInv, PagesAt
  <1>11. PICK s \in Spaces : s = SpaceOf(p) /\ p \in Range(PageList[s])
    BY <1>10, SpaceOfPage
  <1>12. PICK pl2 : pl2 = [pl EXCEPT ![p] = <<"idle", s>>]
    OBVIOUS
  <1>13. /\ pl2 \in [Page -> Place]
         /\ \A t \in Spaces : IdleInv(pl2, page', t, space'[t])
         /\ \A x \in Page : x # p /\ pl[x] # <<"idle", s>> => page'[x] = page[x]
         /\ space' \in [Spaces -> SpaceHeader]
         /\ page' \in [Page -> PageHeader]
         /\ \A x \in Page : page'[x].idleNum = Len(page'[x].idle)
    <2>1. \A t \in Spaces : pl[p] # <<"idle", t>>
      BY <1>10, Places
    <2>2. \A t \in Spaces : IdleInv(pl, page, t, space[t])
      BY DEF PlacesInv
    <2>3. freePage(s, p)
      BY <1>5, <1>11
    <2> QED BY <1>10, <1>11, <1>12, <2>1, <2>2, <2>3, PageFreed
  <1>14. \A x \in Page : /\ pl2[x] = IF x = p THEN <<"idle", s>> ELSE pl[x]
                         /\ pl[x] = <<"list", d>> => page'[x] = page[x] /\ x # p
    BY <1>10, <1>12, <1>13, Places
  <1>15. \A e \in Descs : pl2[p] # <<"list", e>> /\ pl2[p] # <<"new", e>>
    BY <1>10, <1>14, Places
  <1>16. DescInv(pl2, page', d, r2)
    <2>1. ListInv(pl2, page', d, r2)
      <3>1. ListSame(d, pl, page, r, pl2, page', r2)
        BY <1>6, <1>14, <1>15 DEF ListSame
      <3> QED BY <1>7, <3>1, ListKept DEF DescInv
    <2>2. QueueInv(pl2, page', d, r2)
      <3>1. QueueSame(d, pl, page, r, pl2, page', r2)
        BY <1>6, <1>14, <1>15 DEF QueueSame
      <3> QED BY <1>7, <3>1, QueueKept DEF DescInv
    <2>3. PagesAt(pl2, <<"new", d>>) = PagesAt(pl, <<"new", d>>) \ {p}
      BY <1>14, <1>15 DEF PagesAt
    <2>4. PagesAt(pl2, <<"list", d>>) = PagesAt(pl, <<"list", d>>)
      BY <1>14, <1>15 DEF PagesAt
    <2>5. NewInv(pl2, d, r2)
      BY <1>6, <1>7, <1>9, <2>3 DEF DescInv, NewInv
    <2>6. GivenInv(pl2, d, r2)
      BY <1>6, <1>7, <1>8, <2>4 DEF DescInv, GivenInv, SlotsAt
    <2>7. SlotInv(pl2, page', d, r2)
      <3>1. Given(r2) = Given(r)
        BY <1>6 DEF Given
      <3>2. \A x \in Page : Live(pl2, d, r2, x) => /\ Live(pl, d, r, x)
                                                   /\ page'[x] = page[x]
        BY <1>6, <1>14, <1>15 DEF Live
      <3> QED BY <1>7, <3>1, <3>2 DEF DescInv, SlotInv, Ungiven
    <2>8. RequestInv(r2)
      BY <1>6, <1>7 DEF DescInv, RequestInv
    <2> QED BY <2>1, <2>2, <2>5, <2>6, <2>7, <2>8 DEF DescInv
  <1>17. Shape'
    <2>1. newPages' \in [Descs -> Seq(Page)]
      BY <1>5, <1>9 DEF Shape
    <2> QED BY <1>5, <1>13, <2>1 DEF Shape
  <1>18. ASSUME NEW e \in Descs, e # d
         PROVE  RequestAfter(e) = Request(e) /\ DescSame(e, pl, page, pl2, page')
    <2>1. RequestAfter(e) = Request(e)
      BY <1>5, <1>18 DEF Shape, Request, RequestAfter
    <2>2. \A x \in Page : pl[x] \in {<<"list", e>>, <<"new", e>>}
                              => pl[x] # <<"idle", s>> /\ x # p
      BY <1>10, <1>18, Places
    <2>3. DescSame(e, pl, page, pl2, page')
      BY <1>13, <1>14, <1>15, <2>2 DEF DescSame
    <2> QED BY <2>1, <2>3
  <1> QED BY <1>2, <1>13, <1>16, <1>17, <1>18, StepOf

LEMMA UndoEnds ==
    ASSUME Shape, NEW pl \in [Page -> Place], PlacesInv(pl), NEW d \in Descs,
           allocateMem_undo(d), old[d] = <<>>, newPages[d] = <<>>
    PROVE  IInv'
  <1>1. PICK r : r = Request(d)
    OBVIOUS
  <1>2. PICK r2 : r2 = RequestAfter(d)
    OBVIOUS
  <1>3. /\ pc[d] = "undo" /\ pc' = [pc EXCEPT ![d] = "idle"]
        /\ UNCHANGED <<space, page, desc, newPages, old, used, need, new, nth, walk>>
    BY DEF allocateMem_undo, Goto
  <1>4. /\ r2.desc = r.desc /\ r2.used = r.used /\ r2.need = r.need
        /\ r2.old = r.old /\ r2.new = r.new /\ r2.newPages = r.newPages
        /\ r2.walk = r.walk /\ r.old = <<>> /\ r.newPages = <<>>
        /\ r.pc = "undo" /\ r2.pc = "idle"
    BY <1>1, <1>2, <1>3 DEF Request, RequestAfter, Shape
  <1>5. DescInv(pl, page, d, r)
    BY <1>1 DEF PlacesInv
  <1>6. DescInv(pl, page, d, r2)
    <2>1. ListInv(pl, page, d, r2)
      <3>1. ListSame(d, pl, page, r, pl, page, r2)
        BY <1>4 DEF ListSame
      <3> QED BY <1>5, <3>1, ListKept DEF DescInv
    <2>2. QueueInv(pl, page, d, r2)
      <3>1. QueueSame(d, pl, page, r, pl, page, r2)
        BY <1>4 DEF QueueSame
      <3> QED BY <1>5, <3>1, QueueKept DEF DescInv
    <2>3. NewInv(pl, d, r2) /\ GivenInv(pl, d, r2)
      BY <1>4, <1>5 DEF DescInv, NewInv, GivenInv
    <2>4. Given(r2) = Given(r)
      BY <1>4 DEF Given
    <2>5. SlotInv(pl, page, d, r2)
      BY <1>4, <1>5, <2>4 DEF DescInv, SlotInv, Live, Ungiven
    <2>6. RequestInv(r2)
      BY <1>4, <1>5 DEF DescInv, RequestInv
    <2> QED BY <2>1, <2>2, <2>3, <2>5, <2>6 DEF DescInv
  <1>7. Shape'
    <2>1. pc' \in [Descs -> PCs]
      BY <1>3 DEF Shape, PCs
    <2> QED BY <1>3, <2>1 DEF Shape
  <1>8. \A e \in Descs : e # d => RequestAfter(e) = Request(e)
    BY <1>3 DEF Shape, Request, RequestAfter
  <1> QED BY <1>2, <1>3, <1>6, <1>7, <1>8, QuietStepOf

LEMMA Truncate ==
    ASSUME Shape, NEW pl \in [Page -> Place], PlacesInv(pl), NEW d \in Descs,
           truncate(d)
    PROVE  IInv'
  <1>1. PICK r : r = Request(d)
    OBVIOUS
  <1>2. PICK r2 : r2 = RequestAfter(d)
    OBVIOUS
  <1>3. /\ pc[d] = "idle" /\ pc' = [pc EXCEPT ![d] = "truncate"]
        /\ walk' = [walk EXCEPT ![d] = desc[d].first]
        /\ used' = [used EXCEPT ![d] = {}]
        /\ UNCHANGED <<space, page, desc, need, old, new, newPages, nth>>
    BY DEF truncate, Goto
  <1>4. /\ r2.desc = r.desc /\ r2.used = {} /\ r2.need = r.need
        /\ r2.old = r.old /\ r2.new = r.new /\ r2.newPages = r.newPages
        /\ r2.walk = r.desc.first /\ r.pc = "idle" /\ r2.pc = "truncate"
    BY <1>1, <1>2, <1>3 DEF Request, RequestAfter, Shape
  <1>5. DescInv(pl, page, d, r)
    BY <1>1 DEF PlacesInv
  <1>6. DescInv(pl, page, d, r2)
    <2>1. ListInv(pl, page, d, r2)
      <3>1. PICK q \in Seq(Page), last \in Link :
                /\ IsList(q, r.desc.first, last, NextIn(page))
                /\ Range(q) = PagesAt(pl, <<"list", d>>)
        BY <1>4, <1>5 DEF DescInv, ListInv
      <3> QED BY <1>4, <3>1 DEF ListInv
    <2>2. QueueInv(pl, page, d, r2)
      BY <1>4 DEF QueueInv
    <2>3. NewInv(pl, d, r2) /\ GivenInv(pl, d, r2)
      BY <1>4, <1>5 DEF DescInv, NewInv, GivenInv
    <2>4. SlotInv(pl, page, d, r2)
      BY <1>4 DEF SlotInv, Live
    <2>5. RequestInv(r2)
      BY <1>4, <1>5 DEF DescInv, RequestInv
    <2> QED BY <2>1, <2>2, <2>3, <2>4, <2>5 DEF DescInv
  <1>7. Shape'
    <2>1. pc' \in [Descs -> PCs]
      BY <1>3 DEF Shape, PCs
    <2>2. walk' \in [Descs -> Link]
      BY <1>3 DEF Shape, DescHeader
    <2>3. used' \in [Descs -> SUBSET (Page \X Nat)]
      BY <1>3 DEF Shape
    <2> QED BY <1>3, <2>1, <2>2, <2>3 DEF Shape
  <1>8. \A e \in Descs : e # d => RequestAfter(e) = Request(e)
    BY <1>3 DEF Shape, Request, RequestAfter
  <1> QED BY <1>2, <1>3, <1>6, <1>7, <1>8, QuietStepOf

\* The last page is freed: the descriptor has none.
LEMMA TruncateEnds ==
    ASSUME Shape, NEW pl \in [Page -> Place], PlacesInv(pl), NEW d \in Descs,
           truncate_page(d), walk[d] = NullPos
    PROVE  IInv'
  <1>1. PICK r : r = Request(d)
    OBVIOUS
  <1>2. PICK r2 : r2 = RequestAfter(d)
    OBVIOUS
  <1>3. /\ pc[d] = "truncate" /\ pc' = [pc EXCEPT ![d] = "idle"]
        /\ desc' = [desc EXCEPT ![d] = NoPages]
        /\ UNCHANGED <<space, page, walk, used, need, old, new, newPages, nth>>
    BY DEF truncate_page, Goto
  <1>4. /\ r2.desc = NoPages /\ r2.used = r.used /\ r2.need = r.need
        /\ r2.old = r.old /\ r2.new = r.new /\ r2.newPages = r.newPages
        /\ r.walk = NullPos /\ r.pc = "truncate" /\ r2.pc = "idle"
    BY <1>1, <1>2, <1>3 DEF Request, RequestAfter, Shape
  <1>5. DescInv(pl, page, d, r)
    BY <1>1 DEF PlacesInv
  <1>6. PagesAt(pl, <<"list", d>>) = {}
    <2>1. PICK q \in Seq(Page), last \in Link :
              /\ IsList(q, r.walk, last, NextIn(page))
              /\ Range(q) = PagesAt(pl, <<"list", d>>)
      BY <1>4, <1>5 DEF DescInv, ListInv
    <2> QED BY <1>4, <2>1, ListEnds
  <1>7. DescInv(pl, page, d, r2)
    <2>1. PICK q \in Seq(Page) :
              Range(q) = {} /\ \A link : IsList(q, NullPos, NullPos, link)
      <3>1. \A link : IsList(<<>>, NullPos, NullPos, link)
        BY EmptyRange DEF IsList
      <3> QED BY <3>1, EmptyRange
    <2>2. ListInv(pl, page, d, r2)
      <3>1. /\ r2.pc # "truncate" /\ r2.desc.first = NullPos
            /\ r2.desc.last = NullPos /\ NullPos \in Link
        BY <1>4 DEF NoPages, Link
      <3> QED BY <1>6, <2>1, <3>1 DEF ListInv
    <2>3. QueueInv(pl, page, d, r2)
      <3>1. r2.desc.firstNotFull = NullPos /\ r2.desc.lastNotFull = NullPos
        BY <1>4 DEF NoPages
      <3>2. Range(q) = {p \in PagesAt(pl, <<"list", d>>) : page[p].idleNum > 0}
        BY <1>6, <2>1
      <3> QED BY <1>6, <2>1, <3>1, <3>2 DEF QueueInv
    <2>4. NewInv(pl, d, r2) /\ GivenInv(pl, d, r2)
      BY <1>4, <1>5 DEF DescInv, NewInv, GivenInv
    <2>5. SlotInv(pl, page, d, r2)
      BY <1>4, <1>6 DEF SlotInv, Live, PagesAt
    <2>6. RequestInv(r2)
      BY <1>4, <1>5 DEF DescInv, RequestInv
    <2> QED BY <2>2, <2>3, <2>4, <2>5, <2>6 DEF DescInv
  <1>8. Shape'
    <2>1. pc' \in [Descs -> PCs]
      BY <1>3 DEF Shape, PCs
    <2>2. desc' \in [Descs -> DescHeader]
      BY <1>3 DEF Shape, DescHeader, NoPages, Link
    <2> QED BY <1>3, <2>1, <2>2 DEF Shape
  <1>9. \A e \in Descs : e # d => RequestAfter(e) = Request(e)
    BY <1>3 DEF Shape, Request, RequestAfter
  <1> QED BY <1>2, <1>3, <1>7, <1>8, <1>9, QuietStepOf

\* The first page of what is left is freed.
LEMMA TruncatePage ==
    ASSUME Shape, NEW pl \in [Page -> Place], PlacesInv(pl), NEW d \in Descs,
           truncate_page(d), walk[d] # NullPos
    PROVE  IInv'
  <1>1. PICK r : r = Request(d)
    OBVIOUS
  <1>2. PICK r2 : r2 = RequestAfter(d)
    OBVIOUS
  <1>3. PICK p : p = walk[d]
    OBVIOUS
  <1>4. /\ freePage(SpaceOf(p), p) /\ pc[d] = "truncate"
        /\ walk' = [walk EXCEPT ![d] = page[p].next]
        /\ UNCHANGED <<desc, pc, used, need, old, new, newPages, nth>>
    BY <1>3 DEF truncate_page
  <1>5. /\ r2.desc = r.desc /\ r2.used = r.used /\ r2.need = r.need
        /\ r2.old = r.old /\ r2.new = r.new /\ r2.newPages = r.newPages
        /\ r.walk = p /\ r2.walk = page[p].next
        /\ r.pc = "truncate" /\ r2.pc = "truncate"
    BY <1>1, <1>2, <1>3, <1>4 DEF Request, RequestAfter, Shape
  <1>6. DescInv(pl, page, d, r)
    BY <1>1 DEF PlacesInv
  <1>7. /\ r.used = {} /\ r.old = <<>> /\ r.new = <<>>
        /\ Range(<<>>) = {}
    BY <1>5, <1>6, EmptyRange DEF DescInv, RequestInv
  <1>8. PICK q \in Seq(Page), last \in Link :
            /\ IsList(q, p, last, NextIn(page))
            /\ Range(q) = PagesAt(pl, <<"list", d>>)
    BY <1>5, <1>6 DEF DescInv, ListInv
  <1>9. p \in Page /\ pl[p] = <<"list", d>>
    BY <1>3, <1>8, ListEnds DEF PagesAt
  <1>10. PICK s \in Spaces : s = SpaceOf(p) /\ p \in Range(PageList[s])
    BY <1>9, SpaceOfPage
  <1>11. PICK pl2 : pl2 = [pl EXCEPT ![p] = <<"idle", s>>]
    OBVIOUS
  <1>12. /\ pl2 \in [Page -> Place]
         /\ \A t \in Spaces : IdleInv(pl2, page', t, space'[t])
         /\ \A x \in Page : x # p /\ pl[x] # <<"idle", s>> => page'[x] = page[x]
         /\ space' \in [Spaces -> SpaceHeader]
         /\ page' \in [Page -> PageHeader]
         /\ \A x \in Page : page'[x].idleNum = Len(page'[x].idle)
    <2>1. \A t \in Spaces : pl[p] # <<"idle", t>>
      BY <1>9, Places
    <2>2. \A t \in Spaces : IdleInv(pl, page, t, space[t])
      BY DEF PlacesInv
    <2>3. freePage(s, p)
      BY <1>4, <1>10
    <2> QED BY <1>9, <1>10, <1>11, <2>1, <2>2, <2>3, PageFreed
  <1>13. \A x \in Page :
             /\ pl2[x] = IF x = p THEN <<"idle", s>> ELSE pl[x]
             /\ pl[x] = <<"list", d>> /\ x # p => page'[x] = page[x]
    BY <1>11, <1>12, Places
  <1>14. \A e \in Descs : pl2[p] # <<"list", e>> /\ pl2[p] # <<"new", e>>
    BY <1>9, <1>13, Places
  <1>15. DescInv(pl2, page', d, r2)
    <2>1. /\ PagesAt(pl2, <<"list", d>>) = PagesAt(pl, <<"list", d>>) \ {p}
          /\ PagesAt(pl2, <<"new", d>>) = PagesAt(pl, <<"new", d>>)
      BY <1>9, <1>13, <1>14, Places DEF PagesAt
    <2>2. ListInv(pl2, page', d, r2)
      <3>1. PICK rest \in Seq(Page), end \in Link :
                /\ IsList(rest, NextIn(page)[p], end, NextIn(page))
                /\ Range(rest) = Range(q) \ {p}
        <4>1. last \in Link /\ NullPos \in Link
          BY DEF Link
        <4>2. /\ IsList(Tail(q), NextIn(page)[p],
                        IF NextIn(page)[p] = NullPos THEN NullPos ELSE last,
                        NextIn(page))
              /\ Range(Tail(q)) = Range(q) \ {p} /\ Tail(q) \in Seq(Page)
          BY <1>3, <1>8, ListTail
        <4> QED BY <4>1, <4>2
      <3>2. NextIn(page)[p] = page[p].next
        BY <1>9 DEF NextIn
      <3>3. \A x \in Range(rest) : NextIn(page')[x] = NextIn(page)[x]
        BY <1>8, <1>13, <3>1 DEF NextIn, PagesAt
      <3>4. IsList(rest, page[p].next, end, NextIn(page'))
        BY <3>1, <3>2, <3>3, ListFrame
      <3> QED BY <1>5, <1>8, <2>1, <3>1, <3>4 DEF ListInv
    <2>3. QueueInv(pl2, page', d, r2)
      BY <1>5 DEF QueueInv
    <2>4. NewInv(pl2, d, r2)
      BY <1>5, <1>6, <2>1 DEF DescInv, NewInv
    <2>5. GivenInv(pl2, d, r2)
      BY <1>5, <1>7, EmptyRange DEF GivenInv
    <2>6. SlotInv(pl2, page', d, r2)
      BY <1>5 DEF SlotInv, Live
    <2>7. RequestInv(r2)
      BY <1>5, <1>6 DEF DescInv, RequestInv
    <2> QED BY <2>2, <2>3, <2>4, <2>5, <2>6, <2>7 DEF DescInv
  <1>16. Shape'
    <2>1. walk' \in [Descs -> Link]
      BY <1>4, <1>9 DEF Shape, PageHeader
    <2> QED BY <1>4, <1>12, <2>1 DEF Shape
  <1>17. ASSUME NEW e \in Descs, e # d
         PROVE  RequestAfter(e) = Request(e) /\ DescSame(e, pl, page, pl2, page')
    <2>1. RequestAfter(e) = Request(e)
      BY <1>4, <1>17 DEF Shape, Request, RequestAfter
    <2>2. \A x \in Page : pl[x] \in {<<"list", e>>, <<"new", e>>}
                              => pl[x] # <<"idle", s>> /\ x # p
      BY <1>9, <1>17, Places
    <2>3. DescSame(e, pl, page, pl2, page')
      BY <1>12, <1>13, <1>14, <2>2 DEF DescSame
    <2> QED BY <2>1, <2>3
  <1> QED BY <1>2, <1>12, <1>15, <1>16, <1>17, StepOf

\* Slots are taken from page p, whose header is pg.
Takes(p, pg, n, taken, rest, slots) ==
    /\ taken \in Seq(Nat) /\ rest \in Seq(Nat) /\ slots \in Seq(Page \X Nat)
    /\ taken = Taken(pg.idle, n) /\ slots = Slots(p, taken)
    /\ allocateNode(pg, n) = [next |-> pg.next, nextNotFull |-> pg.nextNotFull,
                              idleNum |-> Len(rest), idle |-> rest]
    /\ Distinct(rest) /\ Distinct(slots)
    /\ Len(taken) \in Nat /\ Len(slots) = Len(taken)
    /\ Len(taken) = IF n < pg.idleNum THEN n ELSE pg.idleNum
    /\ Len(rest) = pg.idleNum - Len(taken) /\ Len(rest) \in Nat
    /\ Range(slots) = {<<p, i>> : i \in Range(taken)}
    /\ Range(taken) \cap Range(rest) = {}
    /\ Range(taken) \cup Range(rest) = Range(pg.idle)

LEMMA SlotsTaken ==
    ASSUME NEW p \in Page, NEW pg \in PageHeader, pg.idleNum = Len(pg.idle),
           Distinct(pg.idle), NEW n \in Nat
    PROVE  \E taken, rest, slots : Takes(p, pg, n, taken, rest, slots)
  <1> DEFINE taken == Taken(pg.idle, n)
             rest == SubSeq(pg.idle, Len(taken) + 1, Len(pg.idle))
             slots == Slots(p, taken)
  <1>1. pg.idle \in Seq(Nat) /\ pg.idleNum \in Nat
    BY DEF PageHeader
  <1>2. /\ taken \in Seq(Nat) /\ Distinct(taken)
        /\ rest \in Seq(Nat) /\ Distinct(rest)
        /\ Len(taken) = IF n < Len(pg.idle) THEN n ELSE Len(pg.idle)
        /\ Len(taken) \in Nat /\ Len(rest) = Len(pg.idle) - Len(taken)
        /\ Range(taken) \cap Range(rest) = {}
        /\ Range(taken) \cup Range(rest) = Range(pg.idle)
    BY <1>1, TakenRange
  <1>3. /\ slots \in Seq(Page \X Nat) /\ Len(slots) = Len(taken)
        /\ Range(slots) = {<<p, i>> : i \in Range(taken)} /\ Distinct(slots)
    BY <1>2, SlotsRange
  <1>4. allocateNode(pg, n)
        = [pg EXCEPT !.idle = rest, !.idleNum = pg.idleNum - Len(taken)]
    BY DEF allocateNode
  <1> HIDE DEF rest, slots, taken
  <1>5. allocateNode(pg, n) = [next |-> pg.next, nextNotFull |-> pg.nextNotFull,
                               idleNum |-> Len(rest), idle |-> rest]
    BY <1>2, <1>4 DEF PageHeader
  <1>6. Len(rest) \in Nat
    BY <1>1, <1>2
  <1>7. taken = Taken(pg.idle, n) /\ slots = Slots(p, taken)
    BY DEF taken, slots
  <1>8. Takes(p, pg, n, taken, rest, slots)
    BY <1>2, <1>3, <1>5, <1>6, <1>7 DEF Takes
  <1> QED BY <1>8

\* The first page of the not-full queue gives slots.
LEMMA AllocateMemOld ==
    ASSUME Shape, NEW pl \in [Page -> Place], PlacesInv(pl), NEW d \in Descs,
           allocateMem_old(d)
    PROVE  IInv'
  <1> DEFINE p == desc[d].firstNotFull
             taken == Taken(page[p].idle, need[d])
             full == Len(taken) = page[p].idleNum
             follow == page[p].nextNotFull
             left == need[d] - Len(taken)
             got == old[d] \o Slots(p, taken)
  <1>1. PICK r : r = Request(d)
    OBVIOUS
  <1>2. PICK r2 : r2 = RequestAfter(d)
    OBVIOUS
  <1>3. DescInv(pl, page, d, r)
    BY <1>1 DEF PlacesInv
  <1>4. /\ page' = [page EXCEPT ![p] =
                       [allocateNode(page[p], need[d]) EXCEPT
                           !.nextNotFull = IF full THEN NullPos ELSE follow]]
        /\ desc' = IF full
                   THEN [desc EXCEPT ![d].firstNotFull = follow,
                                     ![d].lastNotFull =
                                         IF follow = NullPos THEN follow ELSE @]
                   ELSE desc
        /\ UNCHANGED <<space, newPages, walk>>
    BY DEF allocateMem_old
  <1>5. /\ left = 0 =>
               /\ pc' = [pc EXCEPT ![d] = "idle"] /\ need' = [need EXCEPT ![d] = 0]
               /\ old' = [old EXCEPT ![d] = <<>>] /\ new' = [new EXCEPT ![d] = <<>>]
               /\ nth' = [nth EXCEPT ![d] = 1]
               /\ used' = [used EXCEPT ![d] = used[d] \cup Range(got)]
        /\ left # 0 =>
               /\ pc' = [pc EXCEPT ![d] = IF full /\ follow = NullPos THEN "new"
                                          ELSE "old"]
               /\ need' = [need EXCEPT ![d] = left]
               /\ old' = [old EXCEPT ![d] = got]
               /\ UNCHANGED <<used, new, nth>>
    BY DEF allocateMem_old, Goto, Forget
  <1>6. /\ r.desc = desc[d] /\ r.used = used[d] /\ r.pc = pc[d] /\ r.need = need[d]
        /\ r.old = old[d] /\ r.new = new[d] /\ r.newPages = newPages[d]
        /\ r.walk = walk[d] /\ pc[d] = "old"
    BY <1>1 DEF Request, allocateMem_old
  <1> HIDE DEF p, taken, full, follow, left, got
  <1>7. /\ r.new = <<>> /\ Range(r.new) = {} /\ r.newPages = <<>>
        /\ Len(r.new) = 0 /\ Len(<<>>) = 0 /\ Range(<<>>) = {} /\ Distinct(<<>>)
        /\ r.need > 0 /\ r.need \in Nat
        /\ r.desc.firstNotFull # NullPos
        /\ r.need + Len(r.old) + Len(r.new) \in 1..MaxRequest
    BY <1>3, <1>6, EmptyRange DEF DescInv, RequestInv, Shape
  <1>8. PICK q \in Seq(Page) :
            /\ IsList(q, p, desc[d].lastNotFull, NextNotFullIn(page))
            /\ Range(q) = {x \in PagesAt(pl, <<"list", d>>) : page[x].idleNum > 0}
    BY <1>3, <1>6 DEF DescInv, QueueInv, p
  <1>9. p \in Page /\ pl[p] = <<"list", d>> /\ page[p].idleNum > 0 /\ p # NullPos
    BY <1>6, <1>7, <1>8, ListEnds DEF PagesAt, p
  <1>10. /\ page[p] \in PageHeader /\ page[p].idleNum = Len(page[p].idle)
         /\ page[p].idleNum \in Nat
         /\ Distinct(page[p].idle) /\ Range(page[p].idle) = Ungiven(d, r, p)
    BY <1>3, <1>6, <1>9 DEF Shape, PageHeader, DescInv, SlotInv, Live
  <1>11. PICK rest, slots : Takes(p, page[p], need[d], taken, rest, slots)
    <2>1. PICK t, rest, slots : Takes(p, page[p], need[d], t, rest, slots)
      BY <1>6, <1>7, <1>9, <1>10, SlotsTaken
    <2>2. t = taken
      BY <2>1 DEF Takes, taken
    <2> QED BY <2>1, <2>2
  <1>12. Range(slots) \cap Given(r) = {}
    BY <1>10, <1>11 DEF Ungiven, Takes
  <1>13. /\ got \in Seq(Page \X Nat) /\ Len(got) = Len(r.old) + Len(taken)
         /\ Range(got) = Range(r.old) \cup Range(slots) /\ Distinct(got)
         /\ Len(r.old) \in Nat
    <2>1. /\ r.old \in Seq(Page \X Nat) /\ Distinct(r.old)
          /\ Range(r.old) \cap Range(slots) = {}
      BY <1>3, <1>6, <1>12 DEF Shape, DescInv, GivenInv, Given
    <2>2. /\ slots \in Seq(Page \X Nat) /\ Distinct(slots)
          /\ Len(slots) = Len(taken) /\ slots = Slots(p, taken)
      BY <1>11 DEF Takes
    <2>3. PICK first \in Seq(Page \X Nat), second \in Seq(Page \X Nat) :
              first = r.old /\ second = slots
      BY <2>1, <2>2
    <2>4. got = first \o second
      BY <1>6, <2>2, <2>3 DEF got
    <2>5. /\ Distinct(first) /\ Distinct(second)
          /\ Range(first) \cap Range(second) = {}
      BY <2>1, <2>2, <2>3
    <2>6. /\ got \in Seq(Page \X Nat) /\ Len(got) = Len(first) + Len(second)
          /\ Range(got) = Range(first) \cup Range(second) /\ Distinct(got)
      BY <2>4, <2>5, ConcatRange
    <2> QED BY <2>1, <2>2, <2>3, <2>6, InRange, ZenonT(30)
  <1>14. /\ page'[p] \in PageHeader /\ page'[p].next = page[p].next
         /\ page'[p].idle = rest /\ page'[p].idleNum = Len(rest)
         /\ page'[p].nextNotFull = IF full THEN NullPos ELSE follow
         /\ \A x \in Page : x # p => page'[x] = page[x]
    <2>1. /\ rest \in Seq(Nat) /\ Len(rest) \in Nat
          /\ allocateNode(page[p], need[d])
             = [next |-> page[p].next, nextNotFull |-> page[p].nextNotFull,
                idleNum |-> Len(rest), idle |-> rest]
      BY <1>11 DEF Takes
    <2>2. page \in [Page -> PageHeader]
      BY DEF Shape
    <2>3. page'[p] = [allocateNode(page[p], need[d]) EXCEPT
                         !.nextNotFull = IF full THEN NullPos ELSE follow]
      BY <1>4, <1>9, <2>2
    <2>4. page'[p] = [next |-> page[p].next,
                      nextNotFull |-> IF full THEN NullPos ELSE follow,
                      idleNum |-> Len(rest), idle |-> rest]
      BY <2>1, <2>3
    <2>5. NullPos \in Link /\ page[p].next \in Link /\ follow \in Link
      BY <1>10 DEF Link, PageHeader, follow
    <2>6. page'[p] \in PageHeader
      BY <2>1, <2>4, <2>5 DEF PageHeader
    <2>7. \A x \in Page : x # p => page'[x] = page[x]
      BY <1>4, <2>2
    <2> QED BY <2>4, <2>6, <2>7
  <1>15. page' \in [Page -> PageHeader]
    <2>1. page' = [x \in Page |-> page'[x]] /\ page \in [Page -> PageHeader]
      BY <1>4 DEF Shape
    <2> QED BY <1>14, <2>1
  <1>16. \A x \in Page : page'[x].idleNum = Len(page'[x].idle)
    BY <1>14 DEF Shape
  <1>17. /\ desc' \in [Descs -> DescHeader]
         /\ \A e \in Descs : e # d => desc'[e] = desc[e]
         /\ desc'[d].first = desc[d].first /\ desc'[d].last = desc[d].last
         /\ full => /\ desc'[d].firstNotFull = follow
                    /\ desc'[d].lastNotFull = IF follow = NullPos THEN NullPos
                                              ELSE desc[d].lastNotFull
         /\ ~full => desc'[d] = desc[d]
    <2>1. desc \in [Descs -> DescHeader] /\ desc[d] \in DescHeader
      BY DEF Shape
    <2>2. NullPos \in Link /\ follow \in Link
      BY <1>10 DEF Link, PageHeader, follow
    <2>3. CASE full
      <3>1. desc'[d] = [first |-> desc[d].first, last |-> desc[d].last,
                        firstNotFull |-> follow,
                        lastNotFull |-> IF follow = NullPos THEN NullPos
                                        ELSE desc[d].lastNotFull]
        BY <1>4, <2>1, <2>3 DEF DescHeader
      <3>2. desc'[d] \in DescHeader
        BY <2>1, <2>2, <3>1 DEF DescHeader
      <3>3. \A e \in Descs : e # d => desc'[e] = desc[e]
        BY <1>4, <2>1, <2>3
      <3>4. desc' = [e \in Descs |-> desc'[e]]
        BY <1>4, <2>1, <2>3
      <3> QED BY <2>1, <2>3, <3>1, <3>2, <3>3, <3>4
    <2>4. CASE ~full
      BY <1>4, <2>1, <2>4
    <2> QED BY <2>3, <2>4
  <1>18. full <=> Len(rest) = 0
    BY <1>10, <1>11 DEF full, Takes
  <1>19. /\ r2.desc = desc'[d] /\ r2.newPages = <<>> /\ r2.new = <<>>
         /\ r2.walk = r.walk /\ r2.pc # "truncate" /\ r.pc # "truncate"
         /\ left = 0 => /\ r2.used = r.used \cup Range(got) /\ r2.old = <<>>
                        /\ r2.need = 0 /\ r2.pc = "idle"
         /\ left # 0 => /\ r2.used = r.used /\ r2.old = got /\ r2.need = left
                        /\ r2.pc = IF full /\ follow = NullPos THEN "new" ELSE "old"
    <2>1. /\ r2.desc = desc'[d] /\ r2.used = used'[d] /\ r2.pc = pc'[d]
          /\ r2.need = need'[d] /\ r2.old = old'[d] /\ r2.new = new'[d]
          /\ r2.newPages = newPages'[d] /\ r2.walk = walk'[d]
      BY <1>2 DEF RequestAfter
    <2>2. CASE left = 0
      BY <1>4, <1>5, <1>6, <1>7, <2>1, <2>2 DEF Shape
    <2>3. CASE left # 0
      BY <1>4, <1>5, <1>6, <1>7, <2>1, <2>3, ZenonT(30) DEF Shape
    <2> QED BY <2>2, <2>3
  <1>20. /\ Given(r2) = Given(r) \cup Range(slots)
         /\ Range(r2.new) = {} /\ Distinct(r2.new)
    <2>1. CASE left = 0
      BY <1>7, <1>13, <1>19, <2>1 DEF Given
    <2>2. CASE left # 0
      BY <1>7, <1>13, <1>19, <2>2 DEF Given
    <2> QED BY <2>1, <2>2
  <1>21. ListInv(pl, page', d, r2)
    <2>1. ListSame(d, pl, page, r, pl, page', r2)
      BY <1>6, <1>14, <1>17, <1>19 DEF ListSame
    <2> QED BY <1>3, <2>1, ListKept DEF DescInv
  <1>22. QueueInv(pl, page', d, r2)
    <2>1. CASE ~full
      <3>1. QueueSame(d, pl, page, r, pl, page', r2)
        BY <1>6, <1>9, <1>11, <1>14, <1>17, <1>18, <1>19, <2>1
           DEF QueueSame, follow, Takes
      <3> QED BY <1>3, <3>1, QueueKept DEF DescInv
    <2>2. CASE full
      <3>1. NextNotFullIn(page)[p] = follow
        BY <1>9 DEF NextNotFullIn, follow
      <3>2. PICK q2 \in Seq(Page) :
                /\ IsList(q2, desc'[d].firstNotFull, desc'[d].lastNotFull,
                          NextNotFullIn(page))
                /\ Range(q2) = Range(q) \ {p}
        <4>1. /\ IsList(Tail(q), NextNotFullIn(page)[p],
                        IF NextNotFullIn(page)[p] = NullPos THEN NullPos
                        ELSE desc[d].lastNotFull, NextNotFullIn(page))
              /\ Range(Tail(q)) = Range(q) \ {p} /\ Tail(q) \in Seq(Page)
          BY <1>8, <1>9, ListTail
        <4> QED BY <1>17, <2>2, <3>1, <4>1
      <3>3. \A x \in Range(q2) : NextNotFullIn(page')[x] = NextNotFullIn(page)[x]
        BY <1>8, <1>14, <3>2 DEF NextNotFullIn, PagesAt
      <3>4. IsList(q2, desc'[d].firstNotFull, desc'[d].lastNotFull,
                   NextNotFullIn(page'))
        BY <3>2, <3>3, ListFrame
      <3>5. page'[p].idleNum = 0 /\ page'[p].nextNotFull = NullPos
        BY <1>14, <1>18, <2>2
      <3>6. Range(q2) = {x \in PagesAt(pl, <<"list", d>>) : page'[x].idleNum > 0}
        BY <1>8, <1>14, <3>2, <3>5 DEF PagesAt
      <3>7. \A x \in PagesAt(pl, <<"list", d>>) :
                page'[x].idleNum > 0 \/ page'[x].nextNotFull = NullPos
        BY <1>3, <1>14, <1>19, <3>5 DEF DescInv, QueueInv, PagesAt
      <3> QED BY <1>19, <3>4, <3>6, <3>7 DEF QueueInv
    <2> QED BY <2>1, <2>2
  <1>23. NewInv(pl, d, r2)
    BY <1>3, <1>7, <1>19 DEF DescInv, NewInv
  <1>24. GivenInv(pl, d, r2)
    <2>1. Range(slots) \subseteq SlotsAt(pl, <<"list", d>>, d)
      <3>1. Range(taken) \subseteq 1..SlotNum[d]
        BY <1>10, <1>11 DEF Takes, Ungiven
      <3> QED BY <1>9, <1>11, <3>1 DEF Takes, SlotsAt, PagesAt
    <2>2. /\ r.used \subseteq SlotsAt(pl, <<"list", d>>, d)
          /\ Range(r.old) \subseteq SlotsAt(pl, <<"list", d>>, d)
          /\ r.used \cap Range(r.old) = {} /\ r.used \cap Range(slots) = {}
      BY <1>3, <1>12 DEF DescInv, GivenInv, Given
    <2>3. CASE left = 0
      <3>1. /\ r2.used = r.used \cup Range(r.old) \cup Range(slots)
            /\ Range(r2.old) = {} /\ Distinct(r2.old)
        BY <1>7, <1>13, <1>19, <2>3
      <3> QED BY <1>20, <2>1, <2>2, <3>1 DEF GivenInv
    <2>4. CASE left # 0
      <3>1. /\ r2.used = r.used /\ Range(r2.old) = Range(r.old) \cup Range(slots)
            /\ Distinct(r2.old)
        BY <1>13, <1>19, <2>4
      <3> QED BY <1>20, <2>1, <2>2, <3>1 DEF GivenInv
    <2> QED BY <2>3, <2>4
  <1>25. SlotInv(pl, page', d, r2)
    <2> SUFFICES ASSUME NEW x \in Page, Live(pl, d, r2, x)
                 PROVE  /\ Distinct(page'[x].idle)
                        /\ Range(page'[x].idle) = Ungiven(d, r2, x)
      BY DEF SlotInv
    <2>1. pl[x] = <<"list", d>>
      BY <1>3, <1>7 DEF Live, DescInv, NewInv, PagesAt
    <2>2. Distinct(page[x].idle) /\ Range(page[x].idle) = Ungiven(d, r, x)
      BY <1>3, <1>19, <2>1 DEF DescInv, SlotInv, Live
    <2>3. CASE x # p
      <3>1. \A i : <<x, i>> \notin Range(slots)
        BY <1>11, <2>3 DEF Takes
      <3>2. Ungiven(d, r2, x) = Ungiven(d, r, x)
        BY <1>20, <3>1 DEF Ungiven
      <3> QED BY <1>14, <2>2, <2>3, <3>2
    <2>4. CASE x = p
      <3>1. \A i : <<p, i>> \in Range(slots) <=> i \in Range(taken)
        BY <1>11 DEF Takes
      <3>2. Ungiven(d, r2, p) = Ungiven(d, r, p) \ Range(taken)
        BY <1>20, <3>1 DEF Ungiven
      <3>3. Distinct(rest) /\ Range(rest) = Range(page[p].idle) \ Range(taken)
        BY <1>11 DEF Takes
      <3> QED BY <1>10, <1>14, <2>4, <3>2, <3>3
    <2> QED BY <2>3, <2>4
  <1>26. RequestInv(r2)
    <2>1. Len(taken) = IF r.need < page[p].idleNum THEN r.need ELSE page[p].idleNum
      BY <1>6, <1>11 DEF Takes
    <2>2. left = r.need - Len(taken)
      BY <1>6 DEF left
    <2>3. CASE left = 0
      BY <1>19, <2>3 DEF RequestInv
    <2>4. CASE left # 0
      <3>1. left \in Nat /\ left > 0 /\ full
        BY <1>7, <1>10, <2>1, <2>2, <2>4 DEF full
      <3>2. r2.need + Len(r2.old) + Len(r2.new)
            = r.need + Len(r.old) + Len(r.new)
        <4>1. /\ r2.need = r.need - Len(taken) /\ Len(r2.new) = 0
              /\ Len(r2.old) = Len(r.old) + Len(taken)
          BY <1>7, <1>13, <1>19, <2>2, <2>4
        <4>2. Len(taken) \in Nat /\ Len(r.old) \in Nat
          BY <1>11, <1>13 DEF Takes
        <4> QED BY <1>7, <4>1, <4>2
      <3>3. follow # NullPos => r2.desc.firstNotFull # NullPos
        BY <1>17, <1>19, <3>1
      <3> QED BY <1>7, <1>19, <2>4, <3>1, <3>2, <3>3 DEF RequestInv
    <2> QED BY <2>3, <2>4
  <1>27. DescInv(pl, page', d, r2)
    BY <1>21, <1>22, <1>23, <1>24, <1>25, <1>26 DEF DescInv
  <1>28. Shape'
    <2>1. left \in Nat
      BY <1>6, <1>7, <1>10, <1>11 DEF left, Takes
    <2>2. /\ pc \in [Descs -> PCs] /\ need \in [Descs -> Nat]
          /\ nth \in [Descs -> Nat \ {0}] /\ used \in [Descs -> SUBSET (Page \X Nat)]
          /\ old \in [Descs -> Seq(Page \X Nat)]
          /\ new \in [Descs -> Seq(Page \X Nat)]
      BY DEF Shape
    <2>3. <<>> \in Seq(Page \X Nat) /\ Range(got) \subseteq Page \X Nat
      BY <1>13, EmptyRange, InRange
    <2>4. /\ pc' \in [Descs -> PCs] /\ need' \in [Descs -> Nat]
          /\ nth' \in [Descs -> Nat \ {0}] /\ used' \in [Descs -> SUBSET (Page \X Nat)]
          /\ old' \in [Descs -> Seq(Page \X Nat)]
          /\ new' \in [Descs -> Seq(Page \X Nat)]
      <3>1. CASE left = 0
        <4>1. pc' = [pc EXCEPT ![d] = "idle"] /\ "idle" \in PCs
          BY <1>5, <3>1 DEF PCs
        <4>2. need' = [need EXCEPT ![d] = 0] /\ nth' = [nth EXCEPT ![d] = 1]
          BY <1>5, <3>1
        <4>3. old' = [old EXCEPT ![d] = <<>>] /\ new' = [new EXCEPT ![d] = <<>>]
          BY <1>5, <3>1
        <4>4. used' = [used EXCEPT ![d] = used[d] \cup Range(got)]
          BY <1>5, <3>1
        <4>5. pc' \in [Descs -> PCs]
          BY <2>2, <4>1
        <4>6. need' \in [Descs -> Nat] /\ nth' \in [Descs -> Nat \ {0}]
          BY <2>2, <4>2
        <4>7. /\ old' \in [Descs -> Seq(Page \X Nat)]
              /\ new' \in [Descs -> Seq(Page \X Nat)]
          BY <2>2, <2>3, <4>3
        <4>8. used' \in [Descs -> SUBSET (Page \X Nat)]
          BY <2>2, <2>3, <4>4
        <4> QED BY <4>5, <4>6, <4>7, <4>8
      <3>2. CASE left # 0
        <4>1. /\ pc' = [pc EXCEPT ![d] = IF full /\ follow = NullPos THEN "new"
                                         ELSE "old"]
              /\ "new" \in PCs /\ "old" \in PCs
          BY <1>5, <3>2 DEF PCs
        <4>2. need' = [need EXCEPT ![d] = left] /\ old' = [old EXCEPT ![d] = got]
              /\ UNCHANGED <<used, new, nth>>
          BY <1>5, <3>2
        <4>3. pc' \in [Descs -> PCs]
          BY <2>2, <4>1
        <4>4. need' \in [Descs -> Nat]
          BY <2>1, <2>2, <4>2
        <4>5. old' \in [Descs -> Seq(Page \X Nat)]
          BY <1>13, <2>2, <4>2
        <4> QED BY <2>2, <4>2, <4>3, <4>4, <4>5
      <3> QED BY <3>1, <3>2
    <2> QED BY <1>4, <1>15, <1>16, <1>17, <2>4 DEF Shape
  <1>29. \A s \in Spaces : IdleInv(pl, page', s, space'[s])
    <2>1. \A s \in Spaces : SpaceSame(s, pl, page, pl, page')
      BY <1>9, <1>14, Places DEF SpaceSame
    <2> QED BY <1>4, <2>1, SpaceKept, ZenonT(30) DEF PlacesInv
  <1>30. ASSUME NEW e \in Descs, e # d
         PROVE  RequestAfter(e) = Request(e) /\ DescSame(e, pl, page, pl, page')
    <2>1. RequestAfter(e) = Request(e)
      <3>1. /\ used'[e] = used[e] /\ pc'[e] = pc[e] /\ need'[e] = need[e]
            /\ old'[e] = old[e] /\ new'[e] = new[e]
        BY <1>5, <1>30 DEF Shape
      <3> QED BY <1>4, <1>17, <1>30, <3>1 DEF Request, RequestAfter
    <2>2. pl[p] # <<"list", e>> /\ pl[p] # <<"new", e>>
      BY <1>9, <1>30, Places
    <2>3. DescSame(e, pl, page, pl, page')
      BY <1>14, <2>2 DEF DescSame
    <2> QED BY <2>1, <2>3
  <1> QED BY <1>2, <1>27, <1>28, <1>29, <1>30, StepOf

\* A space gives its first idle page.
LEMMA AllocatePage ==
    ASSUME Shape, NEW pl \in [Page -> Place], PlacesInv(pl), NEW d \in Descs,
           allocatePage(d)
    PROVE  IInv'
  <1> DEFINE s == SpaceList[d][nth[d]]
             p == space[s].first
             fresh == [page[p] EXCEPT !.idle = initSlotList(d),
                                      !.idleNum = SlotNum[d]]
             taken == Taken(fresh.idle, need[d])
  <1>1. PICK r : r = Request(d)
    OBVIOUS
  <1>2. PICK r2 : r2 = RequestAfter(d)
    OBVIOUS
  <1>3. DescInv(pl, page, d, r)
    BY <1>1 DEF PlacesInv
  <1>4. /\ pc[d] = "new" /\ need[d] > 0 /\ nth[d] <= Len(SpaceList[d])
        /\ space[s].idleNum > 0 /\ takePage(s)
        /\ page' = [page EXCEPT ![p] = allocateNode(fresh, need[d])]
        /\ newPages' = [newPages EXCEPT ![d] = Append(newPages[d], p)]
        /\ new' = [new EXCEPT ![d] = new[d] \o Slots(p, taken)]
        /\ need' = [need EXCEPT ![d] = need[d] - Len(taken)]
        /\ UNCHANGED <<desc, used, pc, old, nth, walk>>
    BY DEF allocatePage
  <1>5. s \in Spaces
    <2>1. SpaceList[d] \in Seq(Spaces)
      BY DescsAssumption
    <2>2. nth[d] \in Nat \ {0} /\ Len(SpaceList[d]) \in Nat
      BY <2>1, LenProperties DEF Shape
    <2>3. nth[d] <= Len(SpaceList[d])
      BY <1>4
    <2>4. nth[d] \in 1..Len(SpaceList[d])
      BY <2>2, <2>3
    <2> QED BY <2>1, <2>4, ElementOfSeq
  <1>6. space' = [space EXCEPT ![s] =
                     [first |-> page[p].next,
                      last |-> IF page[p].next = NullPos THEN NullPos
                               ELSE space[s].last,
                      idleNum |-> space[s].idleNum - 1]]
    BY <1>4 DEF takePage
  <1>7. PICK q \in Seq(Page) :
            /\ IsList(q, p, space[s].last, NextIn(page))
            /\ Range(q) = PagesAt(pl, <<"idle", s>>)
            /\ Len(q) = space[s].idleNum
    BY <1>5 DEF PlacesInv, IdleInv
  <1> HIDE DEF s, p
  <1>8. p \in Page /\ pl[p] = <<"idle", s>> /\ p # NullPos
    <2>1. q # <<>>
      BY <1>4, <1>7, EmptyRange
    <2> QED BY <1>7, <2>1, ListEnds DEF PagesAt
  <1>9. /\ page \in [Page -> PageHeader] /\ page[p] \in PageHeader
        /\ SlotNum[d] \in Nat \ {0} /\ need[d] \in Nat
        /\ space \in [Spaces -> SpaceHeader] /\ space[s] \in SpaceHeader
        /\ new[d] \in Seq(Page \X Nat) /\ newPages[d] \in Seq(Page)
    BY <1>5, <1>8, DescsAssumption DEF Shape
  <1>10. /\ initSlotList(d) \in Seq(Nat) /\ Len(initSlotList(d)) = SlotNum[d]
         /\ Distinct(initSlotList(d)) /\ Range(initSlotList(d)) = 1..SlotNum[d]
    <2> DEFINE l == [i \in 1..SlotNum[d] |-> i]
    <2>1. l \in Seq(Nat) /\ Len(l) = SlotNum[d] /\ DOMAIN l = 1..SlotNum[d]
      BY <1>9
    <2>2. \A i \in 1..SlotNum[d] : l[i] = i
      OBVIOUS
    <2>3. initSlotList(d) = l
      BY DEF initSlotList
    <2> HIDE DEF l
    <2>4. Distinct(l)
      BY <2>1, <2>2 DEF Distinct
    <2>5. Range(l) = 1..SlotNum[d]
      BY <2>1, <2>2 DEF Range
    <2> QED BY <2>1, <2>3, <2>4, <2>5
  <1>11. /\ fresh \in PageHeader /\ fresh.next = page[p].next
         /\ fresh.idle = initSlotList(d) /\ fresh.idleNum = SlotNum[d]
    BY <1>9, <1>10 DEF PageHeader
  <1> HIDE DEF fresh
  <1>12. PICK rest, slots : Takes(p, fresh, need[d], taken, rest, slots)
    <2>1. PICK t, rest, slots : Takes(p, fresh, need[d], t, rest, slots)
      BY <1>8, <1>9, <1>10, <1>11, SlotsTaken
    <2>2. t = taken
      BY <2>1 DEF Takes
    <2> QED BY <2>1, <2>2
  <1> HIDE DEF taken
  <1>13. PICK pl2 : pl2 = [pl EXCEPT ![p] = <<"new", d>>]
    OBVIOUS
  <1>14. /\ pl2 \in [Page -> Place]
         /\ \A x \in Page : pl2[x] = IF x = p THEN <<"new", d>> ELSE pl[x]
    BY <1>8, <1>13, Places
  <1>15. \A e \in Descs : /\ pl[p] # <<"list", e>> /\ pl2[p] # <<"list", e>>
                          /\ pl[p] # <<"new", e>>
                          /\ e # d => pl2[p] # <<"new", e>>
    BY <1>8, <1>14, Places
  <1>16. /\ page'[p] \in PageHeader /\ page'[p].idle = rest
         /\ page'[p].idleNum = Len(page'[p].idle)
         /\ \A x \in Page : x # p => page'[x] = page[x]
    <2>1. /\ rest \in Seq(Nat) /\ Len(rest) \in Nat
          /\ allocateNode(fresh, need[d])
             = [next |-> fresh.next, nextNotFull |-> fresh.nextNotFull,
                idleNum |-> Len(rest), idle |-> rest]
      BY <1>12 DEF Takes
    <2>2. page'[p] = [next |-> fresh.next, nextNotFull |-> fresh.nextNotFull,
                      idleNum |-> Len(rest), idle |-> rest]
      BY <1>4, <1>8, <1>9, <2>1
    <2>3. fresh.next \in Link /\ fresh.nextNotFull \in Link
      BY <1>11 DEF PageHeader
    <2>4. page'[p] \in PageHeader
      BY <2>1, <2>2, <2>3 DEF PageHeader
    <2>5. \A x \in Page : x # p => page'[x] = page[x]
      BY <1>4, <1>9
    <2> QED BY <2>2, <2>4, <2>5
  <1>17. page' \in [Page -> PageHeader]
    <2>1. page' = [x \in Page |-> page'[x]]
      BY <1>4, <1>9
    <2> QED BY <1>9, <1>16, <2>1
  <1>18. /\ \A t \in Spaces : IdleInv(pl2, page', t, space'[t])
         /\ space' \in [Spaces -> SpaceHeader]
    <2>1. PICK q2 \in Seq(Page) :
              /\ IsList(q2, NextIn(page)[p],
                        IF NextIn(page)[p] = NullPos THEN NullPos
                        ELSE space[s].last, NextIn(page))
              /\ Range(q2) = Range(q) \ {p} /\ Len(q2) = Len(q) - 1
      BY <1>7, <1>8, ListTail
    <2>2. NextIn(page)[p] = page[p].next
      BY <1>8 DEF NextIn
    <2>3. space'[s] = [first |-> page[p].next,
                       last |-> IF page[p].next = NullPos THEN NullPos
                                ELSE space[s].last,
                       idleNum |-> space[s].idleNum - 1]
      BY <1>5, <1>6, <1>9
    <2>4. \A x \in Range(q2) : NextIn(page')[x] = NextIn(page)[x]
      BY <1>7, <1>16, <2>1 DEF NextIn, PagesAt
    <2>5. IsList(q2, space'[s].first, space'[s].last, NextIn(page))
      BY <2>1, <2>2, <2>3
    <2>6. IsList(q2, space'[s].first, space'[s].last, NextIn(page'))
      BY <2>4, <2>5, ListFrame
    <2>7. PagesAt(pl2, <<"idle", s>>) = PagesAt(pl, <<"idle", s>>) \ {p}
      BY <1>14, Places DEF PagesAt
    <2>8. PagesAt(pl, <<"idle", s>>) \subseteq Range(PageList[s])
      BY <1>5 DEF PlacesInv, IdleInv
    <2>9. IdleInv(pl2, page', s, space'[s])
      <3>1. Len(q2) = space'[s].idleNum
        BY <1>7, <2>1, <2>3
      <3>2. Range(q2) = PagesAt(pl2, <<"idle", s>>)
        BY <1>7, <2>1, <2>7
      <3> QED BY <2>6, <2>7, <2>8, <3>1, <3>2 DEF IdleInv
    <2>10. ASSUME NEW t \in Spaces, t # s PROVE IdleInv(pl2, page', t, space'[t])
      <3>1. SpaceSame(t, pl, page, pl2, page')
        BY <1>8, <1>14, <1>16, <2>10, Places DEF SpaceSame
      <3>2. space'[t] = space[t]
        BY <1>6, <1>9, <2>10
      <3>3. IdleInv(pl, page, t, space[t])
        BY DEF PlacesInv
      <3> QED BY <3>1, <3>2, <3>3, SpaceKept
    <2>11. space'[s] \in SpaceHeader
      <3>1. space[s].idleNum - 1 \in Nat
        BY <1>4, <1>9 DEF SpaceHeader
      <3>2. page[p].next \in Link /\ NullPos \in Link /\ space[s].last \in Link
        BY <1>9 DEF PageHeader, SpaceHeader, Link
      <3> QED BY <2>3, <3>1, <3>2 DEF SpaceHeader
    <2>12. space' \in [Spaces -> SpaceHeader]
      BY <1>6, <1>9, <2>11
    <2> QED BY <2>9, <2>10, <2>12
  <1>19. PICK more \in Seq(Page \X Nat) :
             /\ new' = [new EXCEPT ![d] = more]
             /\ Range(more) = Range(r.new) \cup Range(slots)
             /\ Len(more) = Len(r.new) + Len(taken)
             /\ Distinct(r.new) /\ Range(r.new) \cap Range(slots) = {}
                => Distinct(more)
    <2>1. PICK first \in Seq(Page \X Nat), second \in Seq(Page \X Nat) :
              /\ first = r.new /\ r.new = new[d]
              /\ second = slots /\ slots = Slots(p, taken)
              /\ Distinct(second) /\ Len(second) = Len(taken)
      BY <1>1, <1>9, <1>12 DEF Takes, Request
    <2>2. /\ first \o second \in Seq(Page \X Nat)
          /\ Len(first \o second) = Len(first) + Len(second)
          /\ Range(first \o second) = Range(first) \cup Range(second)
          /\ Distinct(first) /\ Range(first) \cap Range(second) = {}
             => Distinct(first \o second)
      BY <2>1, ConcatRange
    <2>3. new' = [new EXCEPT ![d] = first \o second]
      BY <1>4, <2>1
    <2> QED BY <2>1, <2>2, <2>3
  <1>20. PICK pages \in Seq(Page) :
             /\ newPages' = [newPages EXCEPT ![d] = pages]
             /\ Range(pages) = Range(r.newPages) \cup {p}
             /\ Distinct(r.newPages) /\ p \notin Range(r.newPages)
                => Distinct(pages)
    <2>1. PICK l \in Seq(Page) : l = r.newPages /\ l = newPages[d]
      BY <1>1, <1>9 DEF Request
    <2>2. /\ Append(l, p) \in Seq(Page) /\ Range(Append(l, p)) = Range(l) \cup {p}
          /\ Distinct(l) /\ p \notin Range(l) => Distinct(Append(l, p))
      BY <1>8, AppendRange
    <2>3. newPages' = [newPages EXCEPT ![d] = Append(l, p)]
      BY <1>4, <2>1
    <2> QED BY <2>1, <2>2, <2>3
  <1>21. /\ r2.desc = r.desc /\ r2.used = r.used /\ r2.old = r.old
         /\ r2.need = r.need - Len(taken) /\ r2.new = more
         /\ r2.newPages = pages /\ r2.walk = r.walk
         /\ r.pc = "new" /\ r2.pc = "new" /\ r.need > 0 /\ r.need \in Nat
         /\ r.need = need[d]
    BY <1>1, <1>2, <1>4, <1>9, <1>19, <1>20 DEF Request, RequestAfter, Shape
  <1>22. \A i : <<p, i>> \notin Given(r)
    BY <1>3, <1>15 DEF DescInv, GivenInv, Given, SlotsAt, PagesAt
  <1>23. /\ Given(r2) = Given(r) \cup Range(slots) /\ Range(slots) \cap Given(r) = {}
         /\ \A x, i : <<x, i>> \in Range(slots) <=> x = p /\ i \in Range(taken)
    BY <1>12, <1>19, <1>21, <1>22, SMTT(30) DEF Given, Takes
  <1>24. /\ Range(taken) \subseteq 1..SlotNum[d]
         /\ Range(rest) = (1..SlotNum[d]) \ Range(taken) /\ Distinct(rest)
    BY <1>10, <1>11, <1>12 DEF Takes
  <1>25. /\ PagesAt(pl2, <<"list", d>>) = PagesAt(pl, <<"list", d>>)
         /\ PagesAt(pl2, <<"new", d>>) = PagesAt(pl, <<"new", d>>) \cup {p}
    BY <1>8, <1>14, <1>15 DEF PagesAt
  <1>26. ListInv(pl2, page', d, r2)
    <2>1. ListSame(d, pl, page, r, pl2, page', r2)
      BY <1>14, <1>15, <1>16, <1>21 DEF ListSame
    <2> QED BY <1>3, <2>1, ListKept DEF DescInv
  <1>27. QueueInv(pl2, page', d, r2)
    <2>1. QueueSame(d, pl, page, r, pl2, page', r2)
      BY <1>14, <1>15, <1>16, <1>21 DEF QueueSame
    <2> QED BY <1>3, <2>1, QueueKept DEF DescInv
  <1>28. NewInv(pl2, d, r2)
    <2>1. p \notin Range(r.newPages)
      BY <1>3, <1>15 DEF DescInv, NewInv, PagesAt
    <2> QED BY <1>3, <1>20, <1>21, <1>25, <2>1 DEF DescInv, NewInv
  <1>29. GivenInv(pl2, d, r2)
    <2>1. Range(slots) \subseteq SlotsAt(pl2, <<"new", d>>, d)
      <3>1. Range(slots) = {<<p, i>> : i \in Range(taken)}
        BY <1>12 DEF Takes
      <3>2. p \in PagesAt(pl2, <<"new", d>>)
        BY <1>25
      <3> QED BY <1>24, <3>1, <3>2 DEF SlotsAt
    <2>2. /\ SlotsAt(pl2, <<"list", d>>, d) = SlotsAt(pl, <<"list", d>>, d)
          /\ SlotsAt(pl, <<"new", d>>, d) \subseteq SlotsAt(pl2, <<"new", d>>, d)
      BY <1>25 DEF SlotsAt
    <2>3. /\ Range(r.new) \subseteq SlotsAt(pl, <<"new", d>>, d)
          /\ r.used \subseteq SlotsAt(pl, <<"list", d>>, d)
          /\ Range(r.old) \subseteq SlotsAt(pl, <<"list", d>>, d)
          /\ Distinct(r.old) /\ Distinct(r.new)
          /\ r.used \cap Range(r.old) = {} /\ r.used \cap Range(r.new) = {}
          /\ Range(r.old) \cap Range(r.new) = {}
      BY <1>3, <1>21 DEF DescInv, GivenInv
    <2>4. /\ r.used \cap Range(slots) = {} /\ Range(r.old) \cap Range(slots) = {}
          /\ Range(r.new) \cap Range(slots) = {}
      BY <1>23 DEF Given
    <2>5. /\ Range(r2.new) = Range(r.new) \cup Range(slots) /\ Distinct(r2.new)
      BY <1>19, <1>21, <2>3, <2>4
    <2> QED BY <1>21, <2>1, <2>2, <2>3, <2>4, <2>5 DEF GivenInv
  <1>30. SlotInv(pl2, page', d, r2)
    <2> SUFFICES ASSUME NEW x \in Page, Live(pl2, d, r2, x)
                 PROVE  /\ Distinct(page'[x].idle)
                        /\ Range(page'[x].idle) = Ungiven(d, r2, x)
      BY DEF SlotInv
    <2>1. CASE x = p
      <3>1. Ungiven(d, r2, p) = (1..SlotNum[d]) \ Range(taken)
        BY <1>22, <1>23 DEF Ungiven
      <3> QED BY <1>16, <1>24, <2>1, <3>1
    <2>2. CASE x # p
      <3>1. Live(pl, d, r, x)
        BY <1>14, <1>21, <2>2 DEF Live
      <3>2. Distinct(page[x].idle) /\ Range(page[x].idle) = Ungiven(d, r, x)
        BY <1>3, <3>1 DEF DescInv, SlotInv
      <3>3. Ungiven(d, r2, x) = Ungiven(d, r, x)
        BY <1>23, <2>2 DEF Ungiven
      <3> QED BY <1>16, <2>2, <3>2, <3>3
    <2> QED BY <2>1, <2>2
  <1>31. Len(taken) \in Nat /\ r.need - Len(taken) \in Nat
    <2>1. /\ Len(taken) \in Nat
          /\ Len(taken) = IF r.need < SlotNum[d] THEN r.need ELSE SlotNum[d]
      BY <1>11, <1>12, <1>21 DEF Takes
    <2> QED BY <1>9, <1>21, <2>1
  <1>32. RequestInv(r2)
    <2>1. r.need + Len(r.old) + Len(r.new) \in 1..MaxRequest
      BY <1>3, <1>21 DEF DescInv, RequestInv
    <2>2. Len(r.old) \in Nat /\ Len(r.new) \in Nat
      <3>1. r.old \in Seq(Page \X Nat) /\ r.new \in Seq(Page \X Nat)
        BY <1>1 DEF Request, Shape
      <3> QED BY <3>1, InRange
    <2>3. r2.need + Len(r2.old) + Len(r2.new) = r.need + Len(r.old) + Len(r.new)
      <3>1. /\ r2.need = r.need - Len(taken) /\ Len(r2.old) = Len(r.old)
            /\ Len(r2.new) = Len(r.new) + Len(taken)
        BY <1>19, <1>21
      <3> QED BY <1>21, <1>31, <2>2, <3>1, SMTT(30)
    <2> QED BY <1>21, <2>1, <2>3 DEF RequestInv
  <1>33. DescInv(pl2, page', d, r2)
    BY <1>26, <1>27, <1>28, <1>29, <1>30, <1>32 DEF DescInv
  <1>34. Shape'
    <2>1. /\ need \in [Descs -> Nat] /\ new \in [Descs -> Seq(Page \X Nat)]
          /\ newPages \in [Descs -> Seq(Page)]
      BY DEF Shape
    <2>2. need' \in [Descs -> Nat]
      BY <1>4, <1>21, <1>31, <2>1
    <2>3. new' \in [Descs -> Seq(Page \X Nat)]
      BY <1>19, <2>1
    <2>4. newPages' \in [Descs -> Seq(Page)]
      BY <1>20, <2>1
    <2>5. \A x \in Page : page'[x].idleNum = Len(page'[x].idle)
      BY <1>16 DEF Shape
    <2> QED BY <1>4, <1>17, <1>18, <2>2, <2>3, <2>4, <2>5 DEF Shape
  <1>35. ASSUME NEW e \in Descs, e # d
         PROVE  RequestAfter(e) = Request(e) /\ DescSame(e, pl, page, pl2, page')
    <2>1. RequestAfter(e) = Request(e)
      <3>1. /\ need'[e] = need[e] /\ new'[e] = new[e]
            /\ newPages'[e] = newPages[e]
        BY <1>4, <1>35 DEF Shape
      <3> QED BY <1>4, <3>1 DEF Request, RequestAfter
    <2>2. DescSame(e, pl, page, pl2, page')
      BY <1>14, <1>15, <1>16, <1>35 DEF DescSame
    <2> QED BY <2>1, <2>2
  <1> QED BY <1>2, <1>14, <1>18, <1>33, <1>34, <1>35, StepOf

\* A page that is not in the list goes to its end.
CanEnlist(d, p, q, pg, ds) ==
    /\ pg \in [Page -> PageHeader] /\ ds \in [Descs -> DescHeader]
    /\ IsList(q, ds[d].first, ds[d].last, NextIn(pg))
    /\ d \in Descs /\ p \in Page /\ p \notin Range(q)
Enlisted(d, p, q, pg, ds, pg2, ds2) ==
    /\ \E q2 \in Seq(Page) : /\ IsList(q2, ds2[d].first, ds2[d].last, NextIn(pg2))
                             /\ Range(q2) = Range(q) \cup {p}
    /\ pg2 \in [Page -> PageHeader] /\ ds2 \in [Descs -> DescHeader]
    /\ \A x \in Page : /\ pg2[x].idle = pg[x].idle
                       /\ pg2[x].idleNum = pg[x].idleNum
                       /\ x # p => pg2[x].nextNotFull = pg[x].nextNotFull
                       /\ x # p /\ x \notin Range(q) => pg2[x] = pg[x]
    /\ pg2[p].nextNotFull = NullPos
    /\ ds2[d].firstNotFull = ds[d].firstNotFull
    /\ ds2[d].lastNotFull = ds[d].lastNotFull
    /\ \A e \in Descs : e # d => ds2[e] = ds[e]

LEMMA PageEnlisted ==
    ASSUME NEW d, NEW p, NEW q, NEW pg, NEW ds, CanEnlist(d, p, q, pg, ds),
           NEW m, m = Enlist([page |-> pg, desc |-> ds], d, p)
    PROVE  Enlisted(d, p, q, pg, ds, m.page, m.desc)
  <1> DEFINE last == ds[d].last
  <1> USE DEF CanEnlist
  <1>1. /\ Range(q) \subseteq Page /\ NullPos \notin Page
        /\ last # NullPos => last \in Range(q)
        /\ last # p
    BY ListEnds, PagesAssumption
  <1>2. ds[d] \in DescHeader
    OBVIOUS
  <1>3. /\ m.page = [x \in Page |->
                        IF x = p THEN [pg[x] EXCEPT !.next = NullPos,
                                                    !.nextNotFull = NullPos]
                        ELSE IF x = last THEN [pg[x] EXCEPT !.next = p]
                        ELSE pg[x]]
        /\ m.desc = [ds EXCEPT ![d].last = p,
                        ![d].first = IF last = NullPos THEN p ELSE @]
    BY DEF Enlist
  <1>4. m.desc[d] = [first |-> IF last = NullPos THEN p ELSE ds[d].first,
                     last |-> p, firstNotFull |-> ds[d].firstNotFull,
                     lastNotFull |-> ds[d].lastNotFull]
    BY <1>2, <1>3 DEF DescHeader
  <1>5. \A e \in Descs : e # d => m.desc[e] = ds[e]
    BY <1>3
  <1>6. m.desc \in [Descs -> DescHeader]
    <2>1. m.desc[d] \in DescHeader
      BY <1>2, <1>4 DEF DescHeader, Link
    <2>2. m.desc = [e \in Descs |-> m.desc[e]]
      BY <1>3
    <2> QED BY <1>5, <2>1, <2>2
  <1>7. ASSUME NEW x \in Page
        PROVE  /\ m.page[x] \in PageHeader
               /\ m.page[x].idle = pg[x].idle /\ m.page[x].idleNum = pg[x].idleNum
               /\ m.page[x].next = IF x = p THEN NullPos ELSE IF x = last THEN p
                                   ELSE pg[x].next
               /\ m.page[x].nextNotFull = IF x = p THEN NullPos
                                          ELSE pg[x].nextNotFull
               /\ x # p /\ x \notin Range(q) => m.page[x] = pg[x]
    <2>1. pg[x] \in PageHeader /\ NullPos \in Link /\ p \in Link
      BY DEF Link
    <2>2. CASE x = p
      <3>1. m.page[x] = [pg[x] EXCEPT !.next = NullPos, !.nextNotFull = NullPos]
        BY <1>3, <2>2
      <3> QED BY <2>1, <2>2, <3>1 DEF PageHeader
    <2>3. CASE x # p /\ x = last
      <3>1. m.page[x] = [pg[x] EXCEPT !.next = p]
        BY <1>3, <2>3
      <3> QED BY <1>1, <2>1, <2>3, <3>1 DEF PageHeader
    <2>4. CASE x # p /\ x # last
      BY <1>3, <2>1, <2>4
    <2> QED BY <2>2, <2>3, <2>4
  <1>8. m.page \in [Page -> PageHeader]
    <2>1. m.page = [x \in Page |-> m.page[x]]
      BY <1>3
    <2> QED BY <1>7, <2>1
  <1>9. LinkedAtEnd(q, ds[d].first, last, NextIn(pg), p, m.desc[d].first,
                    NextIn(m.page))
    <2>1. \A x \in Page : NextIn(m.page)[x] =
              IF x = p THEN NullPos ELSE IF x = last THEN p ELSE NextIn(pg)[x]
      BY <1>7 DEF NextIn
    <2>2. m.desc[d].first = IF last = NullPos THEN p ELSE ds[d].first
      BY <1>4
    <2> QED BY <1>1, <2>1, <2>2 DEF LinkedAtEnd
  <1>10. \E q2 \in Seq(Page) :
             /\ IsList(q2, m.desc[d].first, m.desc[d].last, NextIn(m.page))
             /\ Range(q2) = Range(q) \cup {p}
    <2>1. m.desc[d].last = p
      BY <1>4
    <2>2. /\ IsList(Append(q, p), m.desc[d].first, p, NextIn(m.page))
          /\ Append(q, p) \in Seq(Page) /\ Range(Append(q, p)) = Range(q) \cup {p}
      BY <1>9, ListAppend
    <2> QED BY <2>1, <2>2
  <1>11. /\ m.desc[d].firstNotFull = ds[d].firstNotFull
         /\ m.desc[d].lastNotFull = ds[d].lastNotFull
    BY <1>4
  <1> QED BY <1>5, <1>6, <1>7, <1>8, <1>10, <1>11 DEF Enlisted

\* The first of the new pages is linked.
LEMMA AllocateMemLink ==
    ASSUME Shape, NEW pl \in [Page -> Place], PlacesInv(pl), NEW d \in Descs,
           allocateMem_new(d), newPages[d] # <<>>
    PROVE  IInv'
  <1> DEFINE p == Head(newPages[d])
             listed == Enlist([page |-> page, desc |-> desc], d, p)
  <1>1. PICK r : r = Request(d)
    OBVIOUS
  <1>2. PICK r2 : r2 = RequestAfter(d)
    OBVIOUS
  <1>3. PICK m : m = addNewPageToDesc([page |-> page, desc |-> desc], d, p)
    OBVIOUS
  <1>4. PICK left : left = Tail(newPages[d])
    OBVIOUS
  <1>5. /\ page' = m.page /\ desc' = m.desc /\ pc[d] = "new" /\ need[d] = 0
        /\ newPages' = [newPages EXCEPT ![d] = left]
        /\ UNCHANGED <<space, used, pc, need, old, new, nth, walk>>
    BY <1>3, <1>4 DEF allocateMem_new
  <1>6. m = IF page[p].idleNum = 0 THEN listed ELSE Enqueue(listed, d, p)
    BY <1>3 DEF addNewPageToDesc
  <1> HIDE DEF p, listed
  <1>7. /\ r2.desc = desc'[d] /\ r2.used = r.used /\ r2.need = r.need
        /\ r2.old = r.old /\ r2.new = r.new /\ r.newPages = newPages[d]
        /\ r2.newPages = left /\ r2.walk = r.walk /\ r.need = 0
        /\ r.pc = "new" /\ r2.pc = "new" /\ r.desc = desc[d]
    BY <1>1, <1>2, <1>5 DEF Request, RequestAfter, Shape
  <1>8. DescInv(pl, page, d, r)
    BY <1>1 DEF PlacesInv
  <1>9. /\ p \in Range(r.newPages) /\ Range(left) = Range(r.newPages) \ {p}
        /\ Distinct(left) /\ left \in Seq(Page)
    <2>1. r.newPages \in Seq(Page) /\ Distinct(r.newPages)
      BY <1>7, <1>8 DEF Shape, DescInv, NewInv
    <2> QED BY <1>4, <1>7, <2>1, TailRange DEF p
  <1>10. p \in Page /\ pl[p] = <<"new", d>>
    BY <1>8, <1>9 DEF DescInv, NewInv, PagesAt
  <1>11. PICK pl2 : pl2 = [pl EXCEPT ![p] = <<"list", d>>]
    OBVIOUS
  <1>12. /\ pl2 \in [Page -> Place]
         /\ \A x \in Page : pl2[x] = IF x = p THEN <<"list", d>> ELSE pl[x]
    BY <1>10, <1>11, Places
  <1>13. /\ PagesAt(pl2, <<"list", d>>) = PagesAt(pl, <<"list", d>>) \cup {p}
         /\ PagesAt(pl2, <<"new", d>>) = PagesAt(pl, <<"new", d>>) \ {p}
         /\ p \notin PagesAt(pl, <<"list", d>>)
    BY <1>10, <1>12, Places DEF PagesAt
  <1>14. PICK q \in Seq(Page) :
             /\ IsList(q, desc[d].first, desc[d].last, NextIn(page))
             /\ Range(q) = PagesAt(pl, <<"list", d>>)
    BY <1>7, <1>8 DEF DescInv, ListInv
  <1>15. PICK nf \in Seq(Page) :
             /\ IsList(nf, desc[d].firstNotFull, desc[d].lastNotFull,
                       NextNotFullIn(page))
             /\ Range(nf) = {x \in PagesAt(pl, <<"list", d>>) : page[x].idleNum > 0}
    BY <1>7, <1>8 DEF DescInv, QueueInv
  <1>16. /\ page \in [Page -> PageHeader] /\ desc \in [Descs -> DescHeader]
         /\ \A x \in Page : page[x].idleNum = Len(page[x].idle)
         /\ \A x \in Page : page[x].idleNum \in Nat
    BY DEF Shape, PageHeader
  <1>17. Enlisted(d, p, q, page, desc, listed.page, listed.desc)
    <2>1. CanEnlist(d, p, q, page, desc)
      BY <1>10, <1>13, <1>14, <1>16 DEF CanEnlist
    <2> QED BY <2>1, PageEnlisted DEF listed
  <1>18. IsList(nf, listed.desc[d].firstNotFull, listed.desc[d].lastNotFull,
                NextNotFullIn(listed.page))
    <2>1. \A x \in Range(nf) : NextNotFullIn(listed.page)[x] = NextNotFullIn(page)[x]
      BY <1>13, <1>15, <1>17 DEF Enlisted, NextNotFullIn, PagesAt
    <2>2. IsList(nf, desc[d].firstNotFull, desc[d].lastNotFull,
                 NextNotFullIn(listed.page))
      BY <1>15, <2>1, ListFrame
    <2> QED BY <1>17, <2>2 DEF Enlisted
  <1>19. PICK q2 \in Seq(Page) :
             /\ IsList(q2, listed.desc[d].first, listed.desc[d].last,
                       NextIn(listed.page))
             /\ Range(q2) = Range(q) \cup {p}
    BY <1>17 DEF Enlisted
  <1>20. /\ IsList(q2, desc'[d].first, desc'[d].last, NextIn(page'))
         /\ \E nf2 \in Seq(Page) :
                /\ IsList(nf2, desc'[d].firstNotFull, desc'[d].lastNotFull,
                          NextNotFullIn(page'))
                /\ Range(nf2) = {x \in PagesAt(pl2, <<"list", d>>) :
                                     page'[x].idleNum > 0}
         /\ \A x \in PagesAt(pl2, <<"list", d>>) :
                page'[x].idleNum > 0 \/ page'[x].nextNotFull = NullPos
         /\ page' \in [Page -> PageHeader] /\ desc' \in [Descs -> DescHeader]
         /\ \A x \in Page : /\ page'[x].idle = page[x].idle
                            /\ page'[x].idleNum = page[x].idleNum
                            /\ x # p /\ x \notin Range(q) => page'[x] = page[x]
         /\ \A e \in Descs : e # d => desc'[e] = desc[e]
    <2>1. \A x \in PagesAt(pl, <<"list", d>>) :
              page[x].idleNum > 0 \/ page[x].nextNotFull = NullPos
      BY <1>7, <1>8 DEF DescInv, QueueInv
    <2>2. CASE page[p].idleNum = 0
      <3>1. page' = listed.page /\ desc' = listed.desc
        BY <1>5, <1>6, <2>2
      <3>2. Range(nf) = {x \in PagesAt(pl2, <<"list", d>>) : page'[x].idleNum > 0}
        <4>1. \A x \in Page : page'[x].idleNum = page[x].idleNum
          BY <1>17, <3>1 DEF Enlisted
        <4> QED BY <1>10, <1>13, <1>15, <2>2, <4>1 DEF PagesAt
      <3>3. \A x \in PagesAt(pl2, <<"list", d>>) :
                page'[x].idleNum > 0 \/ page'[x].nextNotFull = NullPos
        <4> TAKE x \in PagesAt(pl2, <<"list", d>>)
        <4>1. CASE x = p
          BY <1>17, <3>1, <4>1 DEF Enlisted
        <4>2. CASE x # p
          <5>1. x \in Page /\ x \in PagesAt(pl, <<"list", d>>)
            BY <1>13, <4>2 DEF PagesAt
          <5>2. /\ page'[x].idleNum = page[x].idleNum
                /\ page'[x].nextNotFull = page[x].nextNotFull
            BY <1>17, <3>1, <4>2, <5>1 DEF Enlisted
          <5> QED BY <2>1, <5>1, <5>2
        <4> QED BY <4>1, <4>2
      <3>4. IsList(q2, desc'[d].first, desc'[d].last, NextIn(page'))
        BY <1>19, <3>1
      <3>5. IsList(nf, desc'[d].firstNotFull, desc'[d].lastNotFull,
                   NextNotFullIn(page'))
        BY <1>18, <3>1
      <3>6. /\ page' \in [Page -> PageHeader] /\ desc' \in [Descs -> DescHeader]
            /\ \A x \in Page :
                   /\ page'[x].idle = page[x].idle
                   /\ page'[x].idleNum = page[x].idleNum
                   /\ x # p /\ x \notin Range(q) => page'[x] = page[x]
            /\ \A e \in Descs : e # d => desc'[e] = desc[e]
        BY <1>17, <3>1 DEF Enlisted
      <3> QED BY <3>2, <3>3, <3>4, <3>5, <3>6
    <2>3. CASE page[p].idleNum # 0
      <3>1. p \notin Range(nf) /\ Range(nf) \subseteq Range(q)
        BY <1>13, <1>14, <1>15
      <3>2. Joined(d, p, nf, listed.page, listed.desc, page', desc')
        <4>1. CanJoin(d, p, nf, listed.page, listed.desc)
          BY <1>10, <1>17, <1>18, <3>1 DEF CanJoin, Enlisted
        <4>2. listed = [page |-> listed.page, desc |-> listed.desc]
          BY DEF listed, Enlist
        <4>3. m = Enqueue([page |-> listed.page, desc |-> listed.desc], d, p)
          BY <1>6, <2>3, <4>2
        <4> QED BY <1>5, <4>1, <4>3, Enqueued
      <3>3. PICK nf2 \in Seq(Page) :
                /\ IsList(nf2, desc'[d].firstNotFull, desc'[d].lastNotFull,
                          NextNotFullIn(page'))
                /\ Range(nf2) = Range(nf) \cup {p}
        BY <3>2 DEF Joined
      <3>4. /\ page' \in [Page -> PageHeader] /\ desc' \in [Descs -> DescHeader]
            /\ \A x \in Page : /\ page'[x].idle = page[x].idle
                               /\ page'[x].idleNum = page[x].idleNum
                               /\ page'[x].next = listed.page[x].next
                               /\ x \notin Range(nf) => page'[x] = listed.page[x]
        BY <1>17, <3>2 DEF Joined, Enlisted
      <3>5. /\ desc'[d].first = listed.desc[d].first
            /\ desc'[d].last = listed.desc[d].last
            /\ \A e \in Descs : e # d => desc'[e] = desc[e]
        BY <1>17, <3>2 DEF Joined, Enlisted
      <3>6. \A x \in Page : x # p /\ x \notin Range(q) => page'[x] = page[x]
        BY <1>17, <3>1, <3>4 DEF Enlisted
      <3>7. IsList(q2, desc'[d].first, desc'[d].last, NextIn(page'))
        <4>1. \A x \in Range(q2) : NextIn(page')[x] = NextIn(listed.page)[x]
          BY <1>10, <1>14, <1>19, <3>4 DEF NextIn, PagesAt
        <4> QED BY <1>19, <3>5, <4>1, ListFrame
      <3>8. page[p].idleNum > 0
        BY <1>10, <1>16, <2>3
      <3>9. Range(nf2) = {x \in PagesAt(pl2, <<"list", d>>) : page'[x].idleNum > 0}
        BY <1>10, <1>13, <1>15, <3>3, <3>4, <3>8 DEF PagesAt
      <3>10. \A x \in PagesAt(pl2, <<"list", d>>) :
                 page'[x].idleNum > 0 \/ page'[x].nextNotFull = NullPos
        <4> TAKE x \in PagesAt(pl2, <<"list", d>>)
        <4>1. CASE x \in Range(nf2)
          BY <3>9, <4>1
        <4>2. CASE x \notin Range(nf2)
          <5>1. /\ x \in Page /\ x # p /\ x \notin Range(nf)
                /\ x \in PagesAt(pl, <<"list", d>>)
            BY <1>13, <3>3, <4>2 DEF PagesAt
          <5>2. page'[x].nextNotFull = page[x].nextNotFull
            BY <1>17, <3>4, <5>1 DEF Enlisted
          <5>3. ~(page[x].idleNum > 0)
            BY <1>15, <5>1
          <5> QED BY <2>1, <5>1, <5>2, <5>3
        <4> QED BY <4>1, <4>2
      <3> QED BY <3>3, <3>4, <3>5, <3>6, <3>7, <3>9, <3>10
    <2> QED BY <2>2, <2>3
  <1>21. ListInv(pl2, page', d, r2)
    <2>1. Range(q2) = PagesAt(pl2, <<"list", d>>)
      BY <1>13, <1>14, <1>19
    <2>2. desc'[d].last \in Link
      BY <1>20 DEF DescHeader
    <2> QED BY <1>7, <1>20, <2>1, <2>2 DEF ListInv
  <1>22. QueueInv(pl2, page', d, r2)
    BY <1>7, <1>20 DEF QueueInv
  <1>23. NewInv(pl2, d, r2)
    BY <1>7, <1>8, <1>9, <1>13 DEF DescInv, NewInv
  <1>24. GivenInv(pl2, d, r2)
    <2>1. /\ SlotsAt(pl, <<"list", d>>, d) \subseteq SlotsAt(pl2, <<"list", d>>, d)
          /\ SlotsAt(pl, <<"new", d>>, d) \subseteq SlotsAt(pl2, <<"list", d>>, d)
                                             \cup SlotsAt(pl2, <<"new", d>>, d)
      BY <1>13 DEF SlotsAt
    <2>2. GivenInv(pl, d, r)
      BY <1>8 DEF DescInv
    <2>3. /\ r.used \subseteq SlotsAt(pl2, <<"list", d>>, d)
          /\ Range(r.old) \subseteq SlotsAt(pl2, <<"list", d>>, d)
          /\ Range(r.new) \subseteq SlotsAt(pl2, <<"list", d>>, d)
                                    \cup SlotsAt(pl2, <<"new", d>>, d)
      <3>1. /\ r.used \subseteq SlotsAt(pl, <<"list", d>>, d)
            /\ Range(r.old) \subseteq SlotsAt(pl, <<"list", d>>, d)
            /\ Range(r.new) \subseteq SlotsAt(pl, <<"list", d>>, d)
                                      \cup SlotsAt(pl, <<"new", d>>, d)
        BY <2>2 DEF GivenInv
      <3> QED BY <2>1, <3>1
    <2>4. /\ Distinct(r.old) /\ Distinct(r.new)
          /\ r.used \cap Range(r.old) = {}
          /\ r.used \cap Range(r.new) = {}
          /\ Range(r.old) \cap Range(r.new) = {}
      BY <2>2 DEF GivenInv
    <2>5. ~(r2.need > 0)
      BY <1>7
    <2> QED BY <1>7, <2>3, <2>4, <2>5 DEF GivenInv
  <1>25. SlotInv(pl2, page', d, r2)
    <2>1. Given(r2) = Given(r)
      BY <1>7 DEF Given
    <2>2. \A x \in Page : Live(pl2, d, r2, x) => Live(pl, d, r, x)
      BY <1>7, <1>10, <1>12 DEF Live
    <2> QED BY <1>8, <1>20, <2>1, <2>2 DEF DescInv, SlotInv, Ungiven
  <1>26. RequestInv(r2)
    BY <1>7, <1>8 DEF DescInv, RequestInv
  <1>27. DescInv(pl2, page', d, r2)
    BY <1>21, <1>22, <1>23, <1>24, <1>25, <1>26 DEF DescInv
  <1>28. Shape'
    <2>1. newPages' \in [Descs -> Seq(Page)]
      BY <1>5, <1>9 DEF Shape
    <2>2. \A x \in Page : page'[x].idleNum = Len(page'[x].idle)
      BY <1>16, <1>20
    <2> QED BY <1>5, <1>20, <2>1, <2>2 DEF Shape
  <1>29. \A s \in Spaces : IdleInv(pl2, page', s, space'[s])
    <2>1. \A s \in Spaces : SpaceSame(s, pl, page, pl2, page')
      <3> TAKE s \in Spaces
      <3>1. \A x \in Page : pl[x] = <<"idle", s>> => x # p /\ x \notin Range(q)
        BY <1>10, <1>14, Places DEF PagesAt
      <3>2. pl2[p] # <<"idle", s>> /\ pl[p] # <<"idle", s>>
        BY <1>10, <1>12, Places
      <3> QED BY <1>12, <1>20, <3>1, <3>2 DEF SpaceSame
    <2> QED BY <1>5, <2>1, SpaceKept DEF PlacesInv
  <1>30. ASSUME NEW e \in Descs, e # d
         PROVE  RequestAfter(e) = Request(e) /\ DescSame(e, pl, page, pl2, page')
    <2>1. RequestAfter(e) = Request(e)
      <3>1. newPages'[e] = newPages[e] /\ desc'[e] = desc[e]
        BY <1>5, <1>20, <1>30 DEF Shape
      <3> QED BY <1>5, <3>1 DEF Request, RequestAfter
    <2>2. \A x \in Page : pl[x] \in {<<"list", e>>, <<"new", e>>}
                              => x # p /\ x \notin Range(q)
      BY <1>10, <1>14, <1>30, Places DEF PagesAt
    <2>3. /\ pl2[p] # <<"list", e>> /\ pl2[p] # <<"new", e>>
          /\ pl[p] # <<"list", e>> /\ pl[p] # <<"new", e>>
      BY <1>10, <1>12, <1>30, Places
    <2>4. DescSame(e, pl, page, pl2, page')
      BY <1>12, <1>20, <2>2, <2>3 DEF DescSame
    <2> QED BY <2>1, <2>4
  <1> QED BY <1>2, <1>12, <1>27, <1>28, <1>29, <1>30, StepOf

-----------------------------------------------------------------------------
(* The invariant holds                                                     *)

\* In the beginning every page is idle in its space.
LEMMA InitialList ==
    ASSUME NEW s \in Spaces
    PROVE  /\ PageList[s] \in Seq(Page) /\ Distinct(PageList[s])
           /\ \A i \in 1..Len(PageList[s]) :
                  Following(PageList[s][i]) =
                      IF i = Len(PageList[s]) THEN NullPos ELSE PageList[s][i + 1]
  <1>1. PageList[s] \in Seq(Page) /\ Distinct(PageList[s])
    BY PagesAssumption DEF Distinct
  <1>2. /\ DOMAIN PageList[s] = 1..Len(PageList[s])
        /\ \A i \in 1..Len(PageList[s]) : PageList[s][i] \in Range(PageList[s])
    BY <1>1, InRange, LenProperties
  <1>3. ASSUME NEW i \in 1..Len(PageList[s])
        PROVE  Following(PageList[s][i]) =
                   IF i = Len(PageList[s]) THEN NullPos ELSE PageList[s][i + 1]
    <2>1. PICK p : p = PageList[s][i]
      OBVIOUS
    <2>2. p \in Range(PageList[s]) /\ p \in Page
      BY <1>2, <2>1 DEF Page
    <2>3. SpaceOf(p) = s
      BY <2>2, SpaceOfPage
    <2>4. (CHOOSE k \in DOMAIN PageList[SpaceOf(p)] : PageList[SpaceOf(p)][k] = p) = i
      <3>1. \A k \in DOMAIN PageList[SpaceOf(p)] : PageList[SpaceOf(p)][k] = p <=> k = i
        BY <1>1, <1>2, <2>1, <2>3 DEF Distinct
      <3>2. i \in DOMAIN PageList[SpaceOf(p)]
        BY <1>2, <2>3
      <3> QED BY <3>1, <3>2
    <2>5. Following(p) = IF i = Len(PageList[SpaceOf(p)]) THEN NullPos
                         ELSE PageList[SpaceOf(p)][i + 1]
      <3> DEFINE c == CHOOSE k \in DOMAIN PageList[SpaceOf(p)] :
                          PageList[SpaceOf(p)][k] = p
      <3>1. Following(p) = IF c = Len(PageList[SpaceOf(p)]) THEN NullPos
                           ELSE PageList[SpaceOf(p)][c + 1]
        BY DEF Following
      <3> HIDE DEF c
      <3> QED BY <2>4, <3>1 DEF c
    <2> QED BY <2>1, <2>3, <2>5
  <1> QED BY <1>1, <1>3

LEMMA IInvInit == Init => IInv
  <1> SUFFICES ASSUME Init PROVE IInv
    OBVIOUS
  <1>1. /\ \A p \in Page : SpaceOf(p) \in Spaces /\ p \in Range(PageList[SpaceOf(p)])
        /\ \A s \in Spaces : \A p \in Range(PageList[s]) : SpaceOf(p) = s
        /\ \A s \in Spaces : Range(PageList[s]) \subseteq Page
    <2>1. \A p \in Page : \E s \in Spaces : p \in Range(PageList[s])
      BY DEF Page
    <2>2. \A s \in Spaces : Range(PageList[s]) \subseteq Page
      BY DEF Page
    <2> QED BY <2>1, <2>2, SpaceOfPage
  <1>2. PICK pl : pl = [p \in Page |-> <<"idle", SpaceOf(p)>>]
    OBVIOUS
  <1>3. pl \in [Page -> Place] /\ \A p \in Page : pl[p] = <<"idle", SpaceOf(p)>>
    BY <1>1, <1>2, Places
  <1>4. \A s \in Spaces : PagesAt(pl, <<"idle", s>>) = Range(PageList[s])
    BY <1>1, <1>3 DEF PagesAt
  <1>5. \A d \in Descs : /\ PagesAt(pl, <<"list", d>>) = {}
                         /\ PagesAt(pl, <<"new", d>>) = {}
    BY <1>3, Places DEF PagesAt
  <1>6. \A p \in Page : Following(p) \in Link
    <2> TAKE p \in Page
    <2>1. PICK s \in Spaces : s = SpaceOf(p) /\ p \in Range(PageList[s])
      BY <1>1
    <2>2. PageList[s] \in Seq(Page)
      BY InitialList
    <2>3. PICK i \in 1..Len(PageList[s]) : PageList[s][i] = p
      BY <2>1, <2>2, InRange
    <2>4. CASE i = Len(PageList[s])
      BY <2>3, <2>4, InitialList DEF Link
    <2>5. CASE i # Len(PageList[s])
      <3>1. i + 1 \in 1..Len(PageList[s])
        BY <2>2, <2>5, InRange
      <3>2. PageList[s][i + 1] \in Page
        BY <2>2, <3>1, InRange
      <3> QED BY <2>3, <2>5, <3>2, InitialList DEF Link
    <2> QED BY <2>4, <2>5
  <1>7. ASSUME NEW s \in Spaces
        PROVE  /\ IdleInv(pl, page, s, space[s])
               /\ space[s] \in SpaceHeader
    <2> DEFINE q == PageList[s]
    <2>1. q \in Seq(Page) /\ Distinct(q) /\ Len(q) \in Nat
      BY InitialList, InRange
    <2>2. Len(q) = 0 <=> q = <<>>
      BY <2>1, EmptyRange
    <2>3. space[s] = [first |-> IF q = <<>> THEN NullPos ELSE q[1],
                      last |-> IF q = <<>> THEN NullPos ELSE q[Len(q)],
                      idleNum |-> Len(q)]
      BY DEF Init
    <2>4. \A i \in 1..Len(q) : q[i] \in Page
      BY <2>1, InRange
    <2>5. \A i \in 1..Len(q) :
              NextIn(page)[q[i]] = IF i = Len(q) THEN NullPos ELSE q[i + 1]
      <3>1. \A p \in Page : NextIn(page)[p] = Following(p)
        BY DEF Init, NextIn
      <3> QED BY <2>4, <3>1, InitialList
    <2> HIDE DEF q
    <2>6. IsList(q, space[s].first, space[s].last, NextIn(page))
      BY <2>1, <2>2, <2>3, <2>5 DEF IsList
    <2>7. space[s] \in SpaceHeader
      <3>1. q # <<>> => q[1] \in Page /\ q[Len(q)] \in Page
        BY <2>1, <2>2, <2>4
      <3> QED BY <2>1, <2>3, <3>1 DEF SpaceHeader, Link
    <2>8. Range(q) = PagesAt(pl, <<"idle", s>>)
      BY <1>4 DEF q
    <2>9. Len(q) = space[s].idleNum
      BY <2>3
    <2>10. PagesAt(pl, <<"idle", s>>) \subseteq Range(PageList[s])
      BY <1>4
    <2> QED BY <2>1, <2>6, <2>7, <2>8, <2>9, <2>10 DEF IdleInv
  <1>8. ASSUME NEW d \in Descs
        PROVE  DescInv(pl, page, d, Request(d))
    <2>1. PICK r : r = Request(d)
      OBVIOUS
    <2>2. /\ r.desc = NoPages /\ r.used = {} /\ r.pc = "idle" /\ r.need = 0
          /\ r.old = <<>> /\ r.new = <<>> /\ r.newPages = <<>>
      BY <2>1 DEF Init, Request
    <2>3. \A link : IsList(<<>>, NullPos, NullPos, link)
      BY EmptyRange DEF IsList
    <2>4. ListInv(pl, page, d, r)
      <3>1. IsList(<<>>, r.desc.first, r.desc.last, NextIn(page))
        BY <2>2, <2>3 DEF NoPages
      <3>2. r.desc.last \in Link /\ <<>> \in Seq(Page)
        BY <2>2, EmptyRange DEF NoPages, Link
      <3> QED BY <1>5, <2>2, <3>1, <3>2, EmptyRange DEF ListInv
    <2>5. QueueInv(pl, page, d, r)
      <3>1. IsList(<<>>, r.desc.firstNotFull, r.desc.lastNotFull,
                   NextNotFullIn(page))
        BY <2>2, <2>3 DEF NoPages
      <3> QED BY <1>5, <2>2, <3>1, EmptyRange DEF QueueInv
    <2>6. NewInv(pl, d, r)
      BY <1>5, <2>2, EmptyRange DEF NewInv
    <2>7. GivenInv(pl, d, r)
      BY <2>2, EmptyRange DEF GivenInv
    <2>8. SlotInv(pl, page, d, r)
      BY <1>5, <2>2 DEF SlotInv, Live, PagesAt
    <2>9. RequestInv(r)
      BY <2>2 DEF RequestInv
    <2> QED BY <2>1, <2>4, <2>5, <2>6, <2>7, <2>8, <2>9 DEF DescInv
  <1>9. Shape
    <2>1. space \in [Spaces -> SpaceHeader]
      BY <1>7 DEF Init
    <2>2. /\ page \in [Page -> PageHeader]
          /\ \A p \in Page : page[p].idleNum = Len(page[p].idle)
      <3>1. page = [p \in Page |-> [next |-> Following(p), nextNotFull |-> NullPos,
                                    idleNum |-> 0, idle |-> <<>>]]
        BY DEF Init
      <3>2. <<>> \in Seq(Nat) /\ Len(<<>>) = 0
        BY EmptyRange
      <3> QED BY <1>6, <3>1, <3>2 DEF PageHeader, Link
    <2>3. desc \in [Descs -> DescHeader]
      BY DEF Init, DescHeader, NoPages, Link
    <2>4. /\ used \in [Descs -> SUBSET (Page \X Nat)] /\ pc \in [Descs -> PCs]
          /\ need \in [Descs -> Nat] /\ nth \in [Descs -> Nat \ {0}]
          /\ walk \in [Descs -> Link]
      BY DEF Init, PCs, Link
    <2>5. /\ old \in [Descs -> Seq(Page \X Nat)]
          /\ new \in [Descs -> Seq(Page \X Nat)]
          /\ newPages \in [Descs -> Seq(Page)]
      BY EmptyRange DEF Init
    <2> QED BY <2>1, <2>2, <2>3, <2>4, <2>5 DEF Shape
  <1> QED BY <1>3, <1>7, <1>8, <1>9 DEF IInv, PlacesInv

LEMMA IInvStep == IInv /\ [Next]_vars => IInv'
  <1> SUFFICES ASSUME IInv, [Next]_vars PROVE IInv'
    OBVIOUS
  <1>1. Shape
    BY DEF IInv
  <1>2. PICK pl \in [Page -> Place] : PlacesInv(pl)
    BY DEF IInv
  <1>3. ASSUME NEW d \in Descs, NEW n \in 1..MaxRequest, allocateMem(d, n)
        PROVE  IInv'
    BY <1>1, <1>2, <1>3, AllocateMem
  <1>4. ASSUME NEW d \in Descs, NEW slot \in used[d], freeMem(d, slot)
        PROVE  IInv'
    BY <1>1, <1>2, <1>4, FreeMem
  <1>5. ASSUME NEW d \in Descs, truncate(d)
        PROVE  IInv'
    BY <1>1, <1>2, <1>5, Truncate
  <1>6. ASSUME NEW d \in Descs, allocateMem_old(d)
        PROVE  IInv'
    BY <1>1, <1>2, <1>6, AllocateMemOld
  <1>7. ASSUME NEW d \in Descs, allocatePage(d)
        PROVE  IInv'
    BY <1>1, <1>2, <1>7, AllocatePage
  <1>8. ASSUME NEW d \in Descs, allocatePage_full(d)
        PROVE  IInv'
    BY <1>1, <1>2, <1>8, AllocatePageFull
  <1>9. ASSUME NEW d \in Descs, allocateMem_new(d)
        PROVE  IInv'
    BY <1>1, <1>2, <1>9, AllocateMemLink, AllocateMemReturn
  <1>10. ASSUME NEW d \in Descs, allocateMem_throw(d)
         PROVE  IInv'
    BY <1>1, <1>2, <1>10, AllocateMemThrow
  <1>11. ASSUME NEW d \in Descs, allocateMem_undo(d)
         PROVE  IInv'
    BY <1>1, <1>2, <1>11, UndoSlot, UndoPage, UndoEnds
  <1>12. ASSUME NEW d \in Descs, truncate_page(d)
         PROVE  IInv'
    BY <1>1, <1>2, <1>12, TruncatePage, TruncateEnds
  <1>13. CASE UNCHANGED vars
    <2>1. UNCHANGED <<space, page, desc, used, pc, need, old, new, newPages, nth,
                      walk>>
      BY <1>13 DEF vars, requestVars
    <2>2. Shape'
      BY <1>1, <2>1 DEF Shape
    <2>3. \A d \in Descs : DescInv(pl, page', d, Request(d)')
      BY <1>2, <2>1 DEF PlacesInv, Request
    <2>4. \A s \in Spaces : IdleInv(pl, page', s, space'[s])
      BY <1>2, <2>1 DEF PlacesInv
    <2>5. PlacesInv(pl)'
      BY <2>3, <2>4 DEF PlacesInv
    <2> QED BY <2>2, <2>5 DEF IInv
  <1>14. CASE Next
    BY <1>3, <1>4, <1>5, <1>6, <1>7, <1>8, <1>9, <1>10, <1>11, <1>12, <1>14
       DEF Next, Proceed
  <1> QED BY <1>13, <1>14

\* Every page has a place, and every list is made of the pages of one place.
THEOREM Invariance == Spec => []IInv
  BY IInvInit, IInvStep, PTL DEF Spec

-----------------------------------------------------------------------------
(* What follows from the invariant: no page is lost or in two places, no   *)
(* slot is lost or given twice, the not-full queue is exact, and callers   *)
(* see the abstract pool.                                                  *)

LEMMA DistinctCardinality ==
    ASSUME NEW S, NEW q \in Seq(S), Distinct(q)
    PROVE  IsFiniteSet(Range(q)) /\ Cardinality(Range(q)) = Len(q)
  <1>1. /\ DOMAIN q = 1..Len(q) /\ Len(q) \in Nat /\ q \in [1..Len(q) -> S]
        /\ \A x : x \in Range(q) <=> \E i \in 1..Len(q) : q[i] = x
    BY InRange, LenProperties
  <1>2. q \in [1..Len(q) -> Range(q)]
    BY <1>1
  <1>3. q \in Bijection(1..Len(q), Range(q))
    BY <1>1, <1>2 DEF Bijection, Injection, Surjection, IsInjective, Distinct
  <1>4. ExistsBijection(1..Len(q), Range(q))
    BY <1>3 DEF ExistsBijection
  <1>5. IsFiniteSet(Range(q))
    BY <1>1, <1>4, FS_NatBijection
  <1>6. Cardinality(Range(q)) = Len(q)
    BY <1>1, <1>4, FS_CountingElements
  <1> QED BY <1>5, <1>6

\* Following the links of a list finds the pages of its place.
LEMMA ChainsArePlaces ==
    ASSUME NEW pl, PlacesInv(pl)
    PROVE  /\ \A s \in Spaces :
                  /\ IdlePages(s) = PagesAt(pl, <<"idle", s>>)
                  /\ Cardinality(IdlePages(s)) = space[s].idleNum
           /\ \A d \in Descs :
                  /\ PagesOf(d) = PagesAt(pl, <<"list", d>>)
                  /\ Range(newPages[d]) = PagesAt(pl, <<"new", d>>)
  <1>1. ASSUME NEW s \in Spaces
        PROVE  /\ IdlePages(s) = PagesAt(pl, <<"idle", s>>)
               /\ Cardinality(IdlePages(s)) = space[s].idleNum
    <2>1. PICK q \in Seq(Page) :
              /\ IsList(q, space[s].first, space[s].last, NextIn(page))
              /\ Range(q) = PagesAt(pl, <<"idle", s>>)
              /\ Len(q) = space[s].idleNum
      BY DEF PlacesInv, IdleInv
    <2>2. Chain(space[s].first, NextIn(page)) = Range(q)
      BY <2>1, ListChain
    <2>3. Cardinality(Range(q)) = Len(q)
      BY <2>1, DistinctCardinality DEF IsList
    <2> QED BY <2>1, <2>2, <2>3 DEF IdlePages, NextPage, NextIn
  <1>2. ASSUME NEW d \in Descs
        PROVE  /\ PagesOf(d) = PagesAt(pl, <<"list", d>>)
               /\ Range(newPages[d]) = PagesAt(pl, <<"new", d>>)
    <2>1. DescInv(pl, page, d, Request(d))
      BY DEF PlacesInv
    <2>2. PICK r : r = Request(d)
      OBVIOUS
    <2>3. /\ r.pc = pc[d] /\ r.walk = walk[d] /\ r.desc = desc[d]
          /\ r.newPages = newPages[d]
      BY <2>2 DEF Request
    <2>4. PICK q \in Seq(Page), last \in Link :
              /\ IsList(q, IF r.pc = "truncate" THEN r.walk ELSE r.desc.first,
                        last, NextIn(page))
              /\ Range(q) = PagesAt(pl, <<"list", d>>)
      BY <2>1, <2>2 DEF DescInv, ListInv
    <2>5. Chain(IF r.pc = "truncate" THEN r.walk ELSE r.desc.first, NextIn(page))
          = Range(q)
      BY <2>4, ListChain
    <2>6. PagesOf(d) = PagesAt(pl, <<"list", d>>)
      BY <2>3, <2>4, <2>5 DEF PagesOf, NextPage, NextIn
    <2>7. Range(r.newPages) = PagesAt(pl, <<"new", d>>)
      BY <2>1, <2>2 DEF DescInv, NewInv
    <2> QED BY <2>3, <2>6, <2>7
  <1> QED BY <1>1, <1>2

-----------------------------------------------------------------------------

\* Links lead to pages, m_idleNum counts the idle slots of a page, callers have
\* slots that exist, and no request asks for more than MaxRequest.
THEOREM TypeCorrect == Spec => []TypeOK
  <1>1. IInv => TypeOK
    <2> SUFFICES ASSUME IInv PROVE TypeOK
      OBVIOUS
    <2>1. PICK pl \in [Page -> Place] : PlacesInv(pl)
      BY DEF IInv
    <2>2. /\ space \in [Spaces -> SpaceHeader] /\ page \in [Page -> PageHeader]
          /\ \A p \in Page : page[p].idleNum = Len(page[p].idle)
          /\ desc \in [Descs -> DescHeader] /\ pc \in [Descs -> PCs]
          /\ need \in [Descs -> Nat] /\ old \in [Descs -> Seq(Page \X Nat)]
          /\ new \in [Descs -> Seq(Page \X Nat)] /\ walk \in [Descs -> Link]
      BY DEF IInv, Shape
    <2>3. \A p \in Page : page[p].next \in Link /\ page[p].nextNotFull \in Link
      BY <2>2 DEF PageHeader
    <2>4. ASSUME NEW d \in Descs
          PROVE  /\ used[d] \subseteq Page \X (1..SlotNum[d])
                 /\ need[d] \in 0..MaxRequest
      <3>1. PICK r : r = Request(d)
        OBVIOUS
      <3>2. /\ r.used = used[d] /\ r.need = need[d] /\ r.pc = pc[d]
            /\ r.old = old[d] /\ r.new = new[d]
        BY <3>1 DEF Request
      <3>3. GivenInv(pl, d, r) /\ RequestInv(r)
        BY <2>1, <3>1 DEF PlacesInv, DescInv
      <3>4. used[d] \subseteq Page \X (1..SlotNum[d])
        BY <3>2, <3>3 DEF GivenInv, SlotsAt, PagesAt
      <3>5. Len(r.old) \in Nat /\ Len(r.new) \in Nat /\ r.need \in Nat
        BY <2>2, <3>2, InRange
      <3>6. need[d] \in 0..MaxRequest
        BY <3>2, <3>3, <3>5, DescsAssumption, SMTT(30) DEF RequestInv
      <3> QED BY <3>4, <3>6
    <2>5. need \in [Descs -> 0..MaxRequest]
      BY <2>2, <2>4
    <2> QED BY <2>2, <2>3, <2>4, <2>5 DEF TypeOK, SpaceHeader, DescHeader
  <1> QED BY <1>1, Invariance, PTL

\* Every page is idle in its space, in the list of one descriptor or with one
\* request, in one place only, and the spaces count their idle pages rightly:
\* requests on different tables take and give back pages one by one, in any
\* order, through the same link m_next.
THEOREM PagesAreAccounted == Spec => []PagesAccounted
  <1>1. IInv => PagesAccounted
    <2> SUFFICES ASSUME IInv PROVE PagesAccounted
      OBVIOUS
    <2>1. PICK pl \in [Page -> Place] : PlacesInv(pl)
      BY DEF IInv
    <2>2. ASSUME NEW s \in Spaces
          PROVE  /\ Cardinality(IdlePages(s)) = space[s].idleNum
                 /\ \A p \in IdlePages(s) : SpaceOf(p) = s
      <3>1. PagesAt(pl, <<"idle", s>>) \subseteq Range(PageList[s])
        BY <2>1 DEF PlacesInv, IdleInv
      <3>2. \A p \in PagesAt(pl, <<"idle", s>>) : SpaceOf(p) = s
        BY <3>1, SpaceOfPage DEF PagesAt
      <3> QED BY <2>1, <3>2, ChainsArePlaces
    <2>3. ASSUME NEW p \in Page
          PROVE  Cardinality({s \in Spaces : p \in IdlePages(s)})
                 + Cardinality({d \in Descs : p \in PagesOf(d)})
                 + Cardinality({d \in Descs : p \in Range(newPages[d])}) = 1
      <3>1. PICK idle, listed, held :
                /\ idle = {s \in Spaces : p \in IdlePages(s)}
                /\ listed = {d \in Descs : p \in PagesOf(d)}
                /\ held = {d \in Descs : p \in Range(newPages[d])}
        OBVIOUS
      <3>2. /\ idle = {s \in Spaces : pl[p] = <<"idle", s>>}
            /\ listed = {d \in Descs : pl[p] = <<"list", d>>}
            /\ held = {d \in Descs : pl[p] = <<"new", d>>}
        BY <2>1, <3>1, ChainsArePlaces DEF PagesAt
      <3>3. SUFFICES Cardinality(idle) + Cardinality(listed) + Cardinality(held) = 1
        BY <3>1
      <3>4. pl[p] \in Place
        OBVIOUS
      <3>5. /\ Cardinality({}) = 0 /\ \A x : Cardinality({x}) = 1
        BY FS_EmptySet, FS_Singleton
      <3>6. CASE \E s \in Spaces : pl[p] = <<"idle", s>>
        <4>1. PICK s \in Spaces : pl[p] = <<"idle", s>>
          BY <3>6
        <4>2. idle = {s} /\ listed = {} /\ held = {}
          BY <3>2, <4>1, Places
        <4>3. /\ Cardinality(idle) = 1 /\ Cardinality(listed) = 0
              /\ Cardinality(held) = 0
          BY <3>5, <4>2
        <4> QED BY <4>3
      <3>7. CASE \E d \in Descs : pl[p] = <<"list", d>>
        <4>1. PICK d \in Descs : pl[p] = <<"list", d>>
          BY <3>7
        <4>2. idle = {} /\ listed = {d} /\ held = {}
          BY <3>2, <4>1, Places
        <4>3. /\ Cardinality(idle) = 0 /\ Cardinality(listed) = 1
              /\ Cardinality(held) = 0
          BY <3>5, <4>2
        <4> QED BY <4>3
      <3>8. CASE \E d \in Descs : pl[p] = <<"new", d>>
        <4>1. PICK d \in Descs : pl[p] = <<"new", d>>
          BY <3>8
        <4>2. idle = {} /\ listed = {} /\ held = {d}
          BY <3>2, <4>1, Places
        <4>3. /\ Cardinality(idle) = 0 /\ Cardinality(listed) = 0
              /\ Cardinality(held) = 1
          BY <3>5, <4>2
        <4> QED BY <4>3
      <3> QED BY <3>4, <3>6, <3>7, <3>8 DEF Place
    <2> QED BY <2>2, <2>3 DEF PagesAccounted
  <1> QED BY <1>1, Invariance, PTL

\* Between calls a slot of a table's page is idle or with a caller, never both
\* and never neither, whichever requests failed half way before.
THEOREM SlotsAreAccounted == Spec => []SlotsAccounted
  <1>1. IInv => SlotsAccounted
    <2> SUFFICES ASSUME IInv, NEW d \in Descs, pc[d] = "idle",
                        NEW p \in PagesOf(d), NEW i \in 1..SlotNum[d]
                 PROVE  i \notin Range(page[p].idle) <=> <<p, i>> \in used[d]
      BY DEF SlotsAccounted
    <2>1. PICK pl \in [Page -> Place] : PlacesInv(pl)
      BY DEF IInv
    <2>2. PICK r : r = Request(d)
      OBVIOUS
    <2>3. /\ r.pc = "idle" /\ r.used = used[d]
          /\ SlotInv(pl, page, d, r) /\ RequestInv(r)
      BY <2>1, <2>2 DEF Request, PlacesInv, DescInv
    <2>4. Given(r) = used[d]
      BY <2>3, EmptyRange DEF RequestInv, Given
    <2>5. p \in Page /\ pl[p] = <<"list", d>>
      BY <2>1, ChainsArePlaces DEF PagesAt
    <2>6. Range(page[p].idle) = Ungiven(d, r, p)
      BY <2>3, <2>5 DEF SlotInv, Live
    <2> QED BY <2>4, <2>6 DEF Ungiven
  <1> QED BY <1>1, Invariance, PTL

\* Between calls the not-full queue leads to exactly the pages that have idle
\* slots, and its last page is the last.
THEOREM QueueIsExact == Spec => []QueueExact
  <1>1. IInv => QueueExact
    <2> SUFFICES ASSUME IInv, NEW d \in Descs, pc[d] = "idle"
                 PROVE  /\ Queue(d) = {p \in PagesOf(d) : page[p].idleNum > 0}
                        /\ desc[d].lastNotFull \in Queue(d) \cup {NullPos}
                        /\ desc[d].lastNotFull = NullPos <=> Queue(d) = {}
                        /\ desc[d].lastNotFull # NullPos =>
                               page[desc[d].lastNotFull].nextNotFull = NullPos
      BY DEF QueueExact
    <2>1. PICK pl \in [Page -> Place] : PlacesInv(pl)
      BY DEF IInv
    <2>2. PICK r : r = Request(d)
      OBVIOUS
    <2>3. r.pc = "idle" /\ r.desc = desc[d] /\ QueueInv(pl, page, d, r)
      BY <2>1, <2>2 DEF Request, PlacesInv, DescInv
    <2>4. PICK q \in Seq(Page) :
              /\ IsList(q, desc[d].firstNotFull, desc[d].lastNotFull,
                        NextNotFullIn(page))
              /\ Range(q) = {p \in PagesAt(pl, <<"list", d>>) : page[p].idleNum > 0}
      BY <2>3 DEF QueueInv
    <2>5. Chain(desc[d].firstNotFull, NextNotFullIn(page)) = Range(q)
      BY <2>4, ListChain
    <2>6. Queue(d) = Range(q)
      BY <2>5 DEF Queue, NextNotFull, NextNotFullIn
    <2>7. PagesOf(d) = PagesAt(pl, <<"list", d>>)
      BY <2>1, ChainsArePlaces
    <2>8. /\ Range(q) \subseteq Page
          /\ desc[d].lastNotFull = NullPos <=> q = <<>>
          /\ desc[d].firstNotFull = NullPos <=> q = <<>>
          /\ desc[d].firstNotFull = NullPos <=> Range(q) = {}
          /\ desc[d].lastNotFull # NullPos =>
                 /\ desc[d].lastNotFull \in Range(q)
                 /\ NextNotFullIn(page)[desc[d].lastNotFull] = NullPos
      BY <2>4, ListEnds
    <2> QED BY <2>4, <2>6, <2>7, <2>8 DEF NextNotFullIn
  <1> QED BY <1>1, Invariance, PTL

-----------------------------------------------------------------------------
(* The pool that callers see                                               *)

\* A request that is served: its slots are new, they are Len(got) many, and
\* their pages are in the list of its own descriptor.
Served(d, got) ==
    /\ got \in Seq(Page \X Nat) /\ Distinct(got) /\ Len(got) \in 1..MaxRequest
    /\ used[d] \cap Range(got) = {}
    /\ used' = [used EXCEPT ![d] = @ \cup Range(got)]

\* The slots of two descriptors are on different pages.
UsedApart ==
    \A d, e \in Descs : d # e =>
        \A slot \in used[d], other \in used[e] : slot[1] # other[1]

LEMMA PagesApart == IInv => UsedApart
  <1> SUFFICES ASSUME IInv, NEW d \in Descs, NEW e \in Descs, d # e,
                      NEW slot \in used[d], NEW other \in used[e]
               PROVE  slot[1] # other[1]
    BY DEF UsedApart
  <1>1. PICK pl \in [Page -> Place] : PlacesInv(pl)
    BY DEF IInv
  <1>2. /\ used[d] \subseteq SlotsAt(pl, <<"list", d>>, d)
        /\ used[e] \subseteq SlotsAt(pl, <<"list", e>>, e)
    BY <1>1 DEF PlacesInv, DescInv, GivenInv, Request
  <1>3. /\ pl[slot[1]] = <<"list", d>> /\ pl[other[1]] = <<"list", e>>
    BY <1>2 DEF SlotsAt, PagesAt
  <1> QED BY <1>3, Places

LEMMA PagesApartNext == IInv' => UsedApart'
  BY PagesApart, PTL

LEMMA PoolCardinality == \A S : Pool!Cardinality(S) = Cardinality(S)
  BY DEF Pool!Cardinality, Cardinality

LEMMA ServedIsAllocate ==
    ASSUME Shape, IInv', NEW d \in Descs, NEW got, Served(d, got)
    PROVE  Pool!Next
  <1>1. used \in [Descs -> SUBSET (Page \X Nat)]
    BY DEF Shape
  <1>2. /\ used'[d] = used[d] \cup Range(got)
        /\ \A e \in Descs : e # d => used'[e] = used[e]
    BY <1>1 DEF Served
  <1>3. used'[d] \ used[d] = Range(got)
    BY <1>2 DEF Served
  <1>4. Cardinality(used'[d] \ used[d]) \in 1..MaxRequest
    <2>1. Cardinality(Range(got)) = Len(got)
      BY DistinctCardinality DEF Served
    <2> QED BY <1>3, <2>1 DEF Served
  <1>5. ASSUME NEW slot \in used'[d]
        PROVE  slot[1] \in Page \ Pool!Elsewhere(d)
    <2>1. slot[1] \in Page
      <3>1. used'[d] \subseteq Page \X Nat
        BY DEF IInv, Shape
      <3> QED BY <3>1
    <2>2. ASSUME NEW e \in Descs \ {d}, NEW other \in used[e]
          PROVE  slot[1] # other[1]
      BY <1>2, PagesApartNext DEF UsedApart
    <2> QED BY <2>1, <2>2 DEF Pool!Elsewhere, Pool!PagesOf
  <1>6. Pool!PagesOf(used'[d]) \subseteq Page \ Pool!Elsewhere(d)
    BY <1>5 DEF Pool!PagesOf
  <1>7. Pool!Allocate(d)
    BY <1>2, <1>4, <1>6, PoolCardinality DEF Pool!Allocate
  <1> QED BY <1>2, <1>7 DEF Pool!Next

\* The last slots come from an old page.
LEMMA ServedFromOld ==
    ASSUME Shape, NEW pl \in [Page -> Place], PlacesInv(pl), NEW d \in Descs,
           allocateMem_old(d)
    PROVE  used' = used \/ \E got : Served(d, got)
  <1> DEFINE p == desc[d].firstNotFull
             taken == Taken(page[p].idle, need[d])
             got == old[d] \o Slots(p, taken)
  <1>1. PICK r : r = Request(d)
    OBVIOUS
  <1>2. DescInv(pl, page, d, r)
    BY <1>1 DEF PlacesInv
  <1>3. \/ used' = used
        \/ /\ need[d] - Len(taken) = 0
           /\ used' = [used EXCEPT ![d] = @ \cup Range(got)]
    BY DEF allocateMem_old
  <1>4. /\ r.desc = desc[d] /\ r.used = used[d] /\ r.pc = "old" /\ r.need = need[d]
        /\ r.old = old[d] /\ r.new = new[d]
    BY <1>1 DEF Request, allocateMem_old
  <1> HIDE DEF p, taken, got
  <1>5. /\ Len(r.new) = 0 /\ r.need > 0 /\ r.need \in Nat
        /\ r.desc.firstNotFull # NullPos
        /\ r.need + Len(r.old) + Len(r.new) \in 1..MaxRequest
    BY <1>2, <1>4, EmptyRange DEF DescInv, RequestInv, Shape
  <1>6. p \in Page /\ pl[p] = <<"list", d>>
    <2>1. PICK q \in Seq(Page) :
              /\ IsList(q, p, desc[d].lastNotFull, NextNotFullIn(page))
              /\ Range(q) = {x \in PagesAt(pl, <<"list", d>>) : page[x].idleNum > 0}
      BY <1>2, <1>4 DEF DescInv, QueueInv, p
    <2>2. p # NullPos
      BY <1>4, <1>5 DEF p
    <2> QED BY <2>1, <2>2, ListEnds DEF PagesAt
  <1>7. /\ page[p] \in PageHeader /\ page[p].idleNum = Len(page[p].idle)
        /\ Distinct(page[p].idle) /\ Range(page[p].idle) = Ungiven(d, r, p)
    BY <1>2, <1>4, <1>6 DEF Shape, DescInv, SlotInv, Live
  <1>8. PICK t, rest, slots : Takes(p, page[p], need[d], t, rest, slots)
    BY <1>4, <1>5, <1>6, <1>7, SlotsTaken
  <1>9. /\ t = taken /\ slots \in Seq(Page \X Nat) /\ Distinct(slots)
        /\ Len(slots) = Len(taken) /\ slots = Slots(p, taken)
    BY <1>8 DEF Takes, taken
  <1>10. Range(slots) \cap Given(r) = {}
    BY <1>7, <1>8 DEF Ungiven, Takes
  <1>11. /\ r.old \in Seq(Page \X Nat) /\ Distinct(r.old)
         /\ Range(r.old) \cap Range(slots) = {}
         /\ used[d] \cap Range(slots) = {} /\ used[d] \cap Range(r.old) = {}
    BY <1>2, <1>4, <1>10 DEF Shape, DescInv, GivenInv, Given
  <1>12. /\ got \in Seq(Page \X Nat) /\ Len(got) = Len(r.old) + Len(taken)
         /\ Range(got) = Range(r.old) \cup Range(slots) /\ Distinct(got)
         /\ Len(r.old) \in Nat /\ Len(taken) \in Nat
    <2>1. PICK first \in Seq(Page \X Nat), second \in Seq(Page \X Nat) :
              first = r.old /\ second = slots
      BY <1>9, <1>11
    <2>2. got = first \o second
      BY <1>4, <1>9, <2>1 DEF got
    <2>3. /\ got \in Seq(Page \X Nat) /\ Len(got) = Len(first) + Len(second)
          /\ Range(got) = Range(first) \cup Range(second) /\ Distinct(got)
      BY <1>9, <1>11, <2>1, <2>2, ConcatRange
    <2>4. Len(first) \in Nat /\ Len(second) \in Nat
      BY InRange
    <2> QED BY <1>9, <2>1, <2>3, <2>4
  <1>13. ASSUME need[d] - Len(taken) = 0 PROVE Len(got) \in 1..MaxRequest
    <2>1. PICK a \in Nat, b \in Nat, n \in Nat :
              a = Len(r.old) /\ b = Len(taken) /\ n = need[d]
      BY <1>4, <1>5, <1>12
    <2>2. b = n /\ Len(got) = a + b
      BY <1>12, <1>13, <2>1
    <2>3. n + a + 0 \in 1..MaxRequest
      BY <1>4, <1>5, <2>1
    <2> QED BY <2>2, <2>3
  <1>14. used[d] \cap Range(got) = {}
    BY <1>11, <1>12
  <1> QED BY <1>3, <1>12, <1>13, <1>14 DEF Served

\* The new pages are linked, and the caller has its slots.
LEMMA ServedFromNew ==
    ASSUME Shape, NEW pl \in [Page -> Place], PlacesInv(pl), NEW d \in Descs,
           allocateMem_new(d)
    PROVE  used' = used \/ \E got : Served(d, got)
  <1>1. PICK r : r = Request(d)
    OBVIOUS
  <1>2. /\ GivenInv(pl, d, r) /\ RequestInv(r)
        /\ r.pc = "new" /\ r.used = used[d] /\ r.need = 0
        /\ r.old = old[d] /\ r.new = new[d]
    BY <1>1 DEF PlacesInv, DescInv, Request, allocateMem_new
  <1>3. \/ used' = used
        \/ used' = [used EXCEPT ![d] = @ \cup Range(old[d]) \cup Range(new[d])]
    BY DEF allocateMem_new
  <1>4. PICK first \in Seq(Page \X Nat), second \in Seq(Page \X Nat) :
            first = old[d] /\ second = new[d]
    BY DEF Shape
  <1>5. PICK got : got = first \o second
    OBVIOUS
  <1>6. /\ Distinct(first) /\ Distinct(second)
        /\ Range(first) \cap Range(second) = {}
        /\ used[d] \cap Range(first) = {} /\ used[d] \cap Range(second) = {}
    BY <1>2, <1>4 DEF GivenInv
  <1>7. /\ got \in Seq(Page \X Nat) /\ Len(got) = Len(first) + Len(second)
        /\ Range(got) = Range(first) \cup Range(second) /\ Distinct(got)
    BY <1>5, <1>6, ConcatRange
  <1>8. Len(got) \in 1..MaxRequest
    <2>1. Len(first) \in Nat /\ Len(second) \in Nat
      BY InRange
    <2>2. r.need + Len(r.old) + Len(r.new) \in 1..MaxRequest
      BY <1>2 DEF RequestInv
    <2>3. 0 + Len(first) + Len(second) \in 1..MaxRequest
      BY <1>2, <1>4, <2>2
    <2> QED BY <1>7, <2>1, <2>3
  <1>9. CASE used' = [used EXCEPT ![d] = @ \cup Range(old[d]) \cup Range(new[d])]
    <2>1. used[d] \cup Range(old[d]) \cup Range(new[d]) = used[d] \cup Range(got)
      BY <1>4, <1>7
    <2>2. used' = [used EXCEPT ![d] = @ \cup Range(got)]
      BY <1>9, <2>1
    <2> QED BY <1>6, <1>7, <1>8, <2>2 DEF Served
  <1> QED BY <1>3, <1>9

\* What callers see of the page memory is the abstract pool: a request that is
\* served gives at most MaxRequest slots that nobody has, on pages that serve no
\* other descriptor; the links, the spaces and the failures are not seen.
THEOREM PoolRefined == Spec => ImplementsSlotPool
  <1>1. Init => Pool!Init
    BY DEF Init, Pool!Init
  <1>2. IInv /\ IInv' /\ [Next]_vars => [Pool!Next]_used
    <2> SUFFICES ASSUME IInv, IInv', [Next]_vars PROVE used' = used \/ Pool!Next
      OBVIOUS
    <2>1. PICK pl \in [Page -> Place] : PlacesInv(pl)
      BY DEF IInv
    <2>2. Shape /\ used \in [Descs -> SUBSET (Page \X Nat)]
      BY DEF IInv, Shape
    <2>3. ASSUME NEW d \in Descs, allocateMem_old(d) \/ allocateMem_new(d)
          PROVE  used' = used \/ Pool!Next
      BY <2>1, <2>2, <2>3, ServedFromOld, ServedFromNew, ServedIsAllocate
    <2>4. ASSUME NEW d \in Descs, NEW slot \in used[d], freeMem(d, slot)
          PROVE  Pool!Next
      <3>1. /\ used'[d] = used[d] \ {slot}
            /\ \A e \in Descs \ {d} : used'[e] = used[e]
        BY <2>2, <2>4 DEF freeMem
      <3> QED BY <3>1 DEF Pool!Next, Pool!Free
    <2>5. ASSUME NEW d \in Descs, truncate(d)
          PROVE  Pool!Next
      <3>1. /\ used'[d] = {}
            /\ \A e \in Descs \ {d} : used'[e] = used[e]
        BY <2>2, <2>5 DEF truncate
      <3> QED BY <3>1 DEF Pool!Next, Pool!Truncate
    <2>6. ASSUME NEW d \in Descs,
                 \/ \E n \in 1..MaxRequest : allocateMem(d, n)
                 \/ allocatePage(d)
                 \/ allocatePage_full(d)
                 \/ allocateMem_throw(d)
                 \/ allocateMem_undo(d)
                 \/ truncate_page(d)
          PROVE  used' = used
      BY <2>6 DEF allocateMem, allocatePage, allocatePage_full, allocateMem_throw,
                  allocateMem_undo, truncate_page
    <2>7. CASE UNCHANGED vars
      BY <2>7 DEF vars
    <2> QED BY <2>3, <2>4, <2>5, <2>6, <2>7 DEF Next, Proceed
  <1> QED BY <1>1, <1>2, Invariance, PTL DEF Spec, ImplementsSlotPool, Pool!Spec
==============================================================================
