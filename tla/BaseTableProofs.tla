---------------------------- MODULE BaseTableProofs ----------------------------
(***************************************************************************)
(* Proofs about records and hash indexes: through every commit that keeps  *)
(* to Sound, refused ones included, an index leads to the records of the   *)
(* table and to nothing else, unique keys stay unique, and a commit does   *)
(* all it was asked to or nothing.                                         *)
(***************************************************************************)
EXTENDS BaseTableInv, SequenceTheorems, FiniteSetTheorems, WellFoundedInduction, TLAPS

-----------------------------------------------------------------------------
(* Induction along a loop, with the set of the steps at which a fact holds. *)

\* A set of numbers that is not empty has a least one.
LEMMA LeastOf ==
    ASSUME NEW S \in SUBSET Nat, S # {}
    PROVE  \E m \in S : \A k \in S : m <= k
  <1> DEFINE less == {ss \in Nat \X Nat : ss[1] < ss[2]}
  <1>1. IsWellFoundedOn(less, Nat)
    BY NatLessThanWellFounded, Zenon DEF OpToRel
  <1>2. PICK x \in S : \A y \in S : ~(<<y, x>> \in less)
    <2> HIDE DEF less
    <2> QED BY <1>1, WFMin
  <1>3. \A y \in S : x <= y
    <2>1. ASSUME NEW y \in S PROVE ~(y < x) /\ x \in Nat /\ y \in Nat
      BY <1>2
    <2> QED BY <2>1
  <1> QED
    BY <1>3

\* What holds before a loop and is kept by each step holds at every step.
LEMMA AlongLoop ==
    ASSUME NEW n \in Nat, NEW S \in SUBSET (0..n), 0 \in S,
           \A j \in 0..(n - 1) : j \in S => j + 1 \in S
    PROVE  \A j \in 0..n : j \in S
  <1> SUFFICES ASSUME (0..n) \ S # {} PROVE FALSE
    OBVIOUS
  <1>1. PICK m \in (0..n) \ S : \A k \in (0..n) \ S : m <= k
    <2>1. (0..n) \ S \in SUBSET Nat
      OBVIOUS
    <2> QED BY <2>1, LeastOf
  <1>2. m - 1 \in 0..(n - 1) /\ m - 1 \in S
    BY <1>1
  <1> QED
    BY <1>1, <1>2

-----------------------------------------------------------------------------
(* Sequences                                                               *)

\* The range of a list is made of its elements.
LEMMA InRange ==
    ASSUME NEW S, NEW q \in Seq(S)
    PROVE  /\ DOMAIN q = 1..Len(q) /\ Len(q) \in Nat
           /\ \A j \in 1..Len(q) : q[j] \in S /\ q[j] \in Range(q)
           /\ \A x \in Range(q) : \E j \in 1..Len(q) : q[j] = x
           /\ Range(q) \subseteq S
           /\ q # <<>> => Len(q) >= 1 /\ Head(q) = q[1] /\ Head(q) \in Range(q)
  <1>1. DOMAIN q = 1..Len(q) /\ Len(q) \in Nat /\ \A j \in 1..Len(q) : q[j] \in S
    BY LenProperties, ElementOfSeq
  <1>2. q # <<>> => Len(q) >= 1 /\ Head(q) = q[1]
    BY <1>1, EmptySeq, HeadTailProperties
  <1> QED BY <1>1, <1>2 DEF Range

\* A list with an element behind its first.
LEMMA SecondAdded ==
    ASSUME NEW S, NEW T, NEW q, ListOf(q, S), q # <<>>, S \subseteq T,
           NEW s \in T, s \notin S
    PROVE  /\ ListOf(<<Head(q), s>> \o Tail(q), S \cup {s})
           /\ <<Head(q), s>> \o Tail(q) \in Seq(T)
           /\ <<Head(q), s>> \o Tail(q) # <<>>
  <1> DEFINE p == <<Head(q), s>> \o Tail(q)
             P == S \cup {s}
  <1>1. /\ q \in Seq(S) /\ IsInjective(q) /\ Range(q) = S /\ DOMAIN q = 1..Len(q)
        /\ Len(q) \in Nat \ {0} /\ Head(q) = q[1] /\ q[1] \in S
    BY InRange DEF ListOf
  <1>2. Tail(q) \in Seq(P) /\ Len(Tail(q)) = Len(q) - 1
        /\ \A j \in 1..(Len(q) - 1) : Tail(q)[j] = q[j + 1]
    BY <1>1, HeadTailProperties
  <1>3. <<Head(q), s>> \in Seq(P) /\ Len(<<Head(q), s>>) = 2
    BY <1>1
  <1>4. /\ p \in Seq(P) /\ Len(p) = Len(q) + 1 /\ p[1] = q[1] /\ p[2] = s
        /\ \A j \in 3..(Len(q) + 1) : p[j] = q[j - 1]
    <2> HIDE DEF P
    <2>1. /\ p \in Seq(P) /\ Len(p) = 2 + (Len(q) - 1)
          /\ \A j \in 1..(2 + (Len(q) - 1)) :
                p[j] = IF j <= 2 THEN <<Head(q), s>>[j] ELSE Tail(q)[j - 2]
      BY <1>2, <1>3, ConcatProperties
    <2>2. p[1] = q[1] /\ p[2] = s
      BY <1>1, <2>1
    <2>3. ASSUME NEW j \in 3..(Len(q) + 1) PROVE p[j] = q[j - 1]
      <3>1. p[j] = Tail(q)[j - 2]
        BY <1>1, <2>1
      <3>2. j - 2 \in 1..(Len(q) - 1) /\ (j - 2) + 1 = j - 1
        BY <1>1
      <3> QED BY <1>2, <3>1, <3>2
    <2> QED BY <1>1, <2>1, <2>2, <2>3
  <1> HIDE DEF p
  <1>5. DOMAIN p = 1..(Len(q) + 1) /\ p # <<>>
    BY <1>1, <1>4, LenProperties, EmptySeq
  <1>6. IsInjective(p)
    BY <1>1, <1>4, <1>5, SMTT(30) DEF IsInjective
  <1>7. Range(p) = P
    <2>1. \A j \in 1..Len(q) : q[j] \in Range(p)
      <3> SUFFICES ASSUME NEW j \in 1..Len(q) PROVE q[j] \in Range(p)
        OBVIOUS
      <3>1. CASE j = 1
        BY <1>1, <1>4, <1>5, <3>1, SMTT(30) DEF Range
      <3>2. CASE j # 1
        <4>1. j + 1 \in 3..(Len(q) + 1) /\ p[j + 1] = q[j]
          BY <1>1, <1>4, <3>2
        <4> QED BY <1>1, <1>5, <4>1 DEF Range
      <3> QED BY <3>1, <3>2
    <2>2. s \in Range(p)
      BY <1>1, <1>4, <1>5 DEF Range
    <2>3. S \subseteq Range(p)
      BY <1>1, <2>1 DEF Range
    <2>4. Range(p) \subseteq P
      BY <1>4, InRange
    <2> QED BY <2>2, <2>3, <2>4
  <1>8. p \in Seq(T)
    <2>1. P \subseteq T
      OBVIOUS
    <2> QED BY <1>4, <2>1, SeqMonotonic
  <1> QED
    BY <1>4, <1>5, <1>6, <1>7, <1>8 DEF ListOf, p

\* What is left of a sequence without one of its places.
LEMMA PlaceRemoved ==
    ASSUME NEW S, NEW q \in Seq(S), NEW g \in 1..Len(q)
    PROVE  /\ RemoveAt(q, g) \in Seq(S) /\ Len(RemoveAt(q, g)) = Len(q) - 1
           /\ \A j \in 1..(Len(q) - 1) :
                 RemoveAt(q, g)[j] = IF j < g THEN q[j] ELSE q[j + 1]
  <1> DEFINE a == SubSeq(q, 1, g - 1)
             b == SubSeq(q, g + 1, Len(q))
  <1>0. Len(q) \in Nat
    BY InRange
  <1>1. a \in Seq(S) /\ Len(a) = g - 1 /\ \A j \in 1..(g - 1) : a[j] = q[j]
    <2>1. CASE g = 1
      BY <1>0, <2>1, SubSeqEmpty
    <2>2. CASE g # 1
      BY <1>0, <2>2, SubSeqProperties
    <2> QED BY <2>1, <2>2
  <1>2. b \in Seq(S) /\ Len(b) = Len(q) - g
        /\ \A j \in 1..(Len(q) - g) : b[j] = q[g + j]
    <2>1. CASE g = Len(q)
      BY <1>0, <2>1, SubSeqEmpty
    <2>2. CASE g # Len(q)
      BY <1>0, <2>2, SubSeqProperties
    <2> QED BY <2>1, <2>2
  <1>3. RemoveAt(q, g) = a \o b
    BY DEF RemoveAt
  <1> HIDE DEF a, b
  <1>4. /\ a \o b \in Seq(S) /\ Len(a \o b) = (g - 1) + (Len(q) - g)
        /\ \A j \in 1..((g - 1) + (Len(q) - g)) :
              (a \o b)[j] = IF j <= g - 1 THEN a[j] ELSE b[j - (g - 1)]
    <2>1. /\ a \o b \in Seq(S) /\ Len(a \o b) = Len(a) + Len(b)
          /\ \A j \in 1..(Len(a) + Len(b)) :
                (a \o b)[j] = IF j <= Len(a) THEN a[j] ELSE b[j - Len(a)]
      BY <1>1, <1>2, ConcatProperties
    <2> QED BY <1>1, <1>2, <2>1
  <1>5. ASSUME NEW j \in 1..(Len(q) - 1)
        PROVE  (a \o b)[j] = IF j < g THEN q[j] ELSE q[j + 1]
    <2>1. CASE j < g
      BY <1>0, <1>1, <1>4, <2>1
    <2>2. CASE ~(j < g)
      <3>1. (a \o b)[j] = b[j - (g - 1)]
        BY <1>0, <1>4, <2>2
      <3>2. j - (g - 1) \in 1..(Len(q) - g) /\ g + (j - (g - 1)) = j + 1
        BY <1>0, <2>2
      <3>3. (a \o b)[j] = q[j + 1]
        BY <1>2, <3>1, <3>2
      <3> QED BY <1>0, <2>2, <3>3
    <2> QED BY <1>0, <2>1, <2>2
  <1> QED
    BY <1>0, <1>3, <1>4, <1>5

\* A list without one of its elements.
LEMMA OneRemoved ==
    ASSUME NEW S, NEW q, ListOf(q, S), NEW s \in S
    PROVE  /\ ListOf(RemoveFirst(q, s), S \ {s})
           /\ RemoveFirst(q, s) = <<>> <=> S = {s}
  <1>1. /\ q \in Seq(S) /\ IsInjective(q) /\ Range(q) = S /\ DOMAIN q = 1..Len(q)
        /\ Len(q) \in Nat
    BY InRange DEF ListOf
  <1>2. PICK g \in 1..Len(q) : q[g] = s
    BY <1>1, InRange
  <1>3. \A j \in 1..Len(q) : q[j] = s => j = g
    BY <1>1, <1>2 DEF IsInjective
  <1>4. RemoveFirst(q, s) = RemoveAt(q, g)
    <2>1. {j \in 1..Len(q) : q[j] = s} = {g}
      BY <1>2, <1>3
    <2>2. Min({g}) = g
      BY <1>1 DEF Min
    <2>3. SelectInSeq(q, LAMBDA v : v = s) = g
      BY <2>1, <2>2 DEF SelectInSeq
    <2> QED BY <1>2, <2>3 DEF RemoveFirst
  <1> DEFINE p == RemoveAt(q, g)
  <1>5. /\ p \in Seq(S) /\ Len(p) = Len(q) - 1
        /\ \A j \in 1..(Len(q) - 1) : p[j] = IF j < g THEN q[j] ELSE q[j + 1]
    BY <1>1, PlaceRemoved
  <1> HIDE DEF p
  <1>6. DOMAIN p = 1..(Len(q) - 1)
    BY <1>1, <1>5, LenProperties
  <1>a. ASSUME NEW j \in 1..(Len(q) - 1)
        PROVE  \E m \in 1..Len(q) : /\ p[j] = q[m] /\ m # g
                                    /\ m = IF j < g THEN j ELSE j + 1
    <2>1. CASE j < g
      BY <1>1, <1>5, <2>1
    <2>2. CASE ~(j < g)
      <3>1. j + 1 \in 1..Len(q) /\ j + 1 # g
        BY <1>1, <2>2
      <3> QED BY <1>5, <2>2, <3>1
    <2> QED BY <2>1, <2>2
  <1>7. IsInjective(p)
    <2> SUFFICES ASSUME NEW j \in 1..(Len(q) - 1), NEW k \in 1..(Len(q) - 1),
                        p[j] = p[k]
                 PROVE  j = k
      BY <1>6 DEF IsInjective
    <2>1. PICK m \in 1..Len(q) : p[j] = q[m] /\ m = IF j < g THEN j ELSE j + 1
      BY <1>a
    <2>2. PICK n \in 1..Len(q) : p[k] = q[n] /\ n = IF k < g THEN k ELSE k + 1
      BY <1>a
    <2>3. m = n
      BY <1>1, <2>1, <2>2 DEF IsInjective
    <2> QED BY <1>1, <2>1, <2>2, <2>3
  <1>8. s \notin Range(p)
    <2>1. \A j \in 1..(Len(q) - 1) : p[j] # s
      BY <1>3, <1>a
    <2> QED BY <1>6, <2>1 DEF Range
  <1>9. \A x \in S \ {s} : x \in Range(p)
    <2> SUFFICES ASSUME NEW x \in S \ {s} PROVE x \in Range(p)
      OBVIOUS
    <2>1. PICK j \in 1..Len(q) : q[j] = x
      BY <1>1, InRange
    <2>2. CASE j < g
      <3>1. j \in 1..(Len(q) - 1) /\ p[j] = q[j]
        BY <1>1, <1>5, <2>1, <2>2
      <3> QED BY <1>6, <2>1, <3>1 DEF Range
    <2>3. CASE j > g
      <3>1. j - 1 \in 1..(Len(q) - 1) /\ p[j - 1] = q[j]
        BY <1>1, <1>5, <2>1, <2>3
      <3> QED BY <1>6, <2>1, <3>1 DEF Range
    <2> QED BY <1>1, <1>2, <2>1, <2>2, <2>3
  <1>10. Range(p) = S \ {s}
    BY <1>5, <1>8, <1>9, InRange
  <1>11. p \in Seq(S \ {s})
    BY <1>5, <1>10, SeqOfRange
  <1>12. p = <<>> <=> S = {s}
    <2>1. p = <<>> <=> Len(q) = 1
      BY <1>1, <1>5, EmptySeq
    <2>2. Len(q) = 1 => S = {s}
      BY <1>1, <1>2, InRange
    <2>3. Len(q) # 1 => p[1] \in Range(p)
      BY <1>1, <1>2, <1>6, SMTT(30) DEF Range
    <2>4. Len(q) # 1 => S # {s}
      BY <1>10, <2>3
    <2> QED BY <2>1, <2>2, <2>4
  <1> QED
    BY <1>4, <1>7, <1>10, <1>11, <1>12 DEF ListOf, p

\* The first of a list belongs to what it lists.
LEMMA ListHead ==
    ASSUME NEW S, NEW q, ListOf(q, S), q # <<>>
    PROVE  Head(q) \in S
  BY InRange DEF ListOf

\* The list of one slot.
LEMMA OneList ==
    ASSUME NEW s
    PROVE  ListOf(<<s>>, {s}) /\ <<s>> # <<>>
  <1>1. <<s>> \in Seq({s}) /\ DOMAIN <<s>> = {1} /\ <<s>>[1] = s /\ Len(<<s>>) = 1
    OBVIOUS
  <1>2. <<s>> # <<>>
    BY <1>1, EmptySeq
  <1> QED BY <1>1, <1>2 DEF ListOf, IsInjective, Range

-----------------------------------------------------------------------------
(* One place of m_hashTable                                                *)

\* Who is entered under which key after one slot was entered or taken out.
LEMMA WithChanged ==
    ASSUME NEW f \in Entered, NEW s \in Slots, NEW k \in Keys \cup {Link}
    PROVE  /\ [f EXCEPT ![s] = k] \in Entered
           /\ With([f EXCEPT ![s] = k], k) = With(f, k) \cup {s}
           /\ \A x : x # k => With([f EXCEPT ![s] = k], x) = With(f, x) \ {s}
  BY DEF Entered, With

\* The lists of a place are not empty, and each is that of one key.
LEMMA ChainFacts ==
    ASSUME NEW place, NEW f, NEW b, PlaceRight(place, f, b)
    PROVE  /\ place \in Seq(Seq(Slots) \ {<<>>})
           /\ DOMAIN place = 1..Len(place) /\ Len(place) \in Nat
           /\ \A g \in 1..Len(place) :
                 /\ place[g] \in Seq(Slots) /\ place[g] # <<>>
                 /\ Head(place[g]) \in Range(place[g])
                 /\ \E k \in Keys : /\ hash[k] = b /\ With(f, k) # {}
                                    /\ ListOf(place[g], With(f, k))
                                    /\ Range(place[g]) = With(f, k)
  <1>1. /\ place \in Seq(Seq(Slots) \ {<<>>}) /\ DOMAIN place = 1..Len(place)
        /\ Len(place) \in Nat /\ \A g \in 1..Len(place) : place[g] \in Seq(Slots) \ {<<>>}
    BY InRange DEF PlaceRight, Chains
  <1>2. ASSUME NEW g \in 1..Len(place)
        PROVE  /\ Head(place[g]) \in Range(place[g])
               /\ \E k \in Keys : /\ hash[k] = b /\ With(f, k) # {}
                                  /\ ListOf(place[g], With(f, k))
                                  /\ Range(place[g]) = With(f, k)
    <2>1. Head(place[g]) \in Range(place[g])
      BY <1>1, InRange
    <2>2. PICK k \in Keys : hash[k] = b /\ ListOf(place[g], With(f, k))
      BY <1>1 DEF PlaceRight
    <2> QED BY <2>1, <2>2 DEF ListOf
  <1> QED BY <1>1, <1>2

\* The key of a list.
LEMMA ChainKey ==
    ASSUME NEW place, NEW f, NEW b, PlaceRight(place, f, b), NEW g \in DOMAIN place
    PROVE  \E k \in Keys : /\ hash[k] = b /\ With(f, k) # {}
                           /\ ListOf(place[g], With(f, k))
                           /\ Range(place[g]) = With(f, k)
  <1>1. g \in 1..Len(place)
    BY ChainFacts
  <1> QED BY <1>1, ChainFacts

\* A slot with a new key becomes a list in front of the others of its place.
LEMMA NewList ==
    ASSUME NEW f \in Entered, NEW s \in Slots, NEW k \in Keys, NEW place,
           PlaceRight(place, f, hash[k]), f[s] = Link, With(f, k) = {}
    PROVE  PlaceRight(<<<<s>>>> \o place, [f EXCEPT ![s] = k], hash[k])
  <1> DEFINE f2 == [f EXCEPT ![s] = k]
             p == <<<<s>>>> \o place
             b == hash[k]
  <1>1. /\ With(f2, k) = {s}
        /\ \A x \in Keys \ {k} : With(f2, x) = With(f, x)
        /\ \A x \in Keys : s \notin With(f, x)
    BY WithChanged, TableAssumption DEF With, Entered
  <1>2. /\ place \in Chains /\ DOMAIN place = 1..Len(place) /\ Len(place) \in Nat
    BY ChainFacts DEF Chains
  <1>3. <<s>> \in Seq(Slots) \ {<<>>} /\ ListOf(<<s>>, {s})
    BY OneList
  <1>4. /\ p \in Chains /\ Len(p) = 1 + Len(place) /\ p[1] = <<s>>
        /\ \A g \in 2..(1 + Len(place)) : p[g] = place[g - 1]
    <2> DEFINE C == Seq(Slots) \ {<<>>}
               o == <<<<s>>>>
    <2>1. o \in Seq(C) /\ Len(o) = 1 /\ o[1] = <<s>>
      BY <1>3
    <2>2. place \in Seq(C)
      BY <1>2 DEF Chains
    <2> HIDE DEF C, o
    <2>3. /\ o \o place \in Seq(C) /\ Len(o \o place) = Len(o) + Len(place)
          /\ \A g \in 1..(Len(o) + Len(place)) :
                (o \o place)[g] = IF g <= Len(o) THEN o[g] ELSE place[g - Len(o)]
      BY <2>1, <2>2, ConcatProperties
    <2>4. p = o \o place /\ Chains = Seq(C)
      BY DEF o, C, Chains
    <2> QED BY <1>2, <2>1, <2>3, <2>4
  <1> HIDE DEF p, f2
  <1>5. DOMAIN p = 1..(1 + Len(place))
    BY <1>2, <1>4, LenProperties DEF Chains
  <1>6. /\ Range(p[1]) = {s}
        /\ \A g \in 2..(1 + Len(place)) : g - 1 \in 1..Len(place) /\ p[g] = place[g - 1]
    BY <1>2, <1>3, <1>4 DEF ListOf
  <1>7. \A g \in DOMAIN p : \E x \in Keys : hash[x] = b /\ ListOf(p[g], With(f2, x))
    <2> SUFFICES ASSUME NEW g \in 1..(1 + Len(place))
                 PROVE  \E x \in Keys : hash[x] = b /\ ListOf(p[g], With(f2, x))
      BY <1>5
    <2>1. CASE g = 1
      BY <1>1, <1>3, <1>4, <2>1
    <2>2. CASE g # 1
      <3>1. g - 1 \in 1..Len(place) /\ p[g] = place[g - 1]
        BY <1>2, <1>6, <2>2
      <3>2. PICK x \in Keys : /\ hash[x] = b /\ With(f, x) # {}
                              /\ ListOf(place[g - 1], With(f, x))
        BY <3>1, ChainFacts, SMTT(30)
      <3> QED BY <1>1, <3>1, <3>2
    <2> QED BY <2>1, <2>2
  <1>8. \A g, h \in DOMAIN p : Range(p[g]) = Range(p[h]) => g = h
    <2>1. \A g \in 1..Len(place) : s \notin Range(place[g])
      BY <1>1, ChainFacts
    <2>2. \A g, h \in 1..Len(place) : Range(place[g]) = Range(place[h]) => g = h
      BY <1>2 DEF PlaceRight
    <2> SUFFICES ASSUME NEW g \in 1..(1 + Len(place)), NEW h \in 1..(1 + Len(place)),
                        Range(p[g]) = Range(p[h])
                 PROVE  g = h
      BY <1>5
    <2>a. \A j \in 1..(1 + Len(place)) : j # 1 => Range(p[j]) # {s}
      <3> SUFFICES ASSUME NEW j \in 1..(1 + Len(place)), j # 1
                   PROVE  Range(p[j]) # {s}
        OBVIOUS
      <3>1. j - 1 \in 1..Len(place) /\ p[j] = place[j - 1]
        BY <1>2, <1>6
      <3> QED BY <2>1, <3>1
    <2>3. CASE g = 1 \/ h = 1
      BY <1>6, <2>a, <2>3
    <2>4. CASE g # 1 /\ h # 1
      <3>1. /\ g - 1 \in 1..Len(place) /\ p[g] = place[g - 1]
            /\ h - 1 \in 1..Len(place) /\ p[h] = place[h - 1]
        BY <1>2, <1>6, <2>4
      <3>2. g - 1 = h - 1
        BY <2>2, <3>1
      <3> QED BY <1>2, <3>2
    <2> QED BY <2>3, <2>4
  <1>9. \A x \in Keys : hash[x] = b /\ With(f2, x) # {} =>
            \E g \in DOMAIN p : Range(p[g]) = With(f2, x)
    <2> SUFFICES ASSUME NEW x \in Keys, hash[x] = b, With(f2, x) # {}
                 PROVE  \E g \in 1..(1 + Len(place)) : Range(p[g]) = With(f2, x)
      BY <1>5
    <2>1. CASE x = k
      <3>1. 1 \in 1..(1 + Len(place))
        BY <1>2
      <3> QED BY <1>1, <1>6, <2>1, <3>1
    <2>2. CASE x # k
      <3>1. PICK g \in 1..Len(place) : Range(place[g]) = With(f, x)
        BY <1>1, <1>2, <2>2 DEF PlaceRight
      <3>2. g + 1 \in 2..(1 + Len(place)) /\ p[g + 1] = place[g]
        BY <1>2, <1>4
      <3> QED BY <1>1, <1>2, <2>2, <3>1, <3>2
    <2> QED BY <2>1, <2>2
  <1> QED
    BY <1>4, <1>7, <1>8, <1>9 DEF PlaceRight, p, f2

\* The list of key k becomes that of S, the others stay.
LEMMA ListChanged ==
    ASSUME NEW f \in Entered, NEW f2 \in Entered, NEW k \in Keys, NEW place,
           PlaceRight(place, f, hash[k]),
           \A x \in Keys \ {k} : With(f2, x) = With(f, x),
           NEW g \in DOMAIN place, Range(place[g]) = With(f, k), With(f, k) # {},
           NEW q \in Seq(Slots) \ {<<>>}, ListOf(q, With(f2, k)), With(f2, k) # {}
    PROVE  PlaceRight([place EXCEPT ![g] = q], f2, hash[k])
  <1> DEFINE p == [place EXCEPT ![g] = q]
             b == hash[k]
  <1>1. /\ place \in Chains /\ DOMAIN place = 1..Len(place) /\ Len(place) \in Nat
    BY ChainFacts DEF Chains
  <1>2. /\ p \in Chains /\ DOMAIN p = DOMAIN place /\ p[g] = q
        /\ \A h \in DOMAIN place : h # g => p[h] = place[h]
    BY <1>1, ExceptSeq DEF Chains
  <1>3. Range(p[g]) = With(f2, k)
    BY <1>2 DEF ListOf
  <1>4. \A h \in DOMAIN place : h # g =>
            \E x \in Keys \ {k} : /\ hash[x] = b /\ With(f, x) # {}
                                  /\ ListOf(place[h], With(f, x))
                                  /\ Range(place[h]) = With(f, x)
    <2> SUFFICES ASSUME NEW h \in DOMAIN place, h # g
                 PROVE  \E x \in Keys \ {k} : /\ hash[x] = b /\ With(f, x) # {}
                                  /\ ListOf(place[h], With(f, x))
                                  /\ Range(place[h]) = With(f, x)
      OBVIOUS
    <2>1. PICK x \in Keys : /\ hash[x] = b /\ With(f, x) # {}
                            /\ ListOf(place[h], With(f, x))
                            /\ Range(place[h]) = With(f, x)
      BY ChainKey
    <2>2. x # k
      BY <2>1 DEF PlaceRight
    <2> QED BY <2>1, <2>2
  <1>5. \A x, y \in Keys : With(f2, x) = With(f2, y) /\ With(f2, x) # {} => x = y
    BY DEF With
  <1> HIDE DEF p
  <1>6. \A h \in DOMAIN p : \E x \in Keys : hash[x] = b /\ ListOf(p[h], With(f2, x))
    BY <1>2, <1>4
  <1>7. ASSUME NEW h \in DOMAIN p, NEW j \in DOMAIN p, Range(p[h]) = Range(p[j])
        PROVE  h = j
    <2>1. CASE h # g /\ j # g
      BY <1>2, <1>7, <2>1 DEF PlaceRight
    <2>2. CASE h = g /\ j # g
      <3>1. PICK x \in Keys \ {k} : With(f, x) # {} /\ Range(place[j]) = With(f, x)
        BY <1>2, <1>4, <2>2
      <3> QED BY <1>2, <1>3, <1>5, <1>7, <2>2, <3>1
    <2>3. CASE h # g /\ j = g
      <3>1. PICK x \in Keys \ {k} : With(f, x) # {} /\ Range(place[h]) = With(f, x)
        BY <1>2, <1>4, <2>3
      <3> QED BY <1>2, <1>3, <1>5, <1>7, <2>3, <3>1
    <2> QED BY <2>1, <2>2, <2>3
  <1>8. ASSUME NEW x \in Keys, hash[x] = b, With(f2, x) # {}
        PROVE  \E h \in DOMAIN p : Range(p[h]) = With(f2, x)
    <2>1. CASE x = k
      BY <1>2, <1>3, <2>1
    <2>2. CASE x # k
      <3>1. PICK h \in DOMAIN place : Range(place[h]) = With(f, x)
        BY <1>8, <2>2 DEF PlaceRight
      <3>2. h # g
        BY <1>8, <2>2, <3>1 DEF With
      <3> QED BY <1>2, <2>2, <3>1, <3>2
    <2> QED BY <2>1, <2>2
  <1> QED
    BY <1>2, <1>6, <1>7, <1>8 DEF PlaceRight, p

\* A list goes with its last slot.
LEMMA ListDropped ==
    ASSUME NEW f \in Entered, NEW f2 \in Entered, NEW k \in Keys, NEW place,
           PlaceRight(place, f, hash[k]),
           \A x \in Keys \ {k} : With(f2, x) = With(f, x),
           NEW g \in DOMAIN place, Range(place[g]) = With(f, k), With(f2, k) = {}
    PROVE  PlaceRight(RemoveAt(place, g), f2, hash[k])
  <1> DEFINE p == RemoveAt(place, g)
             b == hash[k]
             at(j) == IF j < g THEN j ELSE j + 1
  <1>1. /\ place \in Chains /\ DOMAIN place = 1..Len(place) /\ Len(place) \in Nat
        /\ g \in 1..Len(place)
    BY ChainFacts DEF Chains
  <1>2. /\ p \in Chains /\ Len(p) = Len(place) - 1
        /\ \A j \in 1..(Len(place) - 1) : p[j] = IF j < g THEN place[j] ELSE place[j + 1]
    BY <1>1, PlaceRemoved DEF Chains
  <1> HIDE DEF p
  <1>3. DOMAIN p = 1..(Len(place) - 1)
    BY <1>1, <1>2, LenProperties DEF Chains
  <1>4. ASSUME NEW j \in 1..(Len(place) - 1)
        PROVE  at(j) \in 1..Len(place) /\ at(j) # g /\ p[j] = place[at(j)]
    <2>1. CASE j < g
      BY <1>1, <1>2, <2>1
    <2>2. CASE ~(j < g)
      <3>1. j + 1 \in 1..Len(place) /\ j + 1 # g
        BY <1>1, <2>2
      <3> QED BY <1>2, <2>2, <3>1
    <2> QED BY <2>1, <2>2
  <1>5. ASSUME NEW h \in 1..Len(place), h # g
        PROVE  \E j \in 1..(Len(place) - 1) : h = at(j)
    <2>1. CASE h < g
      BY <1>1, <2>1
    <2>2. CASE ~(h < g)
      <3>1. h - 1 \in 1..(Len(place) - 1) /\ ~(h - 1 < g) /\ (h - 1) + 1 = h
        BY <1>1, <1>5, <2>2
      <3> QED BY <3>1
    <2> QED BY <2>1, <2>2
  <1>6. \A j, h \in 1..(Len(place) - 1) : at(j) = at(h) => j = h
    BY <1>1
  <1> HIDE DEF at
  <1>7. ASSUME NEW j \in DOMAIN p
        PROVE  \E x \in Keys : hash[x] = b /\ ListOf(p[j], With(f2, x))
    <2>1. at(j) \in 1..Len(place) /\ at(j) # g /\ p[j] = place[at(j)]
      BY <1>3, <1>4
    <2>2. PICK x \in Keys : /\ hash[x] = b /\ ListOf(place[at(j)], With(f, x))
                            /\ Range(place[at(j)]) = With(f, x)
      BY <2>1, ChainFacts, SMTT(30)
    <2>3. x # k
      BY <1>1, <2>1, <2>2 DEF PlaceRight
    <2> QED BY <2>1, <2>2, <2>3
  <1>8. ASSUME NEW j \in DOMAIN p, NEW h \in DOMAIN p, Range(p[j]) = Range(p[h])
        PROVE  j = h
    <2>1. /\ at(j) \in 1..Len(place) /\ p[j] = place[at(j)]
          /\ at(h) \in 1..Len(place) /\ p[h] = place[at(h)]
      BY <1>3, <1>4
    <2>2. at(j) = at(h)
      BY <1>1, <1>8, <2>1 DEF PlaceRight
    <2> QED BY <1>3, <1>6, <2>2
  <1>9. ASSUME NEW x \in Keys, hash[x] = b, With(f2, x) # {}
        PROVE  \E j \in DOMAIN p : Range(p[j]) = With(f2, x)
    <2>1. x # k /\ With(f2, x) = With(f, x)
      BY <1>9
    <2>2. PICK h \in 1..Len(place) : Range(place[h]) = With(f, x)
      BY <1>1, <1>9, <2>1 DEF PlaceRight
    <2>3. h # g
      BY <1>9, <2>1, <2>2 DEF With
    <2>4. PICK j \in 1..(Len(place) - 1) : h = at(j)
      BY <1>5, <2>3
    <2> QED BY <1>3, <1>4, <2>1, <2>2, <2>4
  <1> QED
    BY <1>2, <1>7, <1>8, <1>9 DEF PlaceRight, p

\* What changes under one key leaves the places of the others right.
LEMMA OtherPlace ==
    ASSUME NEW f \in Entered, NEW f2 \in Entered, NEW place, NEW b,
           PlaceRight(place, f, b),
           \A x \in Keys : hash[x] = b => With(f2, x) = With(f, x)
    PROVE  PlaceRight(place, f2, b)
  BY DEF PlaceRight

-----------------------------------------------------------------------------
(* One index                                                               *)

SameRecords(d, e) == e.rec = d.rec /\ e.used = d.used /\ e.num = d.num

\* The lists of place hash[k] are compared by the key of their first record:
\* those that read as k are those of k, and the other way round.
ReadsAs(d, i, f, k) == \A t \in All(f) : d.rec[t][i] = k <=> f[t] = k

\* The records that are entered under k have that key.
KeyReads(d, i, f, k) == \A t \in With(f, k) : d.rec[t][i] = k

\* Sets of slots are finite.
LEMMA Finite ==
    /\ IsFiniteSet(Slots) /\ SlotNum \in Nat /\ Cardinality(Slots) = SlotNum
    /\ \A S \in SUBSET Slots : IsFiniteSet(S) /\ Cardinality(S) \in Nat
  <1>1. IsFiniteSet(Slots) /\ SlotNum \in Nat /\ Cardinality(Slots) = SlotNum
    BY TableAssumption, FS_Interval DEF Slots
  <1> QED BY <1>1, FS_Subset, FS_CardinalityType

\* Replacing one place of one index keeps the others.
LEMMA IndexReplaced ==
    ASSUME NEW d, NEW K, Holds(d, K), NEW i \in Indexes, NEW b \in Places,
           NEW p, NEW m \in Nat, NEW f2 \in Entered, PlaceRight(p, f2, b),
           \A x \in Keys : hash[x] # b => With(f2, x) = With(K[i], x),
           m + Cardinality(All(f2)) = NodeNum[i],
           i \in Unique => \A s, t \in All(f2) : f2[s] = f2[t] => s = t,
           NEW e, e = [d EXCEPT !.node[i] = m, !.table[i][b] = p]
    PROVE  Holds(e, [K EXCEPT ![i] = f2]) /\ SameRecords(d, e)
  <1> DEFINE L == [K EXCEPT ![i] = f2]
  <1>1. /\ d \in DB /\ K \in [Indexes -> Entered] /\ p \in Chains
        /\ d.table \in Tables /\ d.node \in [Indexes -> Nat]
    BY DEF Holds, DB, PlaceRight
  <1>2. /\ e \in DB /\ SameRecords(d, e)
        /\ e.node = [d.node EXCEPT ![i] = m]
        /\ e.table = [d.table EXCEPT ![i] = [d.table[i] EXCEPT ![b] = p]]
    <2>1. /\ e.rec = d.rec /\ e.used = d.used /\ e.num = d.num
          /\ e.node = [d.node EXCEPT ![i] = m]
          /\ e.table = [d.table EXCEPT ![i] = [d.table[i] EXCEPT ![b] = p]]
          /\ e = [rec |-> e.rec, used |-> e.used, num |-> e.num,
                  node |-> e.node, table |-> e.table]
      BY <1>1 DEF DB
    <2>2. e.node \in [Indexes -> Nat] /\ e.table \in Tables
      BY <1>1, <2>1 DEF Tables
    <2> QED BY <1>1, <2>1, <2>2 DEF DB, SameRecords
  <1>3. L \in [Indexes -> Entered] /\ L[i] = f2 /\ \A j \in Indexes \ {i} : L[j] = K[j]
    BY <1>1
  <1>4. \A j \in Indexes \ {i} : IndexRight(j, e.table[j], e.node[j], L[j])
    BY <1>1, <1>2, <1>3 DEF Holds
  <1>5. IndexRight(i, e.table[i], e.node[i], L[i])
    <2>1. /\ e.table[i] = [d.table[i] EXCEPT ![b] = p] /\ e.node[i] = m
          /\ d.table[i] \in [Places -> Chains]
      BY <1>1, <1>2 DEF Tables
    <2>2. e.table[i] \in [Places -> Chains]
      BY <1>1, <2>1
    <2>3. ASSUME NEW c \in Places PROVE PlaceRight(e.table[i][c], f2, c)
      <3>1. CASE c = b
        BY <2>1, <3>1
      <3>2. CASE c # b
        <4>1. e.table[i][c] = d.table[i][c] /\ PlaceRight(d.table[i][c], K[i], c)
          BY <2>1, <3>2 DEF Holds, IndexRight
        <4>2. K[i] \in Entered
          BY <1>1
        <4> QED BY <3>2, <4>1, <4>2, OtherPlace
      <3> QED BY <3>1, <3>2
    <2> QED BY <1>3, <2>1, <2>2, <2>3 DEF IndexRight
  <1> HIDE DEF L
  <1>6. Holds(e, L)
    BY <1>2, <1>3, <1>4, <1>5 DEF Holds
  <1> QED BY <1>2, <1>6 DEF L

\* What a step of an index finds at the place of a key.
LEMMA PlaceOf ==
    ASSUME NEW d, NEW K, Holds(d, K), NEW i \in Indexes, NEW k \in Keys
    PROVE  /\ K[i] \in Entered /\ hash[k] \in Places
           /\ PlaceRight(Place(d, i, k), K[i], hash[k])
           /\ d.node[i] \in Nat /\ All(K[i]) \in SUBSET Slots
           /\ d.node[i] + Cardinality(All(K[i])) = NodeNum[i]
           /\ i \in Unique => \A s, t \in All(K[i]) : K[i][s] = K[i][t] => s = t
  BY DEF Holds, DB, IndexRight, Place, Places, All

\* The lists whose first record reads as k are those entered under k.
LEMMA ListsExact ==
    ASSUME NEW d, NEW K, Holds(d, K), NEW i \in Indexes, NEW k \in Keys,
           ReadsAs(d, i, K[i], k)
    PROVE  Lists(d, i, k) =
               {g \in DOMAIN Place(d, i, k) : Range(Place(d, i, k)[g]) = With(K[i], k)}
  <1> DEFINE place == Place(d, i, k)
  <1>1. PlaceRight(place, K[i], hash[k]) /\ K[i] \in Entered
    BY PlaceOf
  <1>2. ASSUME NEW g \in DOMAIN place
        PROVE  d.rec[Head(place[g])][i] = k <=> Range(place[g]) = With(K[i], k)
    <2>1. PICK x \in Keys : ListOf(place[g], With(K[i], x)) /\ With(K[i], x) # {}
                            /\ Range(place[g]) = With(K[i], x)
      BY <1>1, ChainKey
    <2>2. Head(place[g]) \in With(K[i], x)
      BY <1>1, <2>1, ChainFacts
    <2>3. Head(place[g]) \in All(K[i]) /\ K[i][Head(place[g])] = x
      BY <2>2, TableAssumption DEF With, All
    <2>4. With(K[i], x) = With(K[i], k) <=> x = k
      BY <2>1 DEF With
    <2> QED BY <2>1, <2>3, <2>4 DEF ReadsAs
  <1> QED BY <1>2 DEF Lists

\* At most one list is found, and it has all the entries of the key.
LEMMA TheList ==
    ASSUME NEW d, NEW K, Holds(d, K), NEW i \in Indexes, NEW k \in Keys,
           ReadsAs(d, i, K[i], k)
    PROVE  /\ With(K[i], k) = {} => Lists(d, i, k) = {}
           /\ With(K[i], k) # {} =>
                 \E g \in DOMAIN Place(d, i, k) :
                     /\ Lists(d, i, k) = {g} /\ Min(Lists(d, i, k)) = g
                     /\ Range(Place(d, i, k)[g]) = With(K[i], k)
                     /\ ListOf(Place(d, i, k)[g], With(K[i], k))
  <1> DEFINE place == Place(d, i, k)
  <1>1. /\ PlaceRight(place, K[i], hash[k]) /\ K[i] \in Entered
        /\ DOMAIN place = 1..Len(place) /\ Len(place) \in Nat
    BY PlaceOf, ChainFacts
  <1>2. Lists(d, i, k) = {g \in DOMAIN place : Range(place[g]) = With(K[i], k)}
    BY ListsExact
  <1>3. ASSUME With(K[i], k) = {} PROVE Lists(d, i, k) = {}
    <2>1. \A g \in DOMAIN place : Range(place[g]) # {}
      BY <1>1, ChainKey
    <2> QED BY <1>2, <1>3, <2>1
  <1>4. ASSUME With(K[i], k) # {}
        PROVE  \E g \in DOMAIN place :
                  /\ Lists(d, i, k) = {g} /\ Min(Lists(d, i, k)) = g
                  /\ Range(place[g]) = With(K[i], k)
                  /\ ListOf(place[g], With(K[i], k))
    <2>1. PICK g \in DOMAIN place : Range(place[g]) = With(K[i], k)
      BY <1>1, <1>4 DEF PlaceRight
    <2>2. Lists(d, i, k) = {g}
      BY <1>1, <1>2, <2>1 DEF PlaceRight
    <2>3. Min({g}) = g
      BY <1>1 DEF Min
    <2>4. ListOf(place[g], With(K[i], k))
      BY <1>1, <2>1, ChainKey
    <2> QED BY <2>1, <2>2, <2>3, <2>4
  <1> QED BY <1>3, <1>4

\* Entering a slot adds one to the entries, taking it out removes one.
LEMMA AllChanged ==
    ASSUME NEW f \in Entered, NEW s \in Slots
    PROVE  /\ \A k \in Keys : f[s] = Link =>
                 /\ All([f EXCEPT ![s] = k]) = All(f) \cup {s}
                 /\ Cardinality(All([f EXCEPT ![s] = k])) = Cardinality(All(f)) + 1
           /\ f[s] # Link =>
                 /\ All([f EXCEPT ![s] = Link]) = All(f) \ {s}
                 /\ Cardinality(All([f EXCEPT ![s] = Link])) = Cardinality(All(f)) - 1
  <1>0. All(f) \in SUBSET Slots /\ IsFiniteSet(All(f)) /\ Cardinality(All(f)) \in Nat
    BY Finite DEF All
  <1>1. ASSUME NEW k \in Keys, f[s] = Link
        PROVE  /\ All([f EXCEPT ![s] = k]) = All(f) \cup {s}
               /\ Cardinality(All([f EXCEPT ![s] = k])) = Cardinality(All(f)) + 1
    <2>1. All([f EXCEPT ![s] = k]) = All(f) \cup {s} /\ s \notin All(f)
      BY <1>1, TableAssumption DEF All, Entered
    <2> QED BY <1>0, <2>1, FS_AddElement
  <1>2. ASSUME f[s] # Link
        PROVE  /\ All([f EXCEPT ![s] = Link]) = All(f) \ {s}
               /\ Cardinality(All([f EXCEPT ![s] = Link])) = Cardinality(All(f)) - 1
    <2>1. All([f EXCEPT ![s] = Link]) = All(f) \ {s} /\ s \in All(f)
      BY <1>2 DEF All, Entered
    <2> QED BY <1>0, <2>1, FS_RemoveElement, ZenonT(30)
  <1> QED BY <1>1, <1>2

-----------------------------------------------------------------------------

\* An index takes an entry, unless its key is to be unique and is there, or no
\* node is left; then nothing is changed.
LEMMA InsertIdx ==
    ASSUME NEW d, NEW K, Holds(d, K), NEW i \in Indexes, NEW k \in Keys,
           NEW s \in Slots, K[i][s] = Link, ReadsAs(d, i, K[i], k)
    PROVE  IF (i \in Unique /\ With(K[i], k) # {}) \/ d.node[i] = 0
           THEN insertIdx(d, i, k, s) = Thrown(d)
           ELSE /\ insertIdx(d, i, k, s).ok
                /\ Holds(insertIdx(d, i, k, s).d, [K EXCEPT ![i] = [K[i] EXCEPT ![s] = k]])
                /\ SameRecords(d, insertIdx(d, i, k, s).d)
  <1> DEFINE place == Place(d, i, k)
             lists == Lists(d, i, k)
             f == K[i]
             f2 == [f EXCEPT ![s] = k]
             p == Placed(s, place, lists)
             e == [d EXCEPT !.node[i] = @ - 1, !.table[i][hash[k]] = Placed(s, @, lists)]
  <1>1. /\ f \in Entered /\ hash[k] \in Places /\ PlaceRight(place, f, hash[k])
        /\ d.node[i] \in Nat /\ d.node[i] + Cardinality(All(f)) = NodeNum[i]
        /\ i \in Unique => \A x, y \in All(f) : f[x] = f[y] => x = y
    BY PlaceOf
  <1>2. lists # {} <=> With(f, k) # {}
    BY TheList
  <1>3. CASE (i \in Unique /\ With(f, k) # {}) \/ d.node[i] = 0
    BY <1>2, <1>3 DEF insertIdx
  <1>4. CASE ~((i \in Unique /\ With(f, k) # {}) \/ d.node[i] = 0)
    <2>1. insertIdx(d, i, k, s) = Done(e)
      BY <1>2, <1>4 DEF insertIdx
    <2>2. e = [d EXCEPT !.node[i] = d.node[i] - 1, !.table[i][hash[k]] = p]
      BY <1>1 DEF Holds, DB, Tables, Place
    <2>3. /\ f2 \in Entered /\ With(f2, k) = With(f, k) \cup {s}
          /\ \A x \in Keys : x # k => With(f2, x) = With(f, x)
      BY <1>1, WithChanged, TableAssumption DEF With
    <2>4. PlaceRight(p, f2, hash[k])
      <3>1. CASE With(f, k) = {}
        <4>1. p = <<<<s>>>> \o place
          BY <1>2, <3>1 DEF Placed
        <4> QED BY <1>1, <3>1, <4>1, NewList
      <3>2. CASE With(f, k) # {}
        <4>1. PICK g \in DOMAIN place :
                  /\ lists = {g} /\ Min(lists) = g
                  /\ Range(place[g]) = With(f, k) /\ ListOf(place[g], With(f, k))
          BY <3>2, TheList
        <4> DEFINE q == <<Head(place[g]), s>> \o Tail(place[g])
        <4>2. p = [place EXCEPT ![g] = q]
          BY <4>1 DEF Placed
        <4>3. place[g] # <<>>
          BY <1>1, ChainFacts
        <4>4. s \notin With(f, k) /\ With(f, k) \subseteq Slots
          BY TableAssumption DEF With
        <4>5. /\ ListOf(q, With(f, k) \cup {s}) /\ q \in Seq(Slots) \ {<<>>}
          BY <4>1, <4>3, <4>4, SecondAdded
        <4> HIDE DEF q, p, f2, place, f
        <4>6. PlaceRight([place EXCEPT ![g] = q], f2, hash[k])
          BY <1>1, <2>3, <3>2, <4>1, <4>5, ListChanged
        <4> QED BY <4>2, <4>6
      <3> QED BY <3>1, <3>2
    <2>5. d.node[i] - 1 \in Nat /\ (d.node[i] - 1) + Cardinality(All(f2)) = NodeNum[i]
      <3>1. Cardinality(All(f2)) = Cardinality(All(f)) + 1
        BY <1>1, AllChanged
      <3>2. Cardinality(All(f)) \in Nat
        BY Finite DEF All
      <3> HIDE DEF f, f2
      <3> QED BY <1>1, <1>4, <3>1, <3>2
    <2>6. ASSUME i \in Unique, NEW x \in All(f2), NEW y \in All(f2), f2[x] = f2[y]
          PROVE  x = y
      <3>1. With(f, k) = {}
        BY <1>4, <2>6
      <3>2. \A z \in All(f2) : z # s => z \in All(f) /\ f2[z] = f[z] /\ f[z] # k
        BY <1>1, <3>1 DEF All, With, Entered
      <3>3. f2[s] = k
        BY <1>1 DEF Entered
      <3> HIDE DEF f2, f
      <3> QED BY <1>1, <2>6, <3>2, <3>3
    <2>7. \A x \in Keys : hash[x] # hash[k] => With(f2, x) = With(f, x)
      BY <2>3
    <2> HIDE DEF e, p, f2, place, lists
    <2>8. i \in Unique => \A x, y \in All(f2) : f2[x] = f2[y] => x = y
      BY <2>6
    <2> DEFINE m == d.node[i] - 1
               b == hash[k]
    <2>9. /\ b \in Places /\ m \in Nat /\ f2 \in Entered /\ PlaceRight(p, f2, b)
          /\ \A x \in Keys : hash[x] # b => With(f2, x) = With(K[i], x)
          /\ m + Cardinality(All(f2)) = NodeNum[i]
          /\ e = [d EXCEPT !.node[i] = m, !.table[i][b] = p]
      BY <1>1, <2>2, <2>3, <2>4, <2>5, <2>7
    <2> HIDE DEF m, b
    <2>10. Holds(e, [K EXCEPT ![i] = f2]) /\ SameRecords(d, e)
      BY <2>8, <2>9, IndexReplaced, ZenonT(30)
    <2> QED BY <1>4, <2>1, <2>10 DEF Done, f2, e
  <1> QED BY <1>3, <1>4

\* An entry is found under the key it was entered with, if the records of that
\* key read so, and only it is deleted.
LEMMA DeleteIdx ==
    ASSUME NEW d, NEW K, Holds(d, K), NEW i \in Indexes, NEW k \in Keys,
           NEW s \in Slots, K[i][s] = k,
           KeyReads(d, i, K[i], k)
    PROVE  /\ Holds(deleteIdx(d, i, k, s), [K EXCEPT ![i] = [K[i] EXCEPT ![s] = Link]])
           /\ SameRecords(d, deleteIdx(d, i, k, s))
  <1> DEFINE place == Place(d, i, k)
             found == {g \in Lists(d, i, k) : s \in Range(place[g])}
             f == K[i]
             f2 == [f EXCEPT ![s] = Link]
  <1>1. /\ f \in Entered /\ hash[k] \in Places /\ PlaceRight(place, f, hash[k])
        /\ d.node[i] \in Nat /\ d.node[i] + Cardinality(All(f)) = NodeNum[i]
        /\ i \in Unique => \A x, y \in All(f) : f[x] = f[y] => x = y
        /\ DOMAIN place = 1..Len(place) /\ Len(place) \in Nat
    BY PlaceOf, ChainFacts
  <1>2. s \in With(f, k) /\ k # Link
    BY TableAssumption DEF With
  <1>3. PICK g \in DOMAIN place : Range(place[g]) = With(f, k)
    BY <1>1, <1>2 DEF PlaceRight
  <1>4. \A h \in DOMAIN place : s \in Range(place[h]) => h = g
    <2> SUFFICES ASSUME NEW h \in DOMAIN place, s \in Range(place[h]) PROVE h = g
      OBVIOUS
    <2>1. PICK x \in Keys : Range(place[h]) = With(f, x)
      BY <1>1, ChainKey
    <2>2. x = k
      BY <2>1 DEF With
    <2> QED BY <1>1, <1>3, <2>1, <2>2 DEF PlaceRight
  <1>5. found = {g} /\ Min(found) = g
    <2>1. Head(place[g]) \in With(f, k)
      BY <1>1, <1>3, ChainFacts
    <2>2. g \in Lists(d, i, k)
      BY <2>1 DEF Lists, KeyReads
    <2>3. found = {g}
      BY <1>2, <1>3, <1>4, <2>2 DEF Lists
    <2>4. Min({g}) = g
      BY <1>1 DEF Min
    <2> QED BY <2>3, <2>4
  <1> DEFINE rest == RemoveFirst(place[g], s)
             p == IF rest = <<>> THEN RemoveAt(place, g) ELSE [place EXCEPT ![g] = rest]
             e == [d EXCEPT !.node[i] = d.node[i] + 1, !.table[i][hash[k]] = p]
  <1>6. deleteIdx(d, i, k, s) = e
    BY <1>1, <1>5 DEF deleteIdx, Holds, DB, Tables, Place
  <1>7. /\ f2 \in Entered /\ With(f2, k) = With(f, k) \ {s}
        /\ \A x \in Keys : x # k => With(f2, x) = With(f, x)
    <2>1. f2 \in Entered
      BY <1>1, WithChanged
    <2>2. With(f2, k) = With(f, k) \ {s}
      BY <1>1, <1>2 DEF With, Entered
    <2>3. ASSUME NEW x \in Keys, x # k PROVE With(f2, x) = With(f, x)
      <3>1. With(f2, x) = With(f, x) \ {s}
        BY <1>1, TableAssumption DEF With, Entered
      <3> QED BY <2>3, <3>1 DEF With
    <2> QED BY <2>1, <2>2, <2>3
  <1>8. PlaceRight(p, f2, hash[k])
    <2>1. ListOf(place[g], With(f, k))
      BY <1>1, <1>3, ChainKey
    <2>2. ListOf(rest, With(f, k) \ {s}) /\ (rest = <<>> <=> With(f, k) = {s})
      <3> DEFINE S == With(f, k)
                 q == place[g]
      <3>1. ListOf(q, S) /\ s \in S
        BY <1>2, <2>1
      <3> HIDE DEF S, q
      <3>2. /\ ListOf(RemoveFirst(q, s), S \ {s})
            /\ RemoveFirst(q, s) = <<>> <=> S = {s}
        BY <3>1, OneRemoved
      <3> QED BY <3>2 DEF S, q
    <2>3. CASE rest = <<>>
      <3>1. With(f2, k) = {}
        BY <1>7, <2>2, <2>3
      <3>2. p = RemoveAt(place, g)
        BY <2>3
      <3> HIDE DEF f2, p, place, f, rest
      <3>3. PlaceRight(RemoveAt(place, g), f2, hash[k])
        BY <1>1, <1>3, <1>7, <3>1, ListDropped
      <3> QED BY <3>2, <3>3
    <2>4. CASE rest # <<>>
      <3>1. ListOf(rest, With(f2, k)) /\ With(f2, k) # {} /\ With(f, k) # {}
        BY <1>2, <1>7, <2>2, <2>4
      <3>2. rest \in Seq(Slots) \ {<<>>}
        <4>1. With(f2, k) \subseteq Slots
          BY DEF With
        <4>2. rest \in Seq(With(f2, k))
          BY <3>1 DEF ListOf
        <4> HIDE DEF f2, rest
        <4> QED BY <2>4, <4>1, <4>2, SeqMonotonic
      <3>3. p = [place EXCEPT ![g] = rest]
        BY <2>4
      <3> HIDE DEF f2, p, place, f, rest
      <3>4. PlaceRight([place EXCEPT ![g] = rest], f2, hash[k])
        BY <1>1, <1>3, <1>7, <3>1, <3>2, ListChanged
      <3> QED BY <3>3, <3>4
    <2> QED BY <2>3, <2>4
  <1>9. d.node[i] + 1 \in Nat /\ (d.node[i] + 1) + Cardinality(All(f2)) = NodeNum[i]
    <2>1. Cardinality(All(f2)) = Cardinality(All(f)) - 1
      BY <1>1, <1>2, AllChanged
    <2>2. Cardinality(All(f)) \in Nat
      BY Finite DEF All
    <2> HIDE DEF f, f2
    <2> QED BY <1>1, <2>1, <2>2, SMTT(30)
  <1>10. ASSUME i \in Unique, NEW x \in All(f2), NEW y \in All(f2), f2[x] = f2[y]
         PROVE  x = y
    <2>1. \A z \in All(f2) : z \in All(f) /\ f2[z] = f[z]
      BY <1>1 DEF All, Entered
    <2> HIDE DEF f, f2
    <2> QED BY <1>1, <1>10, <2>1
  <1>11. \A x \in Keys : hash[x] # hash[k] => With(f2, x) = With(f, x)
    BY <1>7
  <1> HIDE DEF p, f2, place, e
  <1>12. i \in Unique => \A x, y \in All(f2) : f2[x] = f2[y] => x = y
    BY <1>10
  <1> DEFINE m == d.node[i] + 1
             b == hash[k]
  <1>13. /\ b \in Places /\ m \in Nat /\ f2 \in Entered /\ PlaceRight(p, f2, b)
         /\ \A x \in Keys : hash[x] # b => With(f2, x) = With(K[i], x)
         /\ m + Cardinality(All(f2)) = NodeNum[i]
         /\ e = [d EXCEPT !.node[i] = m, !.table[i][b] = p]
    BY <1>1, <1>7, <1>8, <1>9, <1>11 DEF e
  <1> HIDE DEF m, b, found, rest
  <1>14. Holds(e, [K EXCEPT ![i] = f2]) /\ SameRecords(d, e)
    BY <1>12, <1>13, IndexReplaced, ZenonT(30)
  <1> QED BY <1>6, <1>14 DEF f2

-----------------------------------------------------------------------------
(* Loops.  A recursive function is what its equation says only if there is *)
(* a function that satisfies it: this is shown step by step.               *)

\* A function on 1..n is a list of length n.
LEMMA LenOf ==
    ASSUME NEW n \in Nat, NEW f, f = [j \in 1..n |-> f[j]]
    PROVE  f \in Seq(Range(f)) /\ Len(f) = n /\ DOMAIN f = 1..n
  <1>1. DOMAIN f = 1..n
    OBVIOUS
  <1>2. f \in [1..n -> Range(f)]
    BY <1>1 DEF Range
  <1>3. f \in Seq(Range(f))
    <2> DEFINE S == Range(f)
    <2> HIDE DEF S
    <2>1. f \in Seq(S)
      BY <1>2, SeqDef DEF S
    <2> QED BY <2>1 DEF S
  <1>4. DOMAIN f = 1..Len(f) /\ Len(f) \in Nat
    BY <1>3, LenProperties
  <1>5. Len(f) = n
    BY <1>1, <1>4
  <1> QED BY <1>1, <1>3, <1>5

ChangeStep(g, d, s, logs, j) ==
    IF j = 0 THEN Start(d) ELSE Then(g[j - 1], Change(g[j - 1].d, s, logs[j]))
ChangeRun(d, s, logs) ==
    CHOOSE g : g = [j \in 0..Len(logs) |-> ChangeStep(g, d, s, logs, j)]

\* ChangeAll is the last step of the loop.
LEMMA ChangeAllIs ==
    ASSUME NEW d, NEW s, NEW logs
    PROVE  ChangeAll(d, s, logs) = ChangeRun(d, s, logs)[Len(logs)]
  BY DEF ChangeAll, ChangeRun, ChangeStep

\* Each step of the loop over the indexes follows from the one before.
LEMMA ChangeSteps ==
    ASSUME NEW d, NEW s, NEW logs, Len(logs) \in Nat
    PROVE  \A j \in 0..Len(logs) :
               ChangeRun(d, s, logs)[j] =
                   ChangeStep(ChangeRun(d, s, logs), d, s, logs, j)
  <1> DEFINE n == Len(logs)
             Fits(m, g) == g = [j \in 0..m |-> ChangeStep(g, d, s, logs, j)]
             S == {m \in 0..n : \E g : Fits(m, g)}
  <1>1. 0 \in S
    <2> DEFINE g == [j \in 0..0 |-> Start(d)]
    <2>1. Fits(0, g)
      BY DEF ChangeStep
    <2> QED BY <2>1
  <1>2. ASSUME NEW m \in 0..(n - 1), m \in S PROVE m + 1 \in S
    <2>1. PICK g : Fits(m, g)
      BY <1>2
    <2> DEFINE h == [j \in 0..(m + 1) |-> IF j = m + 1 THEN ChangeStep(g, d, s, logs, j)
                                                      ELSE g[j]]
    <2>2. \A j \in 0..(m + 1) : h[j] = ChangeStep(h, d, s, logs, j)
      <3> SUFFICES ASSUME NEW j \in 0..(m + 1)
                   PROVE  h[j] = ChangeStep(h, d, s, logs, j)
        OBVIOUS
      <3>1. j # 0 => h[j - 1] = g[j - 1]
        OBVIOUS
      <3>2. ChangeStep(h, d, s, logs, j) = ChangeStep(g, d, s, logs, j)
        BY <3>1 DEF ChangeStep
      <3>3. h[j] = ChangeStep(g, d, s, logs, j)
        BY <2>1
      <3> QED BY <3>2, <3>3
    <2>3. Fits(m + 1, h)
      BY <2>2
    <2>4. \E g2 : Fits(m + 1, g2)
      <3> HIDE DEF h, Fits
      <3> QED BY <2>3
    <2> HIDE DEF Fits
    <2> QED BY <2>4
  <1> HIDE DEF S
  <1>3. n \in S
    <2>1. S \in SUBSET (0..n)
      BY DEF S
    <2>2. \A j \in 0..(n - 1) : j \in S => j + 1 \in S
      BY <1>2
    <2>3. \A j \in 0..n : j \in S
      BY <1>1, <2>1, <2>2, AlongLoop
    <2> QED BY <2>3
  <1>4. Fits(n, ChangeRun(d, s, logs))
    <2>1. \E g : g = [j \in 0..n |-> ChangeStep(g, d, s, logs, j)]
      BY <1>3 DEF S
    <2> QED BY <2>1 DEF ChangeRun
  <1> QED BY <1>4

CallStep(g, d, calls, j) ==
    IF j = 0 THEN Start(d) ELSE Then(g[j - 1], AllIndexes(g[j - 1].d, calls[j]))
CallRun(d, calls) ==
    CHOOSE g : g = [j \in 0..Len(calls) |-> CallStep(g, d, calls, j)]

\* CallAll is the last step of the loop.
LEMMA CallAllIs ==
    ASSUME NEW d, NEW calls
    PROVE  CallAll(d, calls) = CallRun(d, calls)[Len(calls)]
  BY DEF CallAll, CallRun, CallStep

\* Each step of the loop over the records follows from the one before.
LEMMA CallSteps ==
    ASSUME NEW d, NEW calls, Len(calls) \in Nat
    PROVE  \A j \in 0..Len(calls) :
               CallRun(d, calls)[j] = CallStep(CallRun(d, calls), d, calls, j)
  <1> DEFINE n == Len(calls)
             Fits(m, g) == g = [j \in 0..m |-> CallStep(g, d, calls, j)]
             S == {m \in 0..n : \E g : Fits(m, g)}
  <1>1. 0 \in S
    <2> DEFINE g == [j \in 0..0 |-> Start(d)]
    <2>1. Fits(0, g)
      BY DEF CallStep
    <2> QED BY <2>1
  <1>2. ASSUME NEW m \in 0..(n - 1), m \in S PROVE m + 1 \in S
    <2>1. PICK g : Fits(m, g)
      BY <1>2
    <2> DEFINE h == [j \in 0..(m + 1) |-> IF j = m + 1 THEN CallStep(g, d, calls, j)
                                                      ELSE g[j]]
    <2>2. \A j \in 0..(m + 1) : h[j] = CallStep(h, d, calls, j)
      <3> SUFFICES ASSUME NEW j \in 0..(m + 1)
                   PROVE  h[j] = CallStep(h, d, calls, j)
        OBVIOUS
      <3>1. j # 0 => h[j - 1] = g[j - 1]
        OBVIOUS
      <3>2. CallStep(h, d, calls, j) = CallStep(g, d, calls, j)
        BY <3>1 DEF CallStep
      <3>3. h[j] = CallStep(g, d, calls, j)
        BY <2>1
      <3> QED BY <3>2, <3>3
    <2>3. Fits(m + 1, h)
      BY <2>2
    <2>4. \E g2 : Fits(m + 1, g2)
      <3> HIDE DEF h, Fits
      <3> QED BY <2>3
    <2> HIDE DEF Fits
    <2> QED BY <2>4
  <1> HIDE DEF S
  <1>3. n \in S
    <2>1. S \in SUBSET (0..n)
      BY DEF S
    <2>2. \A j \in 0..(n - 1) : j \in S => j + 1 \in S
      BY <1>2
    <2>3. \A j \in 0..n : j \in S
      BY <1>1, <2>1, <2>2, AlongLoop
    <2> QED BY <2>3
  <1>4. Fits(n, CallRun(d, calls))
    <2>1. \E g : g = [j \in 0..n |-> CallStep(g, d, calls, j)]
      BY <1>3 DEF S
    <2> QED BY <2>1 DEF CallRun
  <1> QED BY <1>4

-----------------------------------------------------------------------------

\* Where a loop of n steps has come to: through all of them, or to one that
\* may throw.  Good[j] are the states that j steps may lead to, Stop the steps
\* that may throw.
Through(r, m, Good, Stop) ==
    \/ r.ok /\ r.n = m /\ r.d \in Good[m]
    \/ ~r.ok /\ r.n \in 0..(m - 1) /\ r.d \in Good[r.n] /\ r.n + 1 \in Stop
\* A step either leads on, or throws where it may and leaves what was there.
LeadsOn(c, j, Good, Stop) ==
    \/ c.ok /\ c.d \in Good[j]
    \/ ~c.ok /\ c.d \in Good[j - 1] /\ j \in Stop

\* One step of either loop: it goes on, or stops where it is.
LEMMA ThenThrough ==
    ASSUME NEW r, NEW c, NEW m \in Nat, NEW Good, NEW Stop,
           Through(r, m, Good, Stop),
           r.ok => LeadsOn(c, m + 1, Good, Stop)
    PROVE  Through(Then(r, c), m + 1, Good, Stop)
  <1>1. CASE ~r.ok
    BY <1>1 DEF Through, Then
  <1>2. CASE r.ok
    <2>1. CASE c.ok
      BY <1>2, <2>1 DEF Through, Then, LeadsOn
    <2>2. CASE ~c.ok
      <3>1. Then(r, c) = [ok |-> c.ok, d |-> c.d, n |-> m]
        BY <1>2, <2>2 DEF Then, Through
      <3>2. c.d \in Good[m] /\ m + 1 \in Stop
        BY <1>2, <2>2 DEF LeadsOn
      <3> QED BY <2>2, <3>1, <3>2 DEF Through
    <2> QED BY <2>1, <2>2
  <1> QED BY <1>1, <1>2

\* The loop over the indexes ends in the last state or where a change throws.
LEMMA ChangeLoop ==
    ASSUME NEW d, NEW s, NEW logs, NEW n \in Nat, Len(logs) = n, NEW Good, NEW Stop,
           d \in Good[0],
           \A j \in 1..n : \A e \in Good[j - 1] :
               LeadsOn(Change(e, s, logs[j]), j, Good, Stop)
    PROVE  Through(ChangeAll(d, s, logs), n, Good, Stop)
  <1> DEFINE r == ChangeRun(d, s, logs)
             S == {m \in 0..n : Through(r[m], m, Good, Stop)}
  <1>1. \A j \in 0..n : r[j] = ChangeStep(r, d, s, logs, j)
    BY ChangeSteps
  <1> HIDE DEF r
  <1>2. 0 \in S
    <2>1. r[0] = Start(d)
      BY <1>1 DEF ChangeStep
    <2> QED BY <2>1 DEF Start, Through
  <1>3. ASSUME NEW m \in 0..(n - 1), m \in S PROVE m + 1 \in S
    <2>1. r[m + 1] = Then(r[m], Change(r[m].d, s, logs[m + 1]))
      BY <1>1 DEF ChangeStep
    <2>2. Through(r[m], m, Good, Stop)
      BY <1>3
    <2>3. r[m].ok => LeadsOn(Change(r[m].d, s, logs[m + 1]), m + 1, Good, Stop)
      BY <2>2 DEF Through
    <2>4. Through(r[m + 1], m + 1, Good, Stop)
      BY <2>1, <2>2, <2>3, ThenThrough
    <2> QED BY <2>4
  <1>4. \A j \in 0..n : j \in S
    <2>1. S \in SUBSET (0..n)
      OBVIOUS
    <2> HIDE DEF S
    <2> QED BY <1>2, <1>3, <2>1, AlongLoop
  <1>5. Through(r[n], n, Good, Stop)
    BY <1>4
  <1> QED BY <1>5, ChangeAllIs DEF r

\* The loop over the records ends in the last state or where a call throws.
LEMMA CallLoop ==
    ASSUME NEW d, NEW calls, NEW n \in Nat, Len(calls) = n, NEW Good, NEW Stop,
           d \in Good[0],
           \A j \in 1..n : \A e \in Good[j - 1] :
               LeadsOn(AllIndexes(e, calls[j]), j, Good, Stop)
    PROVE  Through(CallAll(d, calls), n, Good, Stop)
  <1> DEFINE r == CallRun(d, calls)
             S == {m \in 0..n : Through(r[m], m, Good, Stop)}
  <1>1. \A j \in 0..n : r[j] = CallStep(r, d, calls, j)
    BY CallSteps
  <1> HIDE DEF r
  <1>2. 0 \in S
    <2>1. r[0] = Start(d)
      BY <1>1 DEF CallStep
    <2> QED BY <2>1 DEF Start, Through
  <1>3. ASSUME NEW m \in 0..(n - 1), m \in S PROVE m + 1 \in S
    <2>1. r[m + 1] = Then(r[m], AllIndexes(r[m].d, calls[m + 1]))
      BY <1>1 DEF CallStep
    <2>2. Through(r[m], m, Good, Stop)
      BY <1>3
    <2>3. r[m].ok => LeadsOn(AllIndexes(r[m].d, calls[m + 1]), m + 1, Good, Stop)
      BY <2>2 DEF Through
    <2>4. Through(r[m + 1], m + 1, Good, Stop)
      BY <2>1, <2>2, <2>3, ThenThrough
    <2> QED BY <2>4
  <1>4. \A j \in 0..n : j \in S
    <2>1. S \in SUBSET (0..n)
      OBVIOUS
    <2> HIDE DEF S
    <2> QED BY <1>2, <1>3, <2>1, AlongLoop
  <1>5. Through(r[n], n, Good, Stop)
    BY <1>4
  <1> QED BY <1>5, CallAllIs DEF r

\* The changes that take back the first n of logs.
UndoLogs(logs, n) == [j \in 1..n |-> Reversed(logs[n + 1 - j])]

\* undoIndexChange takes the changes back from the last to the first.
LEMMA UndoIs ==
    ASSUME NEW d, NEW s, NEW S, NEW logs \in Seq(S), NEW n \in 0..Len(logs)
    PROVE  undoIndexChange(d, s, SubSeq(logs, 1, n)) =
               ChangeAll(d, s, UndoLogs(logs, n)).d
  <1> DEFINE q == SubSeq(logs, 1, n)
  <1>1. Len(q) = n /\ DOMAIN q = 1..n /\ \A j \in 1..n : q[j] = logs[j]
    <2>0. Len(logs) \in Nat /\ n \in Nat
      BY LenProperties
    <2>1. CASE n = 0
      BY <2>1, SubSeqEmpty
    <2>2. CASE n # 0
      <3>1. /\ q \in Seq(S) /\ Len(q) = n - 1 + 1
            /\ \A j \in 1..(n - 1 + 1) : q[j] = logs[1 + j - 1]
        BY <2>0, <2>2, SubSeqProperties
      <3>2. DOMAIN q = 1..n /\ Len(q) = n
        BY <2>0, <3>1, LenProperties
      <3> QED BY <2>0, <3>1, <3>2
    <2> QED BY <2>1, <2>2
  <1> HIDE DEF q
  <1>2. [j \in DOMAIN q |-> Reversed(q[Len(q) + 1 - j])] = UndoLogs(logs, n)
    <2>1. \A j \in 1..n : n + 1 - j \in 1..n
      OBVIOUS
    <2> QED BY <1>1, <2>1 DEF UndoLogs
  <1> QED BY <1>2 DEF undoIndexChange, q

-----------------------------------------------------------------------------
(* The changes of one record in all indexes                                *)

\* s is entered with the keys of row in the first m indexes.
Put(K, s, row, m) ==
    [i \in Indexes |-> IF i <= m THEN [K[i] EXCEPT ![s] = row[i]] ELSE K[i]]
NoKeys == [i \in Indexes |-> Link]

\* The records of d, with indexes that hold K.
States(d, K) == {e \in DB : Holds(e, K) /\ SameRecords(d, e)}

\* An index refuses a key that must be unique, or for want of a node.
Refuses(i, f, k) ==
    (i \in Unique /\ With(f, k) # {}) \/ Cardinality(All(f)) = NodeNum[i]

\* Indexes are numbers from 1.
LEMMA IndexNums ==
    /\ IndexNum \in Nat /\ Indexes = 1..IndexNum
    /\ \A m \in 1..IndexNum : m \in Indexes /\ m - 1 \in 0..IndexNum /\ m \in 0..IndexNum
  BY TableAssumption DEF Indexes

\* What is entered after the first m indexes.
LEMMA PutFacts ==
    ASSUME NEW K \in [Indexes -> Entered], NEW s \in Slots, NEW row \in Columns
    PROVE  /\ Put(K, s, row, 0) = K
           /\ \A m \in 0..IndexNum : Put(K, s, row, m) \in [Indexes -> Entered]
  <1>1. Put(K, s, row, 0) = K
    BY IndexNums DEF Put
  <1>2. ASSUME NEW m \in 0..IndexNum PROVE Put(K, s, row, m) \in [Indexes -> Entered]
    <2>1. \A i \in Indexes : [K[i] EXCEPT ![s] = row[i]] \in Entered
      BY WithChanged DEF Columns
    <2> QED BY <2>1 DEF Put
  <1> QED BY <1>1, <1>2

\* The next index is the only one that changes.
LEMMA PutStep ==
    ASSUME NEW K \in [Indexes -> Entered], NEW s \in Slots, NEW row \in Columns,
           NEW m \in 1..IndexNum, NEW P, P = Put(K, s, row, m - 1),
           NEW Q, Q = Put(K, s, row, m)
    PROVE  /\ P[m] = K[m] /\ P \in [Indexes -> Entered] /\ Q \in [Indexes -> Entered]
           /\ Q[m] = [K[m] EXCEPT ![s] = row[m]]
           /\ Q = [P EXCEPT ![m] = Q[m]]
           /\ P = [Q EXCEPT ![m] = K[m]]
  <1>1. \A i \in 1..IndexNum : /\ i <= m <=> i <= m - 1 \/ i = m
                               /\ ~(m <= m - 1) /\ m <= m
    BY IndexNums
  <1> DEFINE g(i) == [K[i] EXCEPT ![s] = row[i]]
  <1>2. /\ Q = [i \in Indexes |-> IF i <= m THEN g(i) ELSE K[i]]
        /\ P = [i \in Indexes |-> IF i <= m - 1 THEN g(i) ELSE K[i]]
    BY DEF Put
  <1>3. P \in [Indexes -> Entered] /\ Q \in [Indexes -> Entered]
    BY PutFacts, IndexNums
  <1> HIDE DEF g
  <1>4. /\ P[m] = K[m] /\ Q[m] = g(m)
        /\ Q = [P EXCEPT ![m] = g(m)] /\ P = [Q EXCEPT ![m] = K[m]]
    BY <1>1, <1>2, IndexNums
  <1> QED BY <1>3, <1>4 DEF g

\* States differ from d in their indexes only.
LEMMA StatesFacts ==
    ASSUME NEW d, NEW K, NEW e \in States(d, K)
    PROVE  e \in DB /\ Holds(e, K) /\ e.rec = d.rec /\ e.used = d.used /\ e.num = d.num
  BY DEF States, SameRecords

\* A table that holds K and has the records of d is one of its states.
LEMMA InStates ==
    ASSUME NEW d, NEW K, NEW e \in States(d, K), NEW e2, NEW K2,
           Holds(e2, K2), SameRecords(e, e2)
    PROVE  e2 \in States(d, K2)
  BY DEF States, SameRecords, Holds

\* A table is a state of its own.
LEMMA StartsIn ==
    ASSUME NEW d, NEW K, Holds(d, K)
    PROVE  d \in States(d, K)
  BY DEF States, SameRecords, Holds

\* deleteIdx and insertIdx on such states.
LEMMA DeleteStep ==
    ASSUME NEW d, NEW K, NEW e \in States(d, K), NEW i \in Indexes, NEW k \in Keys,
           NEW s \in Slots, K[i][s] = k, KeyReads(d, i, K[i], k)
    PROVE  deleteIdx(e, i, k, s) \in States(d, [K EXCEPT ![i] = [K[i] EXCEPT ![s] = Link]])
  <1>1. Holds(e, K) /\ KeyReads(e, i, K[i], k)
    BY StatesFacts DEF KeyReads
  <1> QED BY <1>1, DeleteIdx, InStates

\* Entering a slot leads to a state that holds it, or throws and changes nothing.
LEMMA InsertStep ==
    ASSUME NEW d, NEW K, NEW e \in States(d, K), NEW i \in Indexes, NEW k \in Keys,
           NEW s \in Slots, K[i][s] = Link, ReadsAs(d, i, K[i], k)
    PROVE  IF Refuses(i, K[i], k)
           THEN ~insertIdx(e, i, k, s).ok /\ insertIdx(e, i, k, s).d \in States(d, K)
           ELSE /\ insertIdx(e, i, k, s).ok
                /\ insertIdx(e, i, k, s).d \in
                       States(d, [K EXCEPT ![i] = [K[i] EXCEPT ![s] = k]])
  <1>1. Holds(e, K) /\ ReadsAs(e, i, K[i], k)
    BY StatesFacts DEF ReadsAs
  <1>2. e.node[i] = 0 <=> Cardinality(All(K[i])) = NodeNum[i]
    <2>1. e.node[i] \in Nat /\ e.node[i] + Cardinality(All(K[i])) = NodeNum[i]
          /\ All(K[i]) \in SUBSET Slots
      BY <1>1, PlaceOf
    <2>2. Cardinality(All(K[i])) \in Nat
      BY <2>1, Finite
    <2> QED BY <2>1, <2>2
  <1>3. CASE Refuses(i, K[i], k)
    <2>1. insertIdx(e, i, k, s) = Thrown(e)
      BY <1>1, <1>2, <1>3, InsertIdx DEF Refuses
    <2> QED BY <1>3, <2>1 DEF Thrown
  <1>4. CASE ~Refuses(i, K[i], k)
    <2>1. /\ insertIdx(e, i, k, s).ok
          /\ Holds(insertIdx(e, i, k, s).d, [K EXCEPT ![i] = [K[i] EXCEPT ![s] = k]])
          /\ SameRecords(e, insertIdx(e, i, k, s).d)
      BY <1>1, <1>2, <1>4, InsertIdx DEF Refuses
    <2> QED BY <1>4, <2>1, InStates
  <1> QED BY <1>3, <1>4

-----------------------------------------------------------------------------

\* What each kind of change does.
LEMMA ChangeIs ==
    ASSUME NEW e, NEW s, NEW i, NEW k
    PROVE  /\ Change(e, s, Delete(i, k)) = Done(deleteIdx(e, i, k, s))
           /\ Change(e, s, Insert(i, k)) = insertIdx(e, i, k, s)
           /\ Change(e, s, Keep(i, k)) = Done(e)
           /\ Reversed(Insert(i, k)) = Delete(i, k)
           /\ Reversed(Delete(i, k)) = Insert(i, k)
           /\ Reversed(Keep(i, k)) = Keep(i, k)
  BY DEF Change, Delete, Insert, Keep, Reversed

\* The changes that deleteAllIndex and insertAllIndex make.
LEMMA CallLogs ==
    ASSUME NEW s, NEW row
    PROVE  /\ deleteAllIndex(s, row).addr = s
           /\ Len(deleteAllIndex(s, row).logs) = IndexNum
           /\ \A i \in 1..IndexNum : deleteAllIndex(s, row).logs[i] = Delete(i, row[i])
           /\ insertAllIndex(s, row).addr = s
           /\ insertAllIndex(s, row).logs \in Seq(Range(insertAllIndex(s, row).logs))
           /\ Len(insertAllIndex(s, row).logs) = IndexNum
           /\ \A i \in 1..IndexNum : insertAllIndex(s, row).logs[i] = Insert(i, row[i])
  <1> DEFINE dl == [i \in 1..IndexNum |-> Delete(i, row[i])]
             il == [i \in 1..IndexNum |-> Insert(i, row[i])]
  <1>1. deleteAllIndex(s, row) = [addr |-> s, logs |-> dl]
    BY IndexNums DEF deleteAllIndex
  <1>2. insertAllIndex(s, row) = [addr |-> s, logs |-> il]
    BY IndexNums DEF insertAllIndex
  <1>3. Len(dl) = IndexNum
    <2>1. dl = [i \in 1..IndexNum |-> dl[i]]
      OBVIOUS
    <2> HIDE DEF dl
    <2> QED BY <2>1, LenOf, IndexNums
  <1>4. Len(il) = IndexNum /\ il \in Seq(Range(il))
    <2>1. il = [i \in 1..IndexNum |-> il[i]]
      OBVIOUS
    <2> HIDE DEF il
    <2> QED BY <2>1, LenOf, IndexNums
  <1>5. /\ deleteAllIndex(s, row).addr = s /\ deleteAllIndex(s, row).logs = dl
        /\ insertAllIndex(s, row).addr = s /\ insertAllIndex(s, row).logs = il
    BY <1>1, <1>2
  <1>6. /\ \A i \in 1..IndexNum : dl[i] = Delete(i, row[i])
        /\ \A i \in 1..IndexNum : il[i] = Insert(i, row[i])
    OBVIOUS
  <1> HIDE DEF dl, il
  <1> QED BY <1>3, <1>4, <1>5, <1>6

\* deleteAllIndex takes a record out of all indexes.
LEMMA DeleteAll ==
    ASSUME NEW d, NEW K, Holds(d, K), NEW s \in Slots, NEW row \in [Indexes -> Keys],
           \A i \in Indexes : K[i][s] = row[i] /\ KeyReads(d, i, K[i], row[i])
    PROVE  /\ AllIndexes(d, deleteAllIndex(s, row)).ok
           /\ AllIndexes(d, deleteAllIndex(s, row)).d
                  \in States(d, Put(K, s, NoKeys, IndexNum))
  <1> DEFINE call == deleteAllIndex(s, row)
             Good == [j \in 0..IndexNum |-> States(d, Put(K, s, NoKeys, j))]
             r == ChangeAll(d, s, call.logs)
  <1>1. K \in [Indexes -> Entered] /\ NoKeys \in Columns
    BY DEF Holds, NoKeys, Columns
  <1>2. d \in Good[0]
    BY <1>1, PutFacts, StartsIn, IndexNums
  <1>3. ASSUME NEW j \in 1..IndexNum, NEW e \in Good[j - 1]
        PROVE  LeadsOn(Change(e, s, call.logs[j]), j, Good, {})
    <2> DEFINE P == Put(K, s, NoKeys, j - 1)
    <2>1. /\ j \in Indexes /\ e \in States(d, P) /\ P[j] = K[j]
          /\ Put(K, s, NoKeys, j) = [P EXCEPT ![j] = [P[j] EXCEPT ![s] = Link]]
      <3>1. j \in Indexes /\ j - 1 \in 0..IndexNum /\ NoKeys[j] = Link
        BY IndexNums DEF NoKeys
      <3>2. e \in States(d, P)
        BY <1>3, <3>1
      <3> HIDE DEF P
      <3> DEFINE Q == Put(K, s, NoKeys, j)
      <3> HIDE DEF Q
      <3>4. P = Put(K, s, NoKeys, j - 1) /\ Q = Put(K, s, NoKeys, j)
        BY DEF P, Q
      <3>3. /\ P[j] = K[j] /\ Q = [P EXCEPT ![j] = Q[j]]
            /\ Q[j] = [K[j] EXCEPT ![s] = NoKeys[j]]
        BY <1>1, <3>4, PutStep
      <3> QED BY <3>1, <3>2, <3>3 DEF Q
    <2>2. Change(e, s, call.logs[j]) = Done(deleteIdx(e, j, row[j], s))
      <3>1. call.logs[j] = Delete(j, row[j])
        BY CallLogs
      <3> QED BY <3>1, ChangeIs
    <2> HIDE DEF P
    <2>3. deleteIdx(e, j, row[j], s) \in States(d, [P EXCEPT ![j] = [P[j] EXCEPT ![s] = Link]])
      BY <2>1, DeleteStep
    <2>4. Good[j] = States(d, Put(K, s, NoKeys, j))
      BY IndexNums
    <2> QED BY <2>1, <2>2, <2>3, <2>4 DEF LeadsOn, Done
  <1>4. Len(call.logs) = IndexNum /\ call.addr = s
    BY CallLogs
  <1> HIDE DEF Good, call
  <1>5. Through(r, IndexNum, Good, {})
    BY <1>2, <1>3, <1>4, ChangeLoop, IndexNums
  <1>6. r.ok /\ r.d \in Good[IndexNum]
    BY <1>5 DEF Through
  <1>7. AllIndexes(d, call) = Done(r.d)
    BY <1>4, <1>6 DEF AllIndexes, OrUndone
  <1>8. Good[IndexNum] = States(d, Put(K, s, NoKeys, IndexNum))
    BY IndexNums DEF Good
  <1> QED BY <1>6, <1>7, <1>8 DEF Done, call

\* insertAllIndex enters a record in all indexes or, if one refuses it, in none.
LEMMA InsertAll ==
    ASSUME NEW d, NEW K, Holds(d, K), NEW s \in Slots, NEW row \in [Indexes -> Keys],
           \A i \in Indexes : /\ K[i][s] = Link /\ ReadsAs(d, i, K[i], row[i])
                              /\ d.rec[s][i] = row[i]
    PROVE  \/ /\ AllIndexes(d, insertAllIndex(s, row)).ok
              /\ AllIndexes(d, insertAllIndex(s, row)).d
                     \in States(d, Put(K, s, row, IndexNum))
           \/ /\ ~AllIndexes(d, insertAllIndex(s, row)).ok
              /\ AllIndexes(d, insertAllIndex(s, row)).d \in States(d, K)
              /\ \E i \in Indexes : Refuses(i, K[i], row[i])
  <1> DEFINE call == insertAllIndex(s, row)
             Good == [j \in 0..IndexNum |-> States(d, Put(K, s, row, j))]
             Stop == {i \in Indexes : Refuses(i, K[i], row[i])}
             r == ChangeAll(d, s, call.logs)
  <1>1. K \in [Indexes -> Entered] /\ row \in Columns
    BY DEF Holds, Columns
  <1>2. d \in Good[0]
    BY <1>1, PutFacts, StartsIn, IndexNums
  <1>3. ASSUME NEW j \in 1..IndexNum, NEW e \in Good[j - 1]
        PROVE  LeadsOn(Change(e, s, call.logs[j]), j, Good, Stop)
    <2> DEFINE P == Put(K, s, row, j - 1)
    <2>1. /\ j \in Indexes /\ e \in States(d, P) /\ P[j] = K[j]
          /\ Put(K, s, row, j) = [P EXCEPT ![j] = [P[j] EXCEPT ![s] = row[j]]]
      <3>1. j \in Indexes /\ j - 1 \in 0..IndexNum
        BY IndexNums
      <3>2. e \in States(d, P)
        BY <1>3, <3>1
      <3> HIDE DEF P
      <3> DEFINE Q == Put(K, s, row, j)
      <3> HIDE DEF Q
      <3>4. P = Put(K, s, row, j - 1) /\ Q = Put(K, s, row, j)
        BY DEF P, Q
      <3>3. /\ P[j] = K[j] /\ Q = [P EXCEPT ![j] = Q[j]]
            /\ Q[j] = [K[j] EXCEPT ![s] = row[j]]
        BY <1>1, <3>4, PutStep
      <3> QED BY <3>1, <3>2, <3>3 DEF Q
    <2>2. Change(e, s, call.logs[j]) = insertIdx(e, j, row[j], s)
      <3>1. call.logs[j] = Insert(j, row[j])
        BY CallLogs
      <3> QED BY <3>1, ChangeIs
    <2>4. Good[j] = States(d, Put(K, s, row, j)) /\ Good[j - 1] = States(d, P)
      BY IndexNums
    <2> HIDE DEF P, Good
    <2>3. IF Refuses(j, P[j], row[j])
          THEN ~insertIdx(e, j, row[j], s).ok /\ insertIdx(e, j, row[j], s).d \in States(d, P)
          ELSE /\ insertIdx(e, j, row[j], s).ok
               /\ insertIdx(e, j, row[j], s).d \in
                       States(d, [P EXCEPT ![j] = [P[j] EXCEPT ![s] = row[j]]])
      BY <2>1, InsertStep
    <2> QED BY <2>1, <2>2, <2>3, <2>4 DEF LeadsOn
  <1>4. Len(call.logs) = IndexNum /\ call.addr = s /\ call.logs \in Seq(Range(call.logs))
        /\ \A i \in 1..IndexNum : call.logs[i] = Insert(i, row[i])
    BY CallLogs
  <1> HIDE DEF call
  <1>5. Through(r, IndexNum, Good, Stop)
    <2> HIDE DEF Good, Stop
    <2> QED BY <1>2, <1>3, <1>4, ChangeLoop, IndexNums
  <1>6. CASE r.ok
    <2>1. r.d \in Good[IndexNum]
      BY <1>5, <1>6 DEF Through
    <2>2. AllIndexes(d, call) = Done(r.d)
      BY <1>4, <1>6 DEF AllIndexes, OrUndone
    <2>3. Good[IndexNum] = States(d, Put(K, s, row, IndexNum))
      BY IndexNums
    <2> QED BY <2>1, <2>2, <2>3 DEF Done, call
  <1>7. CASE ~r.ok
    <2> DEFINE n == r.n
               back == UndoLogs(call.logs, n)
               Back == [j \in 0..n |-> States(d, Put(K, s, row, n - j))]
               u == ChangeAll(r.d, s, back)
    <2>1. n \in 0..(IndexNum - 1) /\ r.d \in Good[n] /\ n + 1 \in Stop /\ n \in Nat
      BY <1>5, <1>7, IndexNums DEF Through
    <2> HIDE DEF n
    <2>2. r.d \in Back[0]
      BY <2>1, IndexNums
    <2>3. Len(back) = n /\ \A j \in 1..n : back[j] = Delete(n + 1 - j, row[n + 1 - j])
      <3>1. back = [j \in 1..n |-> back[j]]
        BY DEF UndoLogs
      <3>2. Len(back) = n
        <4> HIDE DEF back
        <4> QED BY <2>1, <3>1, LenOf
      <3>3. ASSUME NEW j \in 1..n PROVE back[j] = Delete(n + 1 - j, row[n + 1 - j])
        <4>1. n + 1 - j \in 1..IndexNum
          BY <2>1, IndexNums
        <4>2. back[j] = Reversed(Insert(n + 1 - j, row[n + 1 - j]))
          BY <1>4, <4>1 DEF UndoLogs
        <4> QED BY <4>2, ChangeIs
      <3> QED BY <3>2, <3>3
    <2> HIDE DEF back
    <2>4. ASSUME NEW j \in 1..n, NEW e \in Back[j - 1]
          PROVE  LeadsOn(Change(e, s, back[j]), j, Back, {})
      <3> DEFINE i == n + 1 - j
                 P == Put(K, s, row, i)
      <3>1. i \in 1..IndexNum /\ i \in Indexes /\ n - (j - 1) = i /\ n - j = i - 1
        BY <2>1, IndexNums
      <3>2. e \in States(d, P)
        BY <2>1, <2>4, <3>1
      <3>3. /\ P[i] = [K[i] EXCEPT ![s] = row[i]] /\ K[i] \in Entered
            /\ Put(K, s, row, i - 1) = [P EXCEPT ![i] = K[i]]
        <4> HIDE DEF i
        <4> QED BY <1>1, <3>1, PutStep
      <3>4. P[i][s] = row[i] /\ row[i] \in Keys /\ [P[i] EXCEPT ![s] = Link] = K[i]
        BY <3>1, <3>3 DEF Entered
      <3>5. KeyReads(d, i, P[i], row[i])
        <4> SUFFICES ASSUME NEW t \in With(P[i], row[i]) PROVE d.rec[t][i] = row[i]
          BY DEF KeyReads
        <4>1. CASE t = s
          BY <3>1, <4>1
        <4>2. CASE t # s
          <5>1. t \in Slots /\ K[i][t] = row[i]
            BY <3>3, <4>2 DEF With, Entered
          <5>2. t \in All(K[i])
            BY <3>4, <5>1, TableAssumption DEF All
          <5> QED BY <3>1, <5>1, <5>2 DEF ReadsAs
        <4> QED BY <4>1, <4>2
      <3>6. Change(e, s, back[j]) = Done(deleteIdx(e, i, row[i], s))
        BY <2>3, ChangeIs
      <3>7. Back[j] = States(d, [P EXCEPT ![i] = K[i]])
        BY <2>1, <3>1, <3>3
      <3> HIDE DEF P, i, Back
      <3>8. deleteIdx(e, i, row[i], s) \in States(d, [P EXCEPT ![i] = [P[i] EXCEPT ![s] = Link]])
        BY <3>1, <3>2, <3>4, <3>5, DeleteStep
      <3>9. deleteIdx(e, i, row[i], s) \in Back[j]
        BY <3>4, <3>7, <3>8
      <3> QED BY <3>6, <3>9 DEF LeadsOn, Done
    <2>5. Back[n] = States(d, K)
      BY <1>1, <2>1, PutFacts
    <2> HIDE DEF Back
    <2>6. Through(u, n, Back, {})
      BY <2>1, <2>2, <2>3, <2>4, ChangeLoop
    <2>7. u.d \in States(d, K)
      BY <2>5, <2>6 DEF Through
    <2>8. AllIndexes(d, call) = Thrown(u.d)
      <3>1. n \in 0..Len(call.logs)
        BY <1>4, <2>1, IndexNums
      <3>2. undoIndexChange(r.d, s, SubSeq(call.logs, 1, n)) = u.d
        BY <1>4, <3>1, UndoIs DEF back
      <3> QED BY <1>4, <1>7, <3>2 DEF AllIndexes, OrUndone, n
    <2> QED BY <2>1, <2>7, <2>8 DEF Thrown, call
  <1> QED BY <1>6, <1>7

-----------------------------------------------------------------------------
(* What the indexes hold in the middle of a batch                          *)

\* The slots of S are entered as R says, the others as K says.
Over(K, S, R) ==
    [i \in Indexes |-> [s \in Slots |-> IF s \in S THEN R[s][i] ELSE K[i][s]]]
Firsts(ts, n) == {ts[j].addr : j \in 1..n}

\* Two contents are equal if they are for each index and slot.
LEMMA SameKeys ==
    ASSUME NEW A \in [Indexes -> Entered], NEW B \in [Indexes -> Entered],
           \A i \in Indexes, t \in Slots : A[i][t] = B[i][t]
    PROVE  A = B
  <1>1. \A i \in Indexes : A[i] = B[i]
    BY DEF Entered
  <1> QED BY <1>1

\* After all indexes a slot is entered as its row says.
LEMMA PutAll ==
    ASSUME NEW K \in [Indexes -> Entered], NEW s \in Slots, NEW row \in Columns
    PROVE  /\ Put(K, s, row, IndexNum) \in [Indexes -> Entered]
           /\ \A i \in Indexes, t \in Slots :
                  Put(K, s, row, IndexNum)[i][t] = IF t = s THEN row[i] ELSE K[i][t]
  <1>1. Put(K, s, row, IndexNum) \in [Indexes -> Entered]
    BY PutFacts, IndexNums
  <1>2. ASSUME NEW i \in Indexes, NEW t \in Slots
        PROVE  Put(K, s, row, IndexNum)[i][t] = IF t = s THEN row[i] ELSE K[i][t]
    <2>1. Put(K, s, row, IndexNum)[i] = [K[i] EXCEPT ![s] = row[i]]
      BY IndexNums DEF Put
    <2>2. K[i] \in Entered
      OBVIOUS
    <2> QED BY <2>1, <2>2 DEF Entered
  <1> QED BY <1>1, <1>2

\* What is entered in the middle of a batch.
LEMMA OverFacts ==
    ASSUME NEW K \in [Indexes -> Entered], NEW R \in [Slots -> Columns], NEW S
    PROVE  /\ Over(K, S, R) \in [Indexes -> Entered]
           /\ \A i \in Indexes, t \in Slots :
                  Over(K, S, R)[i][t] = IF t \in S THEN R[t][i] ELSE K[i][t]
           /\ Over(K, {}, R) = K
  <1>1. \A i \in Indexes, t \in Slots :
            K[i][t] \in Keys \cup {Link} /\ R[t][i] \in Keys \cup {Link}
    BY DEF Entered, Columns
  <1>2. \A T : Over(K, T, R) \in [Indexes -> Entered]
    BY <1>1 DEF Over, Entered
  <1>3. \A T : \A i \in Indexes, t \in Slots :
            Over(K, T, R)[i][t] = IF t \in T THEN R[t][i] ELSE K[i][t]
    BY DEF Over
  <1>4. \A i \in Indexes, t \in Slots : Over(K, {}, R)[i][t] = K[i][t]
    BY <1>3
  <1>5. Over(K, {}, R) = K
    BY <1>2, <1>4, SameKeys
  <1> QED BY <1>2, <1>3, <1>5

\* The next record of a batch is the only one that changes.
LEMMA OverStep ==
    ASSUME NEW K \in [Indexes -> Entered], NEW R \in [Slots -> Columns], NEW S,
           NEW s \in Slots
    PROVE  Put(Over(K, S, R), s, R[s], IndexNum) = Over(K, S \cup {s}, R)
  <1> DEFINE A == Over(K, S, R)
             B == Over(K, S \cup {s}, R)
             P == Put(A, s, R[s], IndexNum)
  <1>1. /\ A \in [Indexes -> Entered] /\ B \in [Indexes -> Entered]
        /\ \A i \in Indexes, t \in Slots : A[i][t] = IF t \in S THEN R[t][i] ELSE K[i][t]
        /\ \A i \in Indexes, t \in Slots :
               B[i][t] = IF t \in S \cup {s} THEN R[t][i] ELSE K[i][t]
    BY OverFacts
  <1> HIDE DEF A, B
  <1>2. /\ P \in [Indexes -> Entered]
        /\ \A i \in Indexes, t \in Slots : P[i][t] = IF t = s THEN R[s][i] ELSE A[i][t]
    BY <1>1, PutAll
  <1> HIDE DEF P
  <1>3. \A i \in Indexes, t \in Slots : P[i][t] = B[i][t]
    BY <1>1, <1>2
  <1>4. P = B
    BY <1>1, <1>2, <1>3, SameKeys
  <1> QED BY <1>4 DEF A, B, P

\* Taking a record back leads to where the one before it was done.
LEMMA OverBack ==
    ASSUME NEW K \in [Indexes -> Entered], NEW R \in [Slots -> Columns], NEW S,
           NEW s \in Slots, s \notin S, \A i \in Indexes : K[i][s] = Link
    PROVE  Put(Over(K, S \cup {s}, R), s, NoKeys, IndexNum) = Over(K, S, R)
  <1> DEFINE A == Over(K, S, R)
             B == Over(K, S \cup {s}, R)
             P == Put(B, s, NoKeys, IndexNum)
  <1>0. NoKeys \in Columns /\ \A i \in Indexes : NoKeys[i] = Link
    BY DEF NoKeys, Columns
  <1>1. /\ A \in [Indexes -> Entered] /\ B \in [Indexes -> Entered]
        /\ \A i \in Indexes, t \in Slots : A[i][t] = IF t \in S THEN R[t][i] ELSE K[i][t]
        /\ \A i \in Indexes, t \in Slots :
               B[i][t] = IF t \in S \cup {s} THEN R[t][i] ELSE K[i][t]
    BY OverFacts
  <1> HIDE DEF A, B
  <1>2. /\ P \in [Indexes -> Entered]
        /\ \A i \in Indexes, t \in Slots : P[i][t] = IF t = s THEN NoKeys[i] ELSE B[i][t]
    BY <1>0, <1>1, PutAll
  <1> HIDE DEF P
  <1>3. \A i \in Indexes, t \in Slots : P[i][t] = A[i][t]
    BY <1>0, <1>1, <1>2
  <1>5. P \in [Indexes -> Entered] /\ A \in [Indexes -> Entered]
    BY <1>1, <1>2
  <1>4. P = A
    BY <1>3, <1>5, SameKeys
  <1> QED BY <1>4 DEF A, B, P

\* The records of the first n changes.
LEMMA FirstsFacts ==
    ASSUME NEW ts, NEW n \in Nat
    PROVE  /\ Firsts(ts, 0) = {}
           /\ \A j \in 1..n : Firsts(ts, j) = Firsts(ts, j - 1) \cup {ts[j].addr}
           /\ \A j \in 1..n : ts[j].addr \in Firsts(ts, n)
           /\ \A j \in 0..n : Firsts(ts, j) \subseteq Firsts(ts, n)
  <1>1. \A j \in 1..n : 1..j = (1..(j - 1)) \cup {j}
    OBVIOUS
  <1>2. \A j \in 1..n : Firsts(ts, j) = Firsts(ts, j - 1) \cup {ts[j].addr}
    BY <1>1 DEF Firsts
  <1>3. \A j \in 0..n : 1..j \subseteq 1..n
    OBVIOUS
  <1> QED BY <1>2, <1>3 DEF Firsts

-----------------------------------------------------------------------------
(* The update of one record in all indexes                                 *)

\* s has been taken out of index i and not yet entered again.
Half(K, s, from, to, i) ==
    IF from[i] = to[i] THEN Put(K, s, to, i - 1)
    ELSE [Put(K, s, to, i - 1) EXCEPT ![i] = [K[i] EXCEPT ![s] = Link]]
Midway(d, K, s, from, to) ==
    [j \in 0..(2 * IndexNum) |->
        IF j % 2 = 0 THEN States(d, Put(K, s, to, j \div 2))
                     ELSE States(d, Half(K, s, from, to, (j + 1) \div 2))]
Moved(from, to) == {i \in Indexes : from[i] # to[i]}
UpdateStops(from, to) == {2 * i : i \in Moved(from, to) \cap Unique}

\* Each index has two changes in an update.
LEMMA Halves ==
    ASSUME NEW i \in 1..IndexNum
    PROVE  /\ 2 * i \in 1..(2 * IndexNum) /\ 2 * i - 1 \in 1..(2 * IndexNum)
           /\ (2 * i + 1) \div 2 = i /\ (2 * i - 1 + 1) \div 2 = i
           /\ (2 * i) \div 2 = i /\ (2 * i - 1 - 1) \div 2 = i - 1
           /\ (2 * i) % 2 = 0 /\ (2 * i - 1) % 2 = 1 /\ (2 * i - 1 - 1) % 2 = 0
           /\ 2 * i - 1 - 1 \in 0..(2 * IndexNum)
  BY IndexNums

\* A change of an update is the first or the second of its index.
LEMMA OddOrEven ==
    ASSUME NEW j \in 1..(2 * IndexNum)
    PROVE  \E i \in 1..IndexNum : j = 2 * i - 1 \/ j = 2 * i
  <1>1. IndexNum \in Nat
    BY IndexNums
  <1>2. CASE j % 2 = 0
    <2>1. j \div 2 \in 1..IndexNum /\ j = 2 * (j \div 2)
      BY <1>1, <1>2
    <2> QED BY <2>1
  <1>3. CASE j % 2 # 0
    <2>1. (j + 1) \div 2 \in 1..IndexNum /\ j = 2 * ((j + 1) \div 2) - 1
      BY <1>1, <1>3
    <2> QED BY <2>1
  <1> QED BY <1>2, <1>3

\* The changes that updateAllIndex makes.
LEMMA UpdateLogs ==
    ASSUME NEW s, NEW from, NEW to, NEW logs, logs = updateAllIndex(s, from, to).logs
    PROVE  /\ updateAllIndex(s, from, to).addr = s
           /\ logs \in Seq(Range(logs)) /\ Len(logs) = 2 * IndexNum
           /\ \A i \in 1..IndexNum :
                 /\ logs[2 * i - 1] = IF from[i] = to[i] THEN Keep(i, to[i])
                                                         ELSE Delete(i, from[i])
                 /\ logs[2 * i] = IF from[i] = to[i] THEN Keep(i, to[i])
                                                     ELSE Insert(i, to[i])
  <1> DEFINE log(j, i) == IF from[i] = to[i] THEN Keep(i, to[i])
                          ELSE IF j % 2 = 1 THEN Delete(i, from[i])
                                            ELSE Insert(i, to[i])
  <1>1. /\ updateAllIndex(s, from, to).addr = s
        /\ logs = [j \in 1..(2 * IndexNum) |-> log(j, (j + 1) \div 2)]
    BY DEF updateAllIndex
  <1>2. logs \in Seq(Range(logs)) /\ Len(logs) = 2 * IndexNum
    <2>1. logs = [j \in 1..(2 * IndexNum) |-> logs[j]]
      BY <1>1
    <2>2. 2 * IndexNum \in Nat
      BY IndexNums
    <2> QED BY <2>1, <2>2, LenOf
  <1>3. ASSUME NEW i \in 1..IndexNum
        PROVE  logs[2 * i - 1] = log(2 * i - 1, i) /\ logs[2 * i] = log(2 * i, i)
    <2> HIDE DEF log
    <2>1. /\ logs[2 * i - 1] = log(2 * i - 1, (2 * i - 1 + 1) \div 2)
          /\ logs[2 * i] = log(2 * i, (2 * i + 1) \div 2)
      BY <1>1, Halves
    <2> QED BY <2>1, Halves
  <1>4. ASSUME NEW i \in 1..IndexNum
        PROVE  /\ log(2 * i - 1, i) = IF from[i] = to[i] THEN Keep(i, to[i])
                                                         ELSE Delete(i, from[i])
               /\ log(2 * i, i) = IF from[i] = to[i] THEN Keep(i, to[i])
                                                     ELSE Insert(i, to[i])
    BY Halves
  <1> HIDE DEF log
  <1> QED BY <1>1, <1>2, <1>3, <1>4

\* What the indexes hold after each change of an update.
LEMMA MidwayAt ==
    ASSUME NEW d, NEW K, NEW s, NEW from, NEW to, NEW G, G = Midway(d, K, s, from, to)
    PROVE  /\ G[0] = States(d, Put(K, s, to, 0))
           /\ G[2 * IndexNum] = States(d, Put(K, s, to, IndexNum))
           /\ \A i \in 1..IndexNum :
                  /\ G[2 * i] = States(d, Put(K, s, to, i))
                  /\ G[2 * i - 1] = States(d, Half(K, s, from, to, i))
                  /\ G[2 * i - 1 - 1] = States(d, Put(K, s, to, i - 1))
  <1>1. ASSUME NEW i \in 1..IndexNum
        PROVE  /\ G[2 * i] = States(d, Put(K, s, to, i))
               /\ G[2 * i - 1] = States(d, Half(K, s, from, to, i))
               /\ G[2 * i - 1 - 1] = States(d, Put(K, s, to, i - 1))
    <2>1. /\ 2 * i \in 0..(2 * IndexNum) /\ 2 * i - 1 \in 0..(2 * IndexNum)
          /\ 2 * i - 1 - 1 \in 0..(2 * IndexNum)
      BY IndexNums
    <2>2. /\ G[2 * i] = States(d, Put(K, s, to, (2 * i) \div 2))
          /\ G[2 * i - 1] = States(d, Half(K, s, from, to, (2 * i - 1 + 1) \div 2))
          /\ G[2 * i - 1 - 1] = States(d, Put(K, s, to, (2 * i - 1 - 1) \div 2))
      BY <2>1, Halves DEF Midway
    <2> QED BY <2>2, Halves
  <1>2. G[0] = States(d, Put(K, s, to, 0))
    <2>1. 0 \in 0..(2 * IndexNum) /\ 0 % 2 = 0 /\ 0 \div 2 = 0
      BY IndexNums
    <2> QED BY <2>1 DEF Midway
  <1>3. G[2 * IndexNum] = States(d, Put(K, s, to, IndexNum))
    <2>1. CASE IndexNum = 0
      BY <1>2, <2>1
    <2>2. CASE IndexNum # 0
      <3>1. IndexNum \in 1..IndexNum
        BY <2>2, IndexNums
      <3> QED BY <1>1, <3>1
    <2> QED BY <2>1, <2>2
  <1> QED BY <1>1, <1>2, <1>3

\* Taking a slot out, with the contents named.
LEMMA DeleteTo ==
    ASSUME NEW d, NEW K, NEW e \in States(d, K), NEW i \in Indexes, NEW k \in Keys,
           NEW s \in Slots, K[i][s] = k, KeyReads(d, i, K[i], k),
           NEW f, f = [K[i] EXCEPT ![s] = Link], NEW K2, K2 = [K EXCEPT ![i] = f]
    PROVE  deleteIdx(e, i, k, s) \in States(d, K2)
  BY DeleteStep

\* Entering a slot, with the contents named.
LEMMA InsertTo ==
    ASSUME NEW d, NEW K, NEW e \in States(d, K), NEW i \in Indexes, NEW k \in Keys,
           NEW s \in Slots, K[i][s] = Link, ReadsAs(d, i, K[i], k),
           NEW f, f = [K[i] EXCEPT ![s] = k], NEW K2, K2 = [K EXCEPT ![i] = f]
    PROVE  IF Refuses(i, K[i], k)
           THEN ~insertIdx(e, i, k, s).ok /\ insertIdx(e, i, k, s).d \in States(d, K)
           ELSE insertIdx(e, i, k, s).ok /\ insertIdx(e, i, k, s).d \in States(d, K2)
  BY InsertStep

\* Between the two changes of an index the slot is in none of its lists.
LEMMA HalfFacts ==
    ASSUME NEW K \in [Indexes -> Entered], NEW s \in Slots, NEW from \in [Indexes -> Keys],
           NEW to \in [Indexes -> Keys], \A i \in Indexes : K[i][s] = from[i],
           NEW i \in 1..IndexNum, NEW P, P = Put(K, s, to, i - 1),
           NEW H, H = Half(K, s, from, to, i), NEW Q, Q = Put(K, s, to, i)
    PROVE  /\ P[i] = K[i] /\ P \in [Indexes -> Entered]
           /\ Q \in [Indexes -> Entered] /\ H \in [Indexes -> Entered]
           /\ from[i] = to[i] => H = P /\ Q = P
           /\ from[i] # to[i] =>
                 /\ H = [P EXCEPT ![i] = H[i]] /\ H[i] = [K[i] EXCEPT ![s] = Link]
                 /\ Q = [H EXCEPT ![i] = Q[i]] /\ Q[i] = [H[i] EXCEPT ![s] = to[i]]
  <1>1. to \in Columns /\ i \in Indexes
    BY IndexNums DEF Columns
  <1>2. /\ P[i] = K[i] /\ P \in [Indexes -> Entered] /\ Q \in [Indexes -> Entered]
        /\ Q[i] = [K[i] EXCEPT ![s] = to[i]] /\ Q = [P EXCEPT ![i] = Q[i]]
    BY <1>1, PutStep
  <1>3. K[i] \in [Slots -> Keys \cup {Link}] /\ K[i][s] = from[i]
    BY <1>1 DEF Entered
  <1> DEFINE f == [K[i] EXCEPT ![s] = Link]
  <1>4. f \in Entered
    BY <1>3 DEF Entered
  <1>5. [f EXCEPT ![s] = to[i]] = Q[i] /\ Q[i] \in Entered
    <2>1. \A t \in Slots : [f EXCEPT ![s] = to[i]][t] = Q[i][t]
      BY <1>2, <1>3
    <2>2. Q[i] \in Entered
      BY <1>1, <1>2
    <2>3. [f EXCEPT ![s] = to[i]] \in [Slots -> Keys \cup {Link}]
      BY <1>1, <1>3
    <2> QED BY <2>1, <2>2, <2>3 DEF Entered
  <1>6. CASE from[i] = to[i]
    <2>1. Q[i] = P[i]
      BY <1>2, <1>3, <1>6
    <2>2. Q = P
      <3>1. Q = [P EXCEPT ![i] = P[i]]
        BY <1>2, <2>1
      <3> QED BY <1>1, <1>2, <3>1
    <2> QED BY <1>2, <1>6, <2>2 DEF Half
  <1>7. CASE from[i] # to[i]
    <2>1. H = [P EXCEPT ![i] = f]
      BY <1>7 DEF Half
    <2> HIDE DEF f
    <2>2. H[i] = f /\ H \in [Indexes -> Entered]
      BY <1>1, <1>2, <1>4, <2>1
    <2>3. Q = [H EXCEPT ![i] = Q[i]]
      BY <1>1, <1>2, <2>1
    <2> QED BY <1>2, <1>5, <1>7, <2>1, <2>2, <2>3 DEF f
  <1> QED BY <1>6, <1>7

\* A node has just been freed, so there is one.
LEMMA FreedNode ==
    ASSUME NEW d, NEW K, Holds(d, K), NEW i \in Indexes, NEW s \in Slots, K[i][s] \in Keys,
           NEW f, f = [K[i] EXCEPT ![s] = Link], NEW k \in Keys, Refuses(i, f, k)
    PROVE  i \in Unique /\ With(f, k) # {}
  <1>1. /\ K[i] \in Entered /\ d.node[i] \in Nat
        /\ d.node[i] + Cardinality(All(K[i])) = NodeNum[i] /\ All(K[i]) \in SUBSET Slots
    BY PlaceOf
  <1>2. Cardinality(All(f)) = Cardinality(All(K[i])) - 1
    BY <1>1, AllChanged, TableAssumption
  <1>3. Cardinality(All(K[i])) \in Nat
    BY <1>1, Finite
  <1>4. Cardinality(All(f)) # NodeNum[i]
    BY <1>1, <1>2, <1>3
  <1> QED BY <1>4 DEF Refuses

\* What updateAllIndex needs: the entries of the old key read as that key, and
\* those of the new key are told from the others.
CanMove(d, K, s, from, to) ==
    /\ Holds(d, K) /\ s \in Slots
    /\ from \in [Indexes -> Keys] /\ to \in [Indexes -> Keys]
    /\ \A i \in Indexes : K[i][s] = from[i]
    /\ \A i \in Moved(from, to) :
           /\ KeyReads(d, i, K[i], from[i])
           /\ ReadsAs(d, i, [K[i] EXCEPT ![s] = Link], to[i])

\* updateAllIndex goes from one of these states to the next.
LEMMA UpdateLoop ==
    ASSUME NEW d, NEW K, NEW s, NEW from, NEW to, CanMove(d, K, s, from, to)
    PROVE  Through(ChangeAll(d, s, updateAllIndex(s, from, to).logs), 2 * IndexNum,
                   Midway(d, K, s, from, to), UpdateStops(from, to))
  <1> DEFINE logs == updateAllIndex(s, from, to).logs
             Good == Midway(d, K, s, from, to)
             Stop == UpdateStops(from, to)
  <1>0. /\ K \in [Indexes -> Entered] /\ Holds(d, K) /\ s \in Slots
        /\ from \in [Indexes -> Keys] /\ to \in [Indexes -> Keys]
        /\ \A i \in Indexes : K[i][s] = from[i]
        /\ to \in Columns
    BY DEF Holds, CanMove, Columns
  <1>1. d \in Good[0]
    BY <1>0, PutFacts, StartsIn, MidwayAt
  <1>2. /\ Len(logs) = 2 * IndexNum
        /\ \A i \in 1..IndexNum :
                 /\ logs[2 * i - 1] = IF from[i] = to[i] THEN Keep(i, to[i])
                                                         ELSE Delete(i, from[i])
                 /\ logs[2 * i] = IF from[i] = to[i] THEN Keep(i, to[i])
                                                     ELSE Insert(i, to[i])
    BY UpdateLogs
  <1>3. \A i \in 1..IndexNum :
                  /\ Good[2 * i] = States(d, Put(K, s, to, i))
                  /\ Good[2 * i - 1] = States(d, Half(K, s, from, to, i))
                  /\ Good[2 * i - 1 - 1] = States(d, Put(K, s, to, i - 1))
    BY MidwayAt
  <1> HIDE DEF logs, Good
  <1>4. ASSUME NEW i \in 1..IndexNum, NEW e \in Good[2 * i - 1 - 1]
        PROVE  LeadsOn(Change(e, s, logs[2 * i - 1]), 2 * i - 1, Good, Stop)
    <2> DEFINE P == Put(K, s, to, i - 1)
               H == Half(K, s, from, to, i)
               Q == Put(K, s, to, i)
    <2>1. i \in Indexes /\ e \in States(d, P) /\ Good[2 * i - 1] = States(d, H)
      BY <1>3, <1>4, IndexNums
    <2>2. /\ P[i] = K[i]
          /\ from[i] = to[i] => H = P
          /\ from[i] # to[i] =>
                 H = [P EXCEPT ![i] = H[i]] /\ H[i] = [K[i] EXCEPT ![s] = Link]
      <3> HIDE DEF P, H, Q
      <3>1. P = Put(K, s, to, i - 1) /\ H = Half(K, s, from, to, i) /\ Q = Put(K, s, to, i)
        BY DEF P, H, Q
      <3>2. /\ P[i] = K[i] /\ P \in [Indexes -> Entered]
            /\ Q \in [Indexes -> Entered] /\ H \in [Indexes -> Entered]
            /\ from[i] = to[i] => H = P /\ Q = P
            /\ from[i] # to[i] =>
                  /\ H = [P EXCEPT ![i] = H[i]] /\ H[i] = [K[i] EXCEPT ![s] = Link]
                  /\ Q = [H EXCEPT ![i] = Q[i]] /\ Q[i] = [H[i] EXCEPT ![s] = to[i]]
        BY <1>0, <3>1, HalfFacts, SMTT(30)
      <3> QED BY <3>2
    <2> HIDE DEF P, H
    <2>3. CASE from[i] = to[i]
      <3>1. Change(e, s, logs[2 * i - 1]) = Done(e)
        BY <1>2, <2>3, ChangeIs
      <3>2. e \in Good[2 * i - 1]
        BY <2>1, <2>2, <2>3
      <3> QED BY <3>1, <3>2 DEF LeadsOn, Done
    <2>4. CASE from[i] # to[i]
      <3>1. Change(e, s, logs[2 * i - 1]) = Done(deleteIdx(e, i, from[i], s))
        BY <1>2, <2>4, ChangeIs
      <3>2. KeyReads(d, i, P[i], from[i]) /\ from[i] \in Keys /\ P[i][s] = from[i]
        BY <1>0, <2>1, <2>2, <2>4 DEF CanMove, Moved
      <3>4. H = [P EXCEPT ![i] = H[i]] /\ H[i] = [P[i] EXCEPT ![s] = Link]
        BY <2>2, <2>4
      <3>3. deleteIdx(e, i, from[i], s) \in States(d, H)
        BY <1>0, <2>1, <3>2, <3>4, DeleteTo
      <3> QED BY <2>1, <3>1, <3>3 DEF LeadsOn, Done
    <2> QED BY <2>3, <2>4
  <1>5. ASSUME NEW i \in 1..IndexNum, NEW e \in Good[2 * i - 1]
        PROVE  LeadsOn(Change(e, s, logs[2 * i]), 2 * i, Good, Stop)
    <2> DEFINE P == Put(K, s, to, i - 1)
               H == Half(K, s, from, to, i)
               Q == Put(K, s, to, i)
    <2>1. /\ i \in Indexes /\ e \in States(d, H) /\ Good[2 * i] = States(d, Q)
          /\ Good[2 * i - 1] = States(d, H)
      BY <1>3, <1>5, IndexNums
    <2>2. /\ from[i] = to[i] => H = Q
          /\ from[i] # to[i] =>
                 /\ H[i] = [K[i] EXCEPT ![s] = Link]
                 /\ Q = [H EXCEPT ![i] = Q[i]] /\ Q[i] = [H[i] EXCEPT ![s] = to[i]]
      <3> HIDE DEF P, H, Q
      <3>1. P = Put(K, s, to, i - 1) /\ H = Half(K, s, from, to, i) /\ Q = Put(K, s, to, i)
        BY DEF P, H, Q
      <3> QED BY <1>0, <3>1, HalfFacts
    <2> HIDE DEF H, Q
    <2>3. CASE from[i] = to[i]
      <3>1. Change(e, s, logs[2 * i]) = Done(e)
        BY <1>2, <2>3, ChangeIs
      <3>2. e \in Good[2 * i]
        BY <2>1, <2>2, <2>3
      <3> QED BY <3>1, <3>2 DEF LeadsOn, Done
    <2>4. CASE from[i] # to[i]
      <3>1. Change(e, s, logs[2 * i]) = insertIdx(e, i, to[i], s)
        BY <1>2, <2>4, ChangeIs
      <3>2. i \in Moved(from, to)
        BY <2>1, <2>4 DEF Moved
      <3>3. ReadsAs(d, i, H[i], to[i]) /\ to[i] \in Keys
        BY <1>0, <2>1, <2>2, <2>4, <3>2 DEF CanMove
      <3>4. K[i] \in Entered /\ H[i][s] = Link /\ K[i][s] \in Keys
        BY <1>0, <2>1, <2>2, <2>4 DEF Entered
      <3>5. IF Refuses(i, H[i], to[i])
            THEN ~insertIdx(e, i, to[i], s).ok /\ insertIdx(e, i, to[i], s).d \in States(d, H)
            ELSE insertIdx(e, i, to[i], s).ok /\ insertIdx(e, i, to[i], s).d \in States(d, Q)
        BY <1>0, <2>1, <2>2, <2>4, <3>3, <3>4, InsertTo
      <3>6. Refuses(i, H[i], to[i]) => i \in Unique
        BY <1>0, <2>1, <2>2, <2>4, <3>3, <3>4, FreedNode
      <3>7. Refuses(i, H[i], to[i]) => 2 * i \in Stop
        BY <3>2, <3>6 DEF UpdateStops
      <3> HIDE DEF Stop
      <3> QED BY <2>1, <3>1, <3>5, <3>7 DEF LeadsOn
    <2> QED BY <2>3, <2>4
  <1> HIDE DEF Stop
  <1>6. ASSUME NEW j \in 1..(2 * IndexNum), NEW e \in Good[j - 1]
        PROVE  LeadsOn(Change(e, s, logs[j]), j, Good, Stop)
    BY <1>4, <1>5, <1>6, OddOrEven
  <1>7. 2 * IndexNum \in Nat
    BY IndexNums
  <1>8. Through(ChangeAll(d, s, logs), 2 * IndexNum, Good, Stop)
    BY <1>1, <1>2, <1>6, <1>7, ChangeLoop
  <1> QED BY <1>8 DEF logs, Good, Stop

\* updateAllIndex, when it returns, has moved a record in all indexes.
LEMMA UpdateAll ==
    ASSUME NEW d, NEW K, NEW s, NEW from, NEW to, CanMove(d, K, s, from, to),
           AllIndexes(d, updateAllIndex(s, from, to)).ok
    PROVE  AllIndexes(d, updateAllIndex(s, from, to)).d
               \in States(d, Put(K, s, to, IndexNum))
  <1> DEFINE call == updateAllIndex(s, from, to)
             r == ChangeAll(d, s, call.logs)
  <1>1. Through(r, 2 * IndexNum, Midway(d, K, s, from, to), UpdateStops(from, to))
    BY UpdateLoop
  <1>2. call.addr = s
    BY UpdateLogs
  <1> HIDE DEF call
  <1>3. r.ok /\ AllIndexes(d, call) = Done(r.d)
    BY <1>2 DEF AllIndexes, OrUndone, Done, Thrown, call
  <1>4. r.d \in Midway(d, K, s, from, to)[2 * IndexNum]
    BY <1>1, <1>3 DEF Through
  <1> QED BY <1>3, <1>4, MidwayAt DEF Done, call

\* Refused by the first index that it changes, updateAllIndex takes back the
\* one entry that it has removed.
LEMMA UpdateRefused ==
    ASSUME NEW d, NEW K, NEW s, NEW from, NEW to, CanMove(d, K, s, from, to),
           NEW m \in Moved(from, to), \A i \in Indexes : i < m => from[i] = to[i],
           Moved(from, to) \cap Unique \subseteq {m},
           ReadsAs(d, m, [K[m] EXCEPT ![s] = Link], from[m]),
           ~AllIndexes(d, updateAllIndex(s, from, to)).ok
    PROVE  AllIndexes(d, updateAllIndex(s, from, to)).d \in States(d, K)
  <1> DEFINE call == updateAllIndex(s, from, to)
             logs == call.logs
             r == ChangeAll(d, s, logs)
             f == [K[m] EXCEPT ![s] = Link]
             H == [K EXCEPT ![m] = f]
             n == 2 * m - 1
             back == UndoLogs(logs, n)
             u == ChangeAll(r.d, s, back)
             Back == [j \in 0..n |-> IF j = 0 THEN States(d, H) ELSE States(d, K)]
  <1>0. /\ K \in [Indexes -> Entered] /\ Holds(d, K) /\ s \in Slots
        /\ from \in [Indexes -> Keys] /\ to \in [Indexes -> Keys]
        /\ \A i \in Indexes : K[i][s] = from[i]
        /\ m \in Indexes /\ from[m] # to[m] /\ to \in Columns /\ m \in 1..IndexNum
    BY IndexNums DEF Holds, CanMove, Columns, Moved
  <1>1. Through(r, 2 * IndexNum, Midway(d, K, s, from, to), UpdateStops(from, to))
    BY UpdateLoop
  <1>2. /\ call.addr = s /\ logs \in Seq(Range(logs)) /\ Len(logs) = 2 * IndexNum
        /\ \A i \in 1..IndexNum :
                 /\ logs[2 * i - 1] = IF from[i] = to[i] THEN Keep(i, to[i])
                                                         ELSE Delete(i, from[i])
                 /\ logs[2 * i] = IF from[i] = to[i] THEN Keep(i, to[i])
                                                     ELSE Insert(i, to[i])
    BY UpdateLogs
  <1> HIDE DEF logs
  <1>3. ~r.ok
    BY <1>2 DEF AllIndexes, OrUndone, Done, Thrown, logs
  <1> HIDE DEF r
  <1>4. r.n = n /\ r.d \in States(d, Half(K, s, from, to, m)) /\ n \in 0..Len(logs) /\ n \in Nat
    <2>1. /\ r.n \in 0..(2 * IndexNum - 1) /\ r.n + 1 \in UpdateStops(from, to)
          /\ r.d \in Midway(d, K, s, from, to)[r.n]
      BY <1>1, <1>3 DEF Through
    <2>2. r.n + 1 = 2 * m
      BY <2>1 DEF UpdateStops
    <2>3. r.n = n
      <3>1. r.n \in Int /\ m \in Int
        BY <1>0, <2>1, IndexNums
      <3> QED BY <2>2, <3>1
    <2>4. r.d \in Midway(d, K, s, from, to)[2 * m - 1]
      BY <2>1, <2>3
    <2>5. n \in 0..Len(logs) /\ n \in Nat
      BY <1>0, <1>2, IndexNums
    <2> QED BY <1>0, <2>3, <2>4, <2>5, MidwayAt
  <1>5. Half(K, s, from, to, m) = H
    <2>1. ASSUME NEW i \in Indexes, i < m PROVE [K[i] EXCEPT ![s] = to[i]] = K[i]
      <3>1. to[i] = K[i][s] /\ K[i] \in Entered
        BY <1>0, <2>1
      <3> QED BY <3>1 DEF Entered
    <2>2. \A i \in Indexes : i <= m - 1 => i < m
      BY <1>0, IndexNums
    <2>3. Put(K, s, to, m - 1) = K
      BY <1>0, <2>1, <2>2 DEF Put
    <2> QED BY <1>0, <2>3 DEF Half
  <1>6. f \in Entered /\ f[s] = Link /\ H[m] = f /\ H \in [Indexes -> Entered]
    BY <1>0, WithChanged DEF Entered
  <1>7. K = [H EXCEPT ![m] = K[m]] /\ K[m] = [f EXCEPT ![s] = from[m]]
    <2>1. K[m] = [f EXCEPT ![s] = from[m]]
      <3>1. K[m] \in [Slots -> Keys \cup {Link}] /\ K[m][s] = from[m]
        BY <1>0 DEF Entered
      <3> QED BY <3>1
    <2>2. K = [H EXCEPT ![m] = K[m]]
      <3> HIDE DEF f
      <3> QED BY <1>0
    <2> QED BY <2>1, <2>2
  <1>8. Len(back) = n /\ \A j \in 1..n : back[j] = Reversed(logs[n + 1 - j])
    <2>1. back = [j \in 1..n |-> back[j]]
      BY DEF UndoLogs
    <2>2. Len(back) = n
      <3> HIDE DEF back, n
      <3> QED BY <1>4, <2>1, LenOf
    <2> QED BY <2>2 DEF UndoLogs
  <1> HIDE DEF back, H, f
  <1>9. ASSUME NEW e \in States(d, H)
        PROVE  Change(e, s, back[1]).ok /\ Change(e, s, back[1]).d \in States(d, K)
    <2>1. back[1] = Insert(m, from[m])
      <3>1. 1 \in 1..n /\ n + 1 - 1 = 2 * m - 1
        BY <1>0, IndexNums
      <3>2. back[1] = Reversed(logs[2 * m - 1])
        BY <1>8, <3>1
      <3>3. logs[2 * m - 1] = Delete(m, from[m])
        BY <1>0, <1>2
      <3> QED BY <3>2, <3>3, ChangeIs
    <2>2. from[m] \in Keys /\ K[m][s] \in Keys /\ K[m] \in Entered
      BY <1>0
    <2>3. ~Refuses(m, f, from[m])
      <3> SUFFICES ASSUME Refuses(m, f, from[m]) PROVE FALSE
        OBVIOUS
      <3>1. m \in Unique /\ With(f, from[m]) # {}
        BY <1>0, <2>2, FreedNode DEF f
      <3>2. PICK t \in Slots : f[t] = from[m]
        BY <3>1 DEF With
      <3>3. t # s
        BY <1>6, <2>2, <3>2, TableAssumption
      <3>4. K[m][t] = from[m]
        BY <2>2, <3>2, <3>3 DEF f, Entered
      <3>5. t \in All(K[m]) /\ s \in All(K[m])
        BY <1>0, <2>2, <3>4, TableAssumption DEF All
      <3>6. \A a, b \in All(K[m]) : K[m][a] = K[m][b] => a = b
        BY <1>0, <3>1 DEF Holds, IndexRight
      <3> QED BY <1>0, <3>3, <3>4, <3>5, <3>6
    <2>4. ReadsAs(d, m, H[m], from[m])
      BY <1>6 DEF f
    <2>5. Change(e, s, back[1]) = insertIdx(e, m, from[m], s)
      BY <2>1, ChangeIs
    <2>6. /\ insertIdx(e, m, from[m], s).ok
          /\ insertIdx(e, m, from[m], s).d \in States(d, K)
      <3>1. K[m] = [H[m] EXCEPT ![s] = from[m]] /\ H[m][s] = Link
        BY <1>6, <1>7
      <3>2. ~Refuses(m, H[m], from[m])
        BY <1>6, <2>3
      <3>3. m \in Indexes /\ s \in Slots /\ K = [H EXCEPT ![m] = K[m]] /\ from[m] \in Keys
        BY <1>0, <1>7, <2>2
      <3> QED BY <2>4, <3>1, <3>2, <3>3, InsertTo
    <2> QED BY <2>5, <2>6
  <1>10. ASSUME NEW j \in 2..n, NEW e PROVE Change(e, s, back[j]) = Done(e)
    <2>1. j \in 1..n /\ n + 1 - j \in 1..(2 * IndexNum) /\ n + 1 - j < 2 * m - 1
      BY <1>0, IndexNums
    <2>2. PICK i \in 1..IndexNum : n + 1 - j = 2 * i - 1 \/ n + 1 - j = 2 * i
      BY <2>1, OddOrEven
    <2>3. i \in Indexes /\ i < m
      BY <1>0, <2>1, <2>2, IndexNums
    <2>4. logs[n + 1 - j] = Keep(i, to[i])
      BY <1>2, <2>2, <2>3
    <2>5. back[j] = Keep(i, to[i])
      BY <1>8, <2>1, <2>4, ChangeIs
    <2> QED BY <2>5, ChangeIs
  <1>11. ASSUME NEW j \in 1..n, NEW e \in Back[j - 1]
         PROVE  LeadsOn(Change(e, s, back[j]), j, Back, {})
    <2>1. CASE j = 1
      <3>0. 0 \in 0..n /\ 1 \in 0..n /\ 1 - 1 = 0
        BY <1>4, <2>1
      <3>1. e \in States(d, H) /\ Back[1] = States(d, K)
        BY <1>11, <2>1, <3>0
      <3> QED BY <1>9, <2>1, <3>1 DEF LeadsOn
    <2>2. CASE j # 1
      <3>1. e \in States(d, K) /\ Back[j] = States(d, K) /\ j \in 2..n
        BY <1>4, <1>11, <2>2
      <3>2. Change(e, s, back[j]) = Done(e)
        BY <1>10, <3>1
      <3> QED BY <3>1, <3>2 DEF LeadsOn, Done
    <2> QED BY <2>1, <2>2
  <1>12. Back[0] = States(d, H) /\ Back[n] = States(d, K)
    BY <1>0, <1>4, IndexNums
  <1> HIDE DEF Back, n
  <1>13. Through(u, n, Back, {})
    BY <1>4, <1>5, <1>8, <1>11, <1>12, ChangeLoop
  <1>14. u.d \in States(d, K)
    BY <1>12, <1>13 DEF Through
  <1>15. AllIndexes(d, call) = Thrown(u.d)
    <2>1. undoIndexChange(r.d, s, SubSeq(logs, 1, n)) = u.d
      BY <1>2, <1>4, UndoIs DEF back
    <2>2. AllIndexes(d, call) = OrUndone(r, call)
      BY <1>2 DEF AllIndexes, logs, r
    <2> HIDE DEF u
    <2>3. OrUndone(r, call) = Thrown(undoIndexChange(r.d, s, SubSeq(logs, 1, n)))
      BY <1>2, <1>3, <1>4 DEF OrUndone, logs
    <2> QED BY <2>1, <2>2, <2>3
  <1> QED BY <1>14, <1>15 DEF Thrown

-----------------------------------------------------------------------------
(* Batches                                                                 *)

\* Changes of different records.
Batch(ts) ==
    /\ Len(ts) \in Nat /\ DOMAIN ts = 1..Len(ts)
    /\ \A j \in DOMAIN ts : ts[j].addr \in Slots
    /\ \A j, k \in DOMAIN ts : ts[j].addr = ts[k].addr => j = k

\* Entries are as their records read.
Exact(d, K) == \A i \in Indexes : \A t \in All(K[i]) : d.rec[t][i] = K[i][t]

Unentered == [s \in Slots |-> NoKeys]

\* The next record of a batch is none of those before it.
LEMMA BatchFacts ==
    ASSUME NEW ts, Batch(ts)
    PROVE  /\ Addrs(ts) = Firsts(ts, Len(ts)) /\ Addrs(ts) \in SUBSET Slots
           /\ Firsts(ts, 0) = {}
           /\ \A j \in 1..Len(ts) :
                 /\ j - 1 \in 0..Len(ts) /\ j \in 0..Len(ts)
                 /\ Firsts(ts, j) = Firsts(ts, j - 1) \cup {ts[j].addr}
                 /\ ts[j].addr \in Addrs(ts) /\ ts[j].addr \in Slots
                 /\ ts[j].addr \notin Firsts(ts, j - 1)
           /\ \A j \in 0..Len(ts) : Firsts(ts, j) \subseteq Addrs(ts)
  <1> DEFINE n == Len(ts)
  <1>1. n \in Nat /\ DOMAIN ts = 1..n
    BY DEF Batch
  <1>2. Addrs(ts) = Firsts(ts, n) /\ Addrs(ts) \in SUBSET Slots
    BY <1>1 DEF Addrs, Firsts, Batch
  <1>3. /\ Firsts(ts, 0) = {}
        /\ \A j \in 1..n : Firsts(ts, j) = Firsts(ts, j - 1) \cup {ts[j].addr}
        /\ \A j \in 1..n : ts[j].addr \in Firsts(ts, n)
        /\ \A j \in 0..n : Firsts(ts, j) \subseteq Firsts(ts, n)
    BY <1>1, FirstsFacts
  <1>4. ASSUME NEW j \in 1..n
        PROVE  /\ j - 1 \in 0..n /\ j \in 0..n /\ ts[j].addr \in Slots
               /\ ts[j].addr \notin Firsts(ts, j - 1)
    <2>1. j - 1 \in 0..n /\ j \in 0..n
      BY <1>1
    <2>2. \A k \in 1..(j - 1) : k \in 1..n /\ k # j
      BY <1>1
    <2>3. ts[j].addr \notin Firsts(ts, j - 1)
      BY <1>1, <2>2 DEF Firsts, Batch
    <2> QED BY <1>1, <2>1, <2>3 DEF Batch
  <1> HIDE DEF n
  <1> QED BY <1>2, <1>3, <1>4 DEF n

\* A slot that is entered nowhere has no keys.
LEMMA UnenteredFacts ==
    /\ Unentered \in [Slots -> Columns] /\ NoKeys \in Columns
    /\ \A s \in Slots : Unentered[s] = NoKeys
    /\ \A i \in Indexes : NoKeys[i] = Link
  BY DEF Unentered, NoKeys, Columns

\* The numbers of a loop.
LEMMA Onward ==
    ASSUME NEW d, NEW K, NEW e \in States(d, K), NEW K2, NEW e2 \in States(e, K2)
    PROVE  e2 \in States(d, K2)
  BY DEF States, SameRecords

\* The entries of a batch are taken out.
LEMMA DeleteBatch ==
    ASSUME NEW d, NEW K, Holds(d, K), Exact(d, K), NEW ts, Batch(ts),
           \A j \in DOMAIN ts :
               /\ ts[j].from \in [Indexes -> Keys]
               /\ \A i \in Indexes : K[i][ts[j].addr] = ts[j].from[i]
    PROVE  CallAll(d, DeleteCalls(ts)).d \in States(d, Over(K, Addrs(ts), Unentered))
  <1> DEFINE n == Len(ts)
             calls == DeleteCalls(ts)
             G(j) == Over(K, Firsts(ts, j), Unentered)
             Good == [j \in 0..n |-> States(d, G(j))]
  <1>0. K \in [Indexes -> Entered] /\ n \in Nat /\ DOMAIN ts = 1..n
    BY DEF Holds, Batch
  <1>1. /\ DOMAIN calls = 1..n /\ calls = [j \in 1..n |-> calls[j]]
        /\ \A j \in 1..n : calls[j] = deleteAllIndex(ts[j].addr, ts[j].from)
    BY <1>0 DEF DeleteCalls
  <1> HIDE DEF calls
  <1>2. Len(calls) = n
    BY <1>0, <1>1, LenOf
  <1>3. d \in Good[0]
    <2>1. G(0) = K
      BY <1>0, BatchFacts, OverFacts, UnenteredFacts
    <2> HIDE DEF G
    <2> QED BY <1>0, <2>1, StartsIn
  <1>4. ASSUME NEW j \in 1..n, NEW e \in Good[j - 1]
        PROVE  AllIndexes(e, calls[j]).ok /\ AllIndexes(e, calls[j]).d \in Good[j]
    <2> DEFINE A == G(j - 1)
               s == ts[j].addr
               row == ts[j].from
    <2>1. /\ s \in Slots /\ s \notin Firsts(ts, j - 1) /\ j - 1 \in 0..n /\ j \in 0..n
          /\ Firsts(ts, j) = Firsts(ts, j - 1) \cup {s}
      BY BatchFacts
    <2>2. /\ A \in [Indexes -> Entered]
          /\ \A i \in Indexes, t \in Slots :
                 A[i][t] = IF t \in Firsts(ts, j - 1) THEN Unentered[t][i] ELSE K[i][t]
      BY <1>0, OverFacts, UnenteredFacts
    <2>3. Put(A, s, NoKeys, IndexNum) = G(j)
      <3>1. Put(A, s, Unentered[s], IndexNum) = Over(K, Firsts(ts, j - 1) \cup {s}, Unentered)
        BY <1>0, <2>1, OverStep, UnenteredFacts
      <3> QED BY <2>1, <3>1, UnenteredFacts
    <2>4. e \in States(d, A) /\ Good[j] = States(d, G(j))
      BY <1>4, <2>1
    <2> HIDE DEF A, G, Good
    <2>5. /\ row \in [Indexes -> Keys]
          /\ \A i \in Indexes : A[i][s] = row[i] /\ KeyReads(e, i, A[i], row[i])
      <3>1. row \in [Indexes -> Keys] /\ \A i \in Indexes : K[i][s] = row[i]
        BY <1>0
      <3>2. ASSUME NEW i \in Indexes PROVE A[i][s] = row[i]
        BY <2>1, <2>2, <3>1
      <3>3. ASSUME NEW i \in Indexes, NEW t \in With(A[i], row[i])
            PROVE  e.rec[t][i] = row[i]
        <4>1. t \in Slots /\ A[i][t] = row[i] /\ row[i] \in Keys
          BY <3>1, <3>3 DEF With
        <4>2. K[i][t] = row[i]
          BY <2>2, <4>1, UnenteredFacts, TableAssumption
        <4>3. t \in All(K[i])
          BY <4>1, <4>2, TableAssumption DEF All
        <4>4. d.rec[t][i] = row[i]
          BY <4>2, <4>3 DEF Exact
        <4> QED BY <2>4, <4>4, StatesFacts
      <3> QED BY <3>1, <3>2, <3>3 DEF KeyReads
    <2>6. Holds(e, A)
      BY <2>4, StatesFacts
    <2> HIDE DEF s, row
    <2>7. /\ AllIndexes(e, deleteAllIndex(s, row)).ok
          /\ AllIndexes(e, deleteAllIndex(s, row)).d \in States(e, Put(A, s, NoKeys, IndexNum))
      BY <2>1, <2>5, <2>6, DeleteAll
    <2>8. AllIndexes(e, deleteAllIndex(s, row)).d \in States(d, G(j))
      BY <2>3, <2>4, <2>7, Onward
    <2>9. calls[j] = deleteAllIndex(s, row)
      BY <1>1 DEF s, row
    <2> QED BY <2>4, <2>7, <2>8, <2>9
  <1>5. Good[n] = States(d, Over(K, Addrs(ts), Unentered))
    <2>1. Addrs(ts) = Firsts(ts, n) /\ n \in 0..n
      BY <1>0, BatchFacts
    <2> QED BY <2>1
  <1> HIDE DEF n, Good
  <1>6. Through(CallAll(d, calls), n, Good, {})
    <2>1. \A j \in 1..n : \A e \in Good[j - 1] : LeadsOn(AllIndexes(e, calls[j]), j, Good, {})
      BY <1>4 DEF LeadsOn
    <2> QED BY <1>0, <1>2, <1>3, <2>1, CallLoop
  <1>7. CallAll(d, calls).d \in Good[n]
    BY <1>6 DEF Through
  <1> QED BY <1>5, <1>7 DEF calls

\* What has been entered when an insert is at its record j, and what refuses it.
Entering(w, K, ts, j) == Over(K, Firsts(ts, j), w.rec)
InsertStops(w, K, ts) ==
    {j \in 1..Len(ts) : \E i \in Indexes :
        Refuses(i, Entering(w, K, ts, j - 1)[i], ts[j].to[i])}

\* A batch is entered up to a record that an index refuses.
LEMMA InsertBatch ==
    ASSUME NEW w, NEW K, Holds(w, K), Exact(w, K), NEW ts, Batch(ts),
           \A j \in DOMAIN ts :
               /\ ts[j].to \in [Indexes -> Keys] /\ w.rec[ts[j].addr] = ts[j].to
               /\ \A i \in Indexes : K[i][ts[j].addr] = Link
    PROVE  Through(CallAll(w, InsertCalls(ts)), Len(ts),
                   [j \in 0..Len(ts) |-> States(w, Entering(w, K, ts, j))],
                   InsertStops(w, K, ts))
  <1> DEFINE n == Len(ts)
             calls == InsertCalls(ts)
             G(j) == Entering(w, K, ts, j)
             Good == [j \in 0..n |-> States(w, G(j))]
             Stop == InsertStops(w, K, ts)
             R == w.rec
  <1>0. /\ K \in [Indexes -> Entered] /\ n \in Nat /\ DOMAIN ts = 1..n
        /\ R \in [Slots -> Columns]
    BY DEF Holds, Batch, DB
  <1>1. /\ DOMAIN calls = 1..n /\ calls = [j \in 1..n |-> calls[j]]
        /\ \A j \in 1..n : calls[j] = insertAllIndex(ts[j].addr, ts[j].to)
    BY <1>0 DEF InsertCalls
  <1> HIDE DEF calls
  <1>2. Len(calls) = n
    BY <1>0, <1>1, LenOf
  <1>3. w \in Good[0]
    <2>1. G(0) = K
      <3>1. Firsts(ts, 0) = {}
        BY BatchFacts
      <3>2. Over(K, {}, R) = K
        <4> HIDE DEF R
        <4> QED BY <1>0, OverFacts
      <3> QED BY <3>1, <3>2 DEF Entering
    <2> HIDE DEF G
    <2> QED BY <1>0, <2>1, StartsIn
  <1>4. ASSUME NEW j \in 1..n, NEW e \in Good[j - 1]
        PROVE  LeadsOn(AllIndexes(e, calls[j]), j, Good, Stop)
    <2> DEFINE A == G(j - 1)
               s == ts[j].addr
               row == ts[j].to
    <2>1. /\ s \in Slots /\ s \notin Firsts(ts, j - 1) /\ j - 1 \in 0..n /\ j \in 0..n
          /\ Firsts(ts, j) = Firsts(ts, j - 1) \cup {s}
      BY BatchFacts
    <2>0. row \in [Indexes -> Keys] /\ R[s] = row /\ \A i \in Indexes : K[i][s] = Link
      BY <1>0
    <2>2. /\ A \in [Indexes -> Entered]
          /\ \A i \in Indexes, t \in Slots :
                 A[i][t] = IF t \in Firsts(ts, j - 1) THEN R[t][i] ELSE K[i][t]
      BY <1>0, OverFacts DEF Entering
    <2>3. Put(A, s, row, IndexNum) = G(j)
      <3>1. Put(A, s, R[s], IndexNum) = Over(K, Firsts(ts, j - 1) \cup {s}, R)
        BY <1>0, <2>1, OverStep DEF Entering
      <3> QED BY <2>0, <2>1, <3>1 DEF Entering
    <2>4. /\ e \in States(w, A) /\ Good[j] = States(w, G(j))
          /\ Good[j - 1] = States(w, A)
      BY <1>4, <2>1
    <2>10. ASSUME NEW i \in Indexes, Refuses(i, A[i], row[i]) PROVE j \in Stop
      BY <2>10 DEF InsertStops
    <2> HIDE DEF A, G, Good, Stop
    <2>5. \A i \in Indexes : /\ A[i][s] = Link /\ ReadsAs(e, i, A[i], row[i])
                             /\ e.rec[s][i] = row[i]
      <3>0. e.rec = R
        BY <2>4, StatesFacts
      <3>1. \A i \in Indexes : A[i][s] = Link /\ e.rec[s][i] = row[i]
        BY <2>0, <2>1, <2>2, <3>0
      <3>2. ASSUME NEW i \in Indexes, NEW t \in All(A[i])
            PROVE  e.rec[t][i] = A[i][t]
        <4>1. t \in Slots /\ A[i][t] # Link
          BY <3>2 DEF All
        <4>2. CASE t \in Firsts(ts, j - 1)
          BY <2>2, <3>0, <4>1, <4>2
        <4>3. CASE t \notin Firsts(ts, j - 1)
          <5>1. A[i][t] = K[i][t] /\ t \in All(K[i])
            BY <2>2, <4>1, <4>3 DEF All
          <5> QED BY <3>0, <5>1 DEF Exact
        <4> QED BY <4>2, <4>3
      <3> QED BY <3>1, <3>2 DEF ReadsAs
    <2>6. Holds(e, A)
      BY <2>4, StatesFacts
    <2>9. calls[j] = insertAllIndex(s, row)
      BY <1>1
    <2> HIDE DEF s, row
    <2>7. \/ /\ AllIndexes(e, insertAllIndex(s, row)).ok
             /\ AllIndexes(e, insertAllIndex(s, row)).d \in States(e, Put(A, s, row, IndexNum))
          \/ /\ ~AllIndexes(e, insertAllIndex(s, row)).ok
             /\ AllIndexes(e, insertAllIndex(s, row)).d \in States(e, A)
             /\ \E i \in Indexes : Refuses(i, A[i], row[i])
      BY <2>0, <2>1, <2>5, <2>6, InsertAll
    <2>8. \/ /\ AllIndexes(e, calls[j]).ok /\ AllIndexes(e, calls[j]).d \in Good[j]
          \/ /\ ~AllIndexes(e, calls[j]).ok /\ AllIndexes(e, calls[j]).d \in Good[j - 1]
             /\ j \in Stop
      BY <2>3, <2>4, <2>7, <2>9, <2>10, Onward
    <2> QED BY <2>8 DEF LeadsOn
  <1> HIDE DEF n, Good, Stop
  <1>6. Through(CallAll(w, calls), n, Good, Stop)
    BY <1>0, <1>2, <1>3, <1>4, CallLoop
  <1> QED BY <1>6 DEF calls, n, Good, Stop

-----------------------------------------------------------------------------

\* A loop of which only the way through matters.
LEMMA CallsPassed ==
    ASSUME NEW d, NEW calls, NEW n \in Nat, Len(calls) = n, NEW Good,
           d \in Good[0],
           \A j \in 1..n : \A e \in Good[j - 1] :
               AllIndexes(e, calls[j]).ok => AllIndexes(e, calls[j]).d \in Good[j],
           CallAll(d, calls).ok
    PROVE  CallAll(d, calls).d \in Good[n]
  <1> DEFINE r == CallRun(d, calls)
             S == {m \in 0..n : r[m].ok => r[m].d \in Good[m]}
  <1>1. \A j \in 0..n : r[j] = CallStep(r, d, calls, j)
    BY CallSteps
  <1> HIDE DEF r
  <1>2. 0 \in S
    <2>1. r[0] = Start(d)
      BY <1>1 DEF CallStep
    <2> QED BY <2>1 DEF Start
  <1>3. ASSUME NEW m \in 0..(n - 1), m \in S PROVE m + 1 \in S
    <2>1. r[m + 1] = Then(r[m], AllIndexes(r[m].d, calls[m + 1]))
      BY <1>1 DEF CallStep
    <2>2. r[m].ok => r[m].d \in Good[m]
      BY <1>3
    <2>3. ASSUME r[m + 1].ok PROVE r[m + 1].d \in Good[m + 1]
      <3>1. r[m].ok
        BY <2>1, <2>3 DEF Then
      <3>2. /\ r[m + 1].ok = AllIndexes(r[m].d, calls[m + 1]).ok
            /\ r[m + 1].d = AllIndexes(r[m].d, calls[m + 1]).d
        BY <2>1, <3>1 DEF Then
      <3>3. m + 1 \in 1..n /\ m + 1 - 1 = m
        OBVIOUS
      <3> QED BY <2>2, <2>3, <3>1, <3>2, <3>3
    <2> QED BY <2>3
  <1>4. \A j \in 0..n : j \in S
    <2>1. S \in SUBSET (0..n)
      OBVIOUS
    <2> HIDE DEF S
    <2> QED BY <1>2, <1>3, <2>1, AlongLoop
  <1>5. r[n].ok => r[n].d \in Good[n]
    BY <1>4
  <1> QED BY <1>5, CallAllIs DEF r

\* No update moves to a key that another one comes from or goes to.
Apart(ts) ==
    \A a, b \in DOMAIN ts : a # b =>
        \A i \in Moved(ts[a].from, ts[a].to) :
            ts[a].to[i] \notin {ts[b].from[i], ts[b].to[i]}

\* Updates of records of d, and of entries that K has of them.
UpdatesOf(d, K, ts) ==
    /\ Holds(d, K) /\ Exact(d, K) /\ Batch(ts) /\ Apart(ts)
    /\ \A j \in DOMAIN ts :
           /\ ts[j].from \in [Indexes -> Keys] /\ ts[j].to \in [Indexes -> Keys]
           /\ d.rec[ts[j].addr] = ts[j].from
           /\ \A i \in Indexes : K[i][ts[j].addr] = ts[j].from[i]

\* Every update of a batch finds the entries it moves, as no other comes from
\* or goes to its keys.
LEMMA UpdateCan ==
    ASSUME NEW d, NEW K, NEW ts, UpdatesOf(d, K, ts), NEW R \in [Slots -> Columns],
           \A j \in DOMAIN ts : R[ts[j].addr] = ts[j].to,
           NEW j \in 1..Len(ts), NEW A, A = Over(K, Firsts(ts, j - 1), R),
           NEW e \in States(d, A)
    PROVE  CanMove(e, A, ts[j].addr, ts[j].from, ts[j].to)
  <1> DEFINE s == ts[j].addr
             from == ts[j].from
             to == ts[j].to
  <1>1. /\ K \in [Indexes -> Entered] /\ DOMAIN ts = 1..Len(ts) /\ Len(ts) \in Nat
        /\ Batch(ts) /\ Exact(d, K)
    BY DEF UpdatesOf, Holds, Batch
  <1>2. s \in Slots /\ s \notin Firsts(ts, j - 1)
    BY <1>1, BatchFacts
  <1>3. /\ A \in [Indexes -> Entered]
        /\ \A i \in Indexes, t \in Slots :
               A[i][t] = IF t \in Firsts(ts, j - 1) THEN R[t][i] ELSE K[i][t]
    BY <1>1, OverFacts
  <1>4. /\ from \in [Indexes -> Keys] /\ to \in [Indexes -> Keys]
        /\ \A i \in Indexes : A[i][s] = from[i]
    BY <1>1, <1>2, <1>3 DEF UpdatesOf
  <1>5. Holds(e, A) /\ e.rec = d.rec
    BY StatesFacts
  \* The entry of an earlier update.
  <1>6. ASSUME NEW t \in Firsts(ts, j - 1)
        PROVE  \E b \in DOMAIN ts : /\ b # j /\ R[t] = ts[b].to /\ d.rec[t] = ts[b].from
    <2>1. PICK b \in 1..(j - 1) : t = ts[b].addr
      BY <1>6 DEF Firsts
    <2>2. b \in DOMAIN ts /\ b # j
      BY <1>1, <2>1
    <2> QED BY <2>1, <2>2 DEF UpdatesOf
  <1>7. ASSUME NEW i \in Indexes, NEW t \in Slots, t \notin Firsts(ts, j - 1), A[i][t] # Link
        PROVE  d.rec[t][i] = A[i][t]
    <2>1. A[i][t] = K[i][t] /\ t \in All(K[i])
      BY <1>3, <1>7 DEF All
    <2> QED BY <1>1, <2>1 DEF Exact
  <1>8. j \in DOMAIN ts /\ Apart(ts)
    BY <1>1 DEF UpdatesOf
  <1>9. ASSUME NEW i \in Moved(from, to) PROVE KeyReads(e, i, A[i], from[i])
    <2> SUFFICES ASSUME NEW t \in With(A[i], from[i]) PROVE e.rec[t][i] = from[i]
      BY DEF KeyReads
    <2>1. t \in Slots /\ A[i][t] = from[i] /\ from[i] \in Keys /\ i \in Indexes
      BY <1>4, <1>9 DEF With, Moved
    <2>2. CASE t \notin Firsts(ts, j - 1)
      BY <1>5, <1>7, <2>1, <2>2, TableAssumption
    <2>3. CASE t \in Firsts(ts, j - 1)
      <3>1. PICK b \in DOMAIN ts : b # j /\ R[t] = ts[b].to /\ d.rec[t] = ts[b].from
        BY <1>6, <2>3
      <3>2. ts[b].to[i] = from[i]
        BY <1>3, <2>1, <2>3, <3>1
      <3>3. i \notin Moved(ts[b].from, ts[b].to)
        BY <1>8, <3>1, <3>2 DEF Apart
      <3>4. ts[b].from[i] = ts[b].to[i]
        BY <2>1, <3>3 DEF Moved
      <3> QED BY <1>5, <3>1, <3>2, <3>4
    <2> QED BY <2>2, <2>3
  <1>10. ASSUME NEW i \in Moved(from, to)
         PROVE  ReadsAs(e, i, [A[i] EXCEPT ![s] = Link], to[i])
    <2> DEFINE f == [A[i] EXCEPT ![s] = Link]
    <2> SUFFICES ASSUME NEW t \in All(f) PROVE e.rec[t][i] = to[i] <=> f[t] = to[i]
      BY DEF ReadsAs
    <2>1. i \in Indexes /\ t \in Slots /\ t # s /\ f[t] = A[i][t] /\ A[i][t] # Link
      <3>1. i \in Indexes /\ t \in Slots /\ f[t] # Link
        BY DEF All, Moved
      <3>2. A[i] \in [Slots -> Keys \cup {Link}]
        BY <1>3, <3>1 DEF Entered
      <3> QED BY <1>2, <3>1, <3>2
    <2>2. CASE t \notin Firsts(ts, j - 1)
      BY <1>5, <1>7, <2>1, <2>2
    <2>3. CASE t \in Firsts(ts, j - 1)
      <3>1. PICK b \in DOMAIN ts : b # j /\ R[t] = ts[b].to /\ d.rec[t] = ts[b].from
        BY <1>6, <2>3
      <3>2. A[i][t] = ts[b].to[i] /\ e.rec[t][i] = ts[b].from[i]
        BY <1>3, <1>5, <2>1, <2>3, <3>1
      <3>3. to[i] \notin {ts[b].from[i], ts[b].to[i]}
        BY <1>8, <1>10, <3>1 DEF Apart
      <3> HIDE DEF f
      <3> QED BY <2>1, <3>2, <3>3
    <2> QED BY <2>2, <2>3
  <1> QED BY <1>2, <1>4, <1>5, <1>9, <1>10 DEF CanMove

\* A batch of updates that returns has moved the entries of all.
LEMMA UpdateBatch ==
    ASSUME NEW d, NEW K, NEW ts, UpdatesOf(d, K, ts), NEW R \in [Slots -> Columns],
           \A j \in DOMAIN ts : R[ts[j].addr] = ts[j].to,
           CallAll(d, UpdateCalls(ts)).ok
    PROVE  CallAll(d, UpdateCalls(ts)).d \in States(d, Over(K, Addrs(ts), R))
  <1> DEFINE n == Len(ts)
             calls == UpdateCalls(ts)
             G(j) == Over(K, Firsts(ts, j), R)
             Good == [j \in 0..n |-> States(d, G(j))]
  <1>0. /\ K \in [Indexes -> Entered] /\ n \in Nat /\ DOMAIN ts = 1..n /\ Batch(ts)
        /\ Holds(d, K)
    BY DEF Holds, Batch, UpdatesOf
  <1>1. /\ DOMAIN calls = 1..n /\ calls = [j \in 1..n |-> calls[j]]
        /\ \A j \in 1..n : calls[j] = updateAllIndex(ts[j].addr, ts[j].from, ts[j].to)
    BY <1>0 DEF UpdateCalls
  <1>9. CallAll(d, calls).ok
    OBVIOUS
  <1> HIDE DEF calls
  <1>2. Len(calls) = n
    BY <1>0, <1>1, LenOf
  <1>3. d \in Good[0]
    <2>1. G(0) = K
      BY <1>0, BatchFacts, OverFacts
    <2> HIDE DEF G
    <2> QED BY <1>0, <2>1, StartsIn
  <1>4. ASSUME NEW j \in 1..n, NEW e \in Good[j - 1], AllIndexes(e, calls[j]).ok
        PROVE  AllIndexes(e, calls[j]).d \in Good[j]
    <2> DEFINE A == G(j - 1)
               s == ts[j].addr
               from == ts[j].from
               to == ts[j].to
    <2>1. /\ s \in Slots /\ j - 1 \in 0..n /\ j \in 0..n
          /\ Firsts(ts, j) = Firsts(ts, j - 1) \cup {s}
      BY <1>0, BatchFacts
    <2>2. Put(A, s, to, IndexNum) = G(j)
      <3>1. Put(A, s, R[s], IndexNum) = Over(K, Firsts(ts, j - 1) \cup {s}, R)
        BY <1>0, <2>1, OverStep
      <3>2. R[s] = to
        BY <1>0
      <3> QED BY <2>1, <3>1, <3>2
    <2>4. e \in States(d, A) /\ Good[j] = States(d, G(j))
      BY <1>4, <2>1
    <2>5. A = Over(K, Firsts(ts, j - 1), R)
      OBVIOUS
    <2> HIDE DEF A, G, Good
    <2>6. CanMove(e, A, s, from, to)
      BY <2>4, <2>5, UpdateCan
    <2>7. calls[j] = updateAllIndex(s, from, to)
      BY <1>1
    <2> HIDE DEF s, from, to
    <2>8. AllIndexes(e, calls[j]).d \in States(e, Put(A, s, to, IndexNum))
      BY <1>4, <2>6, <2>7, UpdateAll
    <2> QED BY <2>2, <2>4, <2>8, Onward
  <1>5. Good[n] = States(d, Over(K, Addrs(ts), R))
    <2>1. Addrs(ts) = Firsts(ts, n) /\ n \in 0..n
      BY <1>0, BatchFacts
    <2> QED BY <2>1
  <1> HIDE DEF n, Good
  <1>6. CallAll(d, calls).d \in Good[n]
    BY <1>0, <1>2, <1>3, <1>4, <1>9, CallsPassed
  <1> QED BY <1>5, <1>6 DEF calls

\* One that an index refuses, the first that it changes, has moved none.
LEMMA UpdateOneRefused ==
    ASSUME NEW d, NEW K, NEW ts, UpdatesOf(d, K, ts), Len(ts) = 1,
           NEW m \in Moved(ts[1].from, ts[1].to),
           \A i \in Indexes : i < m => ts[1].from[i] = ts[1].to[i],
           Moved(ts[1].from, ts[1].to) \cap Unique \subseteq {m},
           ~CallAll(d, UpdateCalls(ts)).ok
    PROVE  /\ CallAll(d, UpdateCalls(ts)).d \in States(d, K)
           /\ CallAll(d, UpdateCalls(ts)).n = 0
  <1> DEFINE calls == UpdateCalls(ts)
             s == ts[1].addr
             from == ts[1].from
             to == ts[1].to
             c == AllIndexes(d, updateAllIndex(s, from, to))
             r == CallRun(d, calls)
             R == [t \in Slots |-> to]
  <1>0. /\ K \in [Indexes -> Entered] /\ DOMAIN ts = 1..1 /\ Batch(ts) /\ Holds(d, K)
        /\ 1 \in DOMAIN ts /\ Exact(d, K)
    BY DEF Holds, Batch, UpdatesOf
  <1>1. calls = [j \in 1..1 |-> calls[j]] /\ calls[1] = updateAllIndex(s, from, to)
    BY <1>0 DEF UpdateCalls
  <1>9. ~CallAll(d, calls).ok
    OBVIOUS
  <1> HIDE DEF calls
  <1>2. Len(calls) = 1
    BY <1>1, LenOf
  <1>3. r[0] = Start(d) /\ r[1] = Then(r[0], c) /\ CallAll(d, calls) = r[1]
    <2>1. \A j \in 0..1 : r[j] = CallStep(r, d, calls, j)
      BY <1>2, CallSteps
    <2>2. CallAll(d, calls) = r[1]
      BY <1>2, CallAllIs
    <2> HIDE DEF r
    <2>3. r[0] = Start(d)
      BY <2>1 DEF CallStep
    <2>4. r[1] = Then(r[0], AllIndexes(r[0].d, calls[1]))
      BY <2>1 DEF CallStep
    <2> QED BY <1>1, <2>2, <2>3, <2>4 DEF Start
  <1>4. ~c.ok /\ CallAll(d, calls).d = c.d /\ CallAll(d, calls).n = 0
    <2> HIDE DEF r, c
    <2> QED BY <1>3, <1>9 DEF Then, Start
  <1>5. CanMove(d, K, s, from, to)
    <2>1. to \in Columns /\ R \in [Slots -> Columns] /\ R[s] = to
      BY <1>0 DEF UpdatesOf, Columns, Batch
    <2>2. Over(K, Firsts(ts, 1 - 1), R) = K
      <3>1. Firsts(ts, 1 - 1) = {}
        BY <1>0, BatchFacts
      <3> HIDE DEF R
      <3>2. Over(K, {}, R) = K
        BY <1>0, <2>1, OverFacts
      <3> QED BY <3>1, <3>2
    <2>3. d \in States(d, K) /\ 1 \in 1..Len(ts)
      BY <1>0, StartsIn
    <2>4. \A j \in DOMAIN ts : R[ts[j].addr] = ts[j].to
      BY <1>0, <2>1
    <2> HIDE DEF R, s, from, to
    <2> QED BY <2>1, <2>2, <2>3, <2>4, UpdateCan DEF s, from, to
  <1>6. ReadsAs(d, m, [K[m] EXCEPT ![s] = Link], from[m])
    <2> DEFINE f == [K[m] EXCEPT ![s] = Link]
    <2> SUFFICES ASSUME NEW t \in All(f) PROVE d.rec[t][m] = f[t]
      BY DEF ReadsAs
    <2>1. m \in Indexes /\ K[m] \in [Slots -> Keys \cup {Link}]
      BY <1>0 DEF Moved, Entered
    <2>2. t \in All(K[m]) /\ f[t] = K[m][t]
      BY <2>1 DEF All
    <2> HIDE DEF f
    <2> QED BY <1>0, <2>1, <2>2 DEF Exact
  <1> HIDE DEF s, from, to
  <1>7. c.d \in States(d, K)
    BY <1>4, <1>5, <1>6, UpdateRefused DEF from, to
  <1> QED BY <1>4, <1>7 DEF calls

-----------------------------------------------------------------------------
(* Tables before and after a batch                                         *)

\* What the indexes of a table should hold, by index and slot.
LEMMA KeysAre ==
    ASSUME NEW e \in DB, NEW K \in [Indexes -> Entered],
           \A i \in Indexes, s \in Slots :
               K[i][s] = IF s \in e.used THEN e.rec[s][i] ELSE Link
    PROVE  KeysOf(e) = K
  <1>1. \A s \in Slots, i \in Indexes : e.rec[s][i] \in Keys \cup {Link}
    BY DEF DB, Columns
  <1>2. KeysOf(e) \in [Indexes -> Entered]
    BY <1>1 DEF KeysOf, Entered
  <1>3. \A i \in Indexes, s \in Slots : KeysOf(e)[i][s] = K[i][s]
    BY DEF KeysOf
  <1> QED BY <1>2, <1>3, SameKeys

\* What a right table is.
LEMMA RightFacts ==
    ASSUME NEW d, Right(d), NEW K, K = KeysOf(d)
    PROVE  /\ d \in DB /\ d.used \in SUBSET Slots /\ d.num = Cardinality(d.used)
           /\ Holds(d, K) /\ Exact(d, K) /\ K \in [Indexes -> Entered]
           /\ \A s \in d.used : d.rec[s] \in Rows /\ d.rec[s] \in [Indexes -> Keys]
           /\ \A i \in Indexes, s \in Slots :
                  K[i][s] = IF s \in d.used THEN d.rec[s][i] ELSE Link
           /\ \A i \in Indexes : All(K[i]) = d.used
  <1>1. /\ d \in DB /\ Holds(d, K) /\ K \in [Indexes -> Entered]
        /\ d.num = Cardinality(d.used)
    BY DEF Right, Holds
  <1>2. d.used \in SUBSET Slots
    BY <1>1 DEF DB
  <1>3. \A s \in d.used : d.rec[s] \in Rows /\ d.rec[s] \in [Indexes -> Keys]
    BY TableAssumption DEF Right
  <1>4. \A i \in Indexes, s \in Slots :
            K[i][s] = IF s \in d.used THEN d.rec[s][i] ELSE Link
    BY DEF KeysOf
  <1>5. \A i \in Indexes : All(K[i]) = d.used
    BY <1>2, <1>3, <1>4, TableAssumption DEF All
  <1>6. Exact(d, K)
    BY <1>2, <1>4, <1>5 DEF Exact
  <1> QED BY <1>1, <1>2, <1>3, <1>4, <1>5, <1>6

\* What indexes hold depends on nothing but the indexes.
LEMMA HoldsSame ==
    ASSUME NEW d, NEW K, Holds(d, K), NEW e \in DB, e.table = d.table, e.node = d.node
    PROVE  Holds(e, K)
  BY DEF Holds

\* freeTableMem changes the freed slots only, and nothing if no column is
\* overlaid.
LEMMA FreeFacts ==
    ASSUME NEW d \in DB, NEW A, NEW e, e = freeTableMem(d, A)
    PROVE  /\ e \in DB /\ e.used = d.used \ A
           /\ e.table = d.table /\ e.node = d.node /\ e.num = d.num
           /\ \A s \in Slots \ A : e.rec[s] = d.rec[s]
           /\ Overlaid = {} => e.rec = d.rec
  <1> DEFINE R == [s \in Slots |-> [i \in Indexes |->
                     IF s \in A /\ i \in Overlaid THEN Link ELSE d.rec[s][i]]]
  <1>1. e = [d EXCEPT !.used = d.used \ A, !.rec = R]
    BY DEF freeTableMem
  <1>2. d.rec \in [Slots -> Columns] /\ d.used \in SUBSET Slots
    BY DEF DB
  <1>3. R \in [Slots -> Columns]
    BY <1>2 DEF Columns
  <1>4. \A s \in Slots : (s \notin A \/ Overlaid = {}) => R[s] = d.rec[s]
    <2> SUFFICES ASSUME NEW s \in Slots, s \notin A \/ Overlaid = {}
                 PROVE  R[s] = d.rec[s]
      OBVIOUS
    <2>1. R[s] = [i \in Indexes |-> d.rec[s][i]]
      OBVIOUS
    <2>2. d.rec[s] \in [Indexes -> Keys \cup {Link}]
      BY <1>2 DEF Columns
    <2> QED BY <2>1, <2>2
  <1> HIDE DEF R
  <1>5. /\ e.used = d.used \ A /\ e.rec = R
        /\ e.table = d.table /\ e.node = d.node /\ e.num = d.num
    BY <1>1 DEF DB
  <1>6. e \in DB
    BY <1>1, <1>2, <1>3 DEF DB
  <1>7. Overlaid = {} => R = d.rec
    BY <1>2, <1>3, <1>4
  <1> QED BY <1>4, <1>5, <1>6, <1>7

\* write changes the records of the batch only.
LEMMA WriteFacts ==
    ASSUME NEW d \in DB, NEW ts, Batch(ts), \A j \in DOMAIN ts : ts[j].to \in Columns,
           NEW e, e = write(d, ts)
    PROVE  /\ e \in DB /\ e.used = d.used
           /\ e.table = d.table /\ e.node = d.node /\ e.num = d.num
           /\ \A s \in Slots \ Addrs(ts) : e.rec[s] = d.rec[s]
           /\ \A j \in DOMAIN ts : e.rec[ts[j].addr] = ts[j].to
  <1> DEFINE At(s) == CHOOSE j \in DOMAIN ts : ts[j].addr = s
             R == [s \in Slots |-> IF s \in Addrs(ts) THEN ts[At(s)].to ELSE d.rec[s]]
  <1>1. e = [d EXCEPT !.rec = R]
    BY DEF write
  <1>2. d.rec \in [Slots -> Columns]
    BY DEF DB
  <1>3. \A s \in Addrs(ts) : At(s) \in DOMAIN ts /\ ts[At(s)].addr = s
    BY DEF Addrs
  <1>4. \A j \in DOMAIN ts : ts[j].addr \in Addrs(ts) /\ ts[j].addr \in Slots
    BY DEF Addrs, Batch
  <1>5. \A j \in DOMAIN ts : At(ts[j].addr) = j
    BY <1>3, <1>4 DEF Batch
  <1> HIDE DEF At
  <1>6. R \in [Slots -> Columns]
    BY <1>2, <1>3
  <1>7. /\ \A s \in Slots \ Addrs(ts) : R[s] = d.rec[s]
        /\ \A j \in DOMAIN ts : R[ts[j].addr] = ts[j].to
    BY <1>4, <1>5
  <1> HIDE DEF R
  <1>8. /\ e.used = d.used /\ e.rec = R
        /\ e.table = d.table /\ e.node = d.node /\ e.num = d.num
    BY <1>1 DEF DB
  <1>9. e \in DB
    BY <1>1, <1>6 DEF DB
  <1> QED BY <1>7, <1>8, <1>9

\* Records are counted by slot as well as by change.
LEMMA CountIs ==
    ASSUME NEW ts, Batch(ts), NEW rows, rows = [j \in DOMAIN ts |-> rows[j]],
           NEW X, \A j \in DOMAIN ts : X[ts[j].addr] = rows[j], NEW r \in Rows
    PROVE  Count(rows)[r] = Cardinality({s \in Addrs(ts) : X[s] = r})
  <1> DEFINE S == {j \in DOMAIN rows : rows[j] = r}
             T == {s \in Addrs(ts) : X[s] = r}
             f == [j \in S |-> ts[j].addr]
  <1>1. DOMAIN rows = DOMAIN ts
    OBVIOUS
  <1>2. f \in Bijection(S, T)
    <2>1. \A j \in S : f[j] \in T
      BY <1>1 DEF Addrs
    <2>2. \A j, k \in S : f[j] = f[k] => j = k
      BY <1>1 DEF Batch
    <2>3. \A t \in T : \E j \in S : f[j] = t
      BY <1>1 DEF Addrs
    <2>4. f \in [S -> T]
      BY <2>1
    <2> HIDE DEF f, S, T
    <2>5. DOMAIN f = S
      BY <2>4
    <2> QED BY <2>2, <2>3, <2>4, <2>5 DEF Bijection, Injection, Surjection, IsInjective
  <1>3. IsFiniteSet(S)
    <2>1. S \in SUBSET (1..Len(ts)) /\ Len(ts) \in Nat
      BY <1>1 DEF Batch
    <2> DEFINE n == Len(ts)
    <2>3. n \in Int
      BY <2>1
    <2> HIDE DEF n
    <2>4. IsFiniteSet(1..n)
      BY <2>3, FS_Interval
    <2>2. IsFiniteSet(1..Len(ts))
      BY <2>4 DEF n
    <2> HIDE DEF S
    <2> QED BY <2>1, <2>2, FS_Subset
  <1>4. Cardinality(T) = Cardinality(S)
    <2> HIDE DEF f, S, T
    <2>1. ExistsBijection(S, T)
      BY <1>2 DEF ExistsBijection
    <2> QED BY <1>3, <2>1, FS_Bijection
  <1> QED BY <1>4 DEF Count

\* A batch has as many records as changes.
LEMMA BatchSize ==
    ASSUME NEW ts, Batch(ts)
    PROVE  Cardinality(Addrs(ts)) = Len(ts)
  <1> DEFINE S == 1..Len(ts)
             T == Addrs(ts)
             f == [j \in S |-> ts[j].addr]
  <1>1. f \in Bijection(S, T)
    <2>0. DOMAIN ts = S
      BY DEF Batch
    <2>1. \A j \in S : f[j] \in T
      BY <2>0 DEF Addrs
    <2>2. \A j, k \in S : f[j] = f[k] => j = k
      BY <2>0 DEF Batch
    <2>3. \A t \in T : \E j \in S : f[j] = t
      BY <2>0 DEF Addrs
    <2>4. f \in [S -> T]
      BY <2>1
    <2> HIDE DEF f, S, T
    <2>5. DOMAIN f = S
      BY <2>4
    <2> QED BY <2>2, <2>3, <2>4, <2>5 DEF Bijection, Injection, Surjection, IsInjective
  <1>2. Len(ts) \in Nat
    BY DEF Batch
  <1>3. IsFiniteSet(S) /\ Cardinality(S) = Len(ts)
    BY <1>2, FS_Interval, SMTT(30)
  <1> HIDE DEF S, T, f
  <1>4. ExistsBijection(S, T)
    BY <1>1 DEF ExistsBijection
  <1> QED BY <1>3, <1>4, FS_Bijection DEF T

\* The records of a batch are as they were read.
ReadFrom(d, ts) ==
    /\ Batch(ts)
    /\ \A j \in DOMAIN ts : ts[j].addr \in d.used /\ ts[j].from = d.rec[ts[j].addr]

Having(U, X, r) == {s \in U : X[s] = r}

\* Counting records in two parts.
LEMMA Split ==
    ASSUME NEW U \in SUBSET Slots, NEW A \in SUBSET U, NEW X, NEW r
    PROVE  Cardinality(Having(U, X, r)) =
               Cardinality(Having(U \ A, X, r)) + Cardinality(Having(A, X, r))
  <1> DEFINE P == Having(U \ A, X, r)
             Q == Having(A, X, r)
  <1>1. P \in SUBSET Slots /\ Q \in SUBSET Slots /\ P \cap Q = {}
        /\ Having(U, X, r) = P \cup Q
    BY DEF Having
  <1> HIDE DEF P, Q
  <1>2. IsFiniteSet(P) /\ IsFiniteSet(Q) /\ Cardinality(P) \in Nat /\ Cardinality(Q) \in Nat
    BY <1>1, Finite
  <1>3. Cardinality(P \cap Q) = 0
    BY <1>1, FS_EmptySet
  <1>4. Cardinality(P \cup Q) = Cardinality(P) + Cardinality(Q) - Cardinality(P \cap Q)
    BY <1>2, FS_Union
  <1>5. Cardinality(P \cup Q) = Cardinality(P) + Cardinality(Q)
    BY <1>2, <1>3, <1>4
  <1> QED BY <1>1, <1>5 DEF P, Q

\* The records with given contents can be counted, and are told by their
\* contents.
LEMMA Counts ==
    ASSUME NEW r \in Rows
    PROVE  /\ \A d : Tally(d)[r] = Cardinality(Having(d.used, d.rec, r))
           /\ \A U \in SUBSET Slots : \A X : Cardinality(Having(U, X, r)) \in Nat
           /\ \A U, X, Y : (\A s \in U : X[s] = Y[s]) => Having(U, X, r) = Having(U, Y, r)
  <1>1. \A d : Tally(d)[r] = Cardinality(Having(d.used, d.rec, r))
    BY DEF Tally, Having
  <1>2. ASSUME NEW U \in SUBSET Slots, NEW X PROVE Cardinality(Having(U, X, r)) \in Nat
    <2>1. Having(U, X, r) \in SUBSET Slots
      BY DEF Having
    <2> QED BY <2>1, Finite
  <1>3. \A U, X, Y : (\A s \in U : X[s] = Y[s]) => Having(U, X, r) = Having(U, Y, r)
    BY DEF Having
  <1> QED BY <1>1, <1>2, <1>3

\* Counting the changes of a batch is counting its records.
LEMMA BatchCount ==
    ASSUME NEW ts, Batch(ts), NEW rows, rows = [j \in DOMAIN ts |-> rows[j]],
           NEW X, \A j \in DOMAIN ts : X[ts[j].addr] = rows[j], NEW r \in Rows
    PROVE  Count(rows)[r] = Cardinality(Having(Addrs(ts), X, r))
  BY CountIs DEF Having

\* deleteRec leaves the other records.
LEMMA Deleted ==
    ASSUME NEW d, Right(d), NEW ts, ReadFrom(d, ts), NEW e, e = deleteRec(d, ts)
    PROVE  /\ Right(e) /\ e.used = d.used \ Addrs(ts)
           /\ \A s \in e.used : e.rec[s] = d.rec[s]
           /\ \A r \in Rows : Tally(e)[r] = Tally(d)[r] - Count(From(ts))[r]
  <1> DEFINE K == KeysOf(d)
             A == Addrs(ts)
             c == CallAll(d, DeleteCalls(ts)).d
             g == freeTableMem(c, A)
             K2 == Over(K, A, Unentered)
  <1>1. /\ d \in DB /\ d.used \in SUBSET Slots /\ d.num = Cardinality(d.used)
        /\ Holds(d, K) /\ Exact(d, K) /\ K \in [Indexes -> Entered]
        /\ \A s \in d.used : d.rec[s] \in Rows /\ d.rec[s] \in [Indexes -> Keys]
        /\ \A i \in Indexes, s \in Slots :
               K[i][s] = IF s \in d.used THEN d.rec[s][i] ELSE Link
    BY RightFacts
  <1>2. Batch(ts) /\ A \in SUBSET d.used /\ A \in SUBSET Slots /\ Cardinality(A) = Len(ts)
    <2>1. Batch(ts) /\ A \in SUBSET d.used
      BY DEF ReadFrom, Addrs
    <2> QED BY <1>1, <2>1, BatchSize
  <1> HIDE DEF K, A
  <1>3. c \in States(d, K2)
    <2>1. \A j \in DOMAIN ts :
               /\ ts[j].from \in [Indexes -> Keys]
               /\ \A i \in Indexes : K[i][ts[j].addr] = ts[j].from[i]
      BY <1>1 DEF ReadFrom
    <2> QED BY <1>1, <1>2, <2>1, DeleteBatch DEF A
  <1> HIDE DEF c, K2
  <1>4. c \in DB /\ Holds(c, K2) /\ c.rec = d.rec /\ c.used = d.used /\ c.num = d.num
    BY <1>3, StatesFacts
  <1>5. /\ g \in DB /\ g.used = d.used \ A
        /\ g.table = c.table /\ g.node = c.node /\ g.num = d.num
        /\ \A s \in Slots \ A : g.rec[s] = d.rec[s]
    BY <1>4, FreeFacts
  <1> HIDE DEF g
  <1>6. e = [g EXCEPT !.num = g.num - Len(ts)]
    BY DEF deleteRec, g, c, A
  <1>7. Len(ts) \in Nat /\ g.num \in Int
    BY <1>2, <1>5 DEF Batch, DB
  <1>8. /\ e \in DB /\ e.used = d.used \ A /\ e.table = c.table /\ e.node = c.node
        /\ e.num = d.num - Len(ts) /\ e.rec = g.rec
    BY <1>5, <1>6, <1>7 DEF DB
  <1>9. \A s \in e.used : e.rec[s] = d.rec[s]
    BY <1>1, <1>5, <1>8
  <1>10. Holds(e, K2)
    BY <1>4, <1>8, HoldsSame
  <1>11. KeysOf(e) = K2
    <2>1. /\ K2 \in [Indexes -> Entered]
          /\ \A i \in Indexes, t \in Slots :
                 K2[i][t] = IF t \in A THEN Unentered[t][i] ELSE K[i][t]
      BY <1>1, OverFacts, UnenteredFacts DEF K2
    <2>2. \A i \in Indexes, t \in Slots :
              K2[i][t] = IF t \in e.used THEN e.rec[t][i] ELSE Link
      BY <1>1, <1>8, <1>9, <2>1, UnenteredFacts
    <2> QED BY <1>8, <2>1, <2>2, KeysAre
  <1>12. e.num = Cardinality(e.used)
    <2>1. d.used \cap A = A /\ IsFiniteSet(d.used)
      BY <1>1, <1>2, Finite
    <2>2. Cardinality(d.used \ A) = Cardinality(d.used) - Cardinality(d.used \cap A)
      BY <2>1, FS_Difference
    <2> QED BY <1>1, <1>2, <1>8, <2>1, <2>2
  <1>13. Right(e)
    BY <1>1, <1>8, <1>9, <1>10, <1>11, <1>12 DEF Right
  <1>14. ASSUME NEW r \in Rows PROVE Tally(e)[r] = Tally(d)[r] - Count(From(ts))[r]
    <2>1. Count(From(ts))[r] = Cardinality(Having(A, d.rec, r))
      <3> DEFINE rows == From(ts)
      <3>1. rows = [j \in DOMAIN ts |-> rows[j]] /\ \A j \in DOMAIN ts : d.rec[ts[j].addr] = rows[j]
        BY DEF From, ReadFrom
      <3> HIDE DEF rows
      <3>2. Count(rows)[r] = Cardinality(Having(Addrs(ts), d.rec, r))
        BY <1>2, <3>1, BatchCount, SMTT(30)
      <3> QED BY <3>2 DEF rows, A
    <2>3. Having(d.used \ A, d.rec, r) = Having(e.used, e.rec, r)
      BY <1>8, <1>9, Counts
    <2>4. Cardinality(Having(d.used, d.rec, r)) =
              Cardinality(Having(d.used \ A, d.rec, r)) + Cardinality(Having(A, d.rec, r))
      BY <1>1, <1>2, Split
    <2>5. /\ Tally(d)[r] = Cardinality(Having(d.used, d.rec, r))
          /\ Tally(e)[r] = Cardinality(Having(e.used, e.rec, r))
      BY Counts
    <2>6. /\ Cardinality(Having(e.used, e.rec, r)) \in Nat
          /\ Cardinality(Having(A, d.rec, r)) \in Nat
      BY <1>1, <1>2, <1>8, Counts
    <2> QED BY <2>1, <2>3, <2>4, <2>5, <2>6
  <1> QED BY <1>8, <1>9, <1>13, <1>14 DEF A

\* The changes of a batch, the addresses aside.
Changing(ts) ==
    /\ Len(ts) \in Nat /\ DOMAIN ts = 1..Len(ts)
    /\ \A j \in DOMAIN ts :
           ts[j] = [addr |-> ts[j].addr, from |-> ts[j].from, to |-> ts[j].to]

\* The slots that are given are free ones, and different ones.
LEMMA Allocated ==
    ASSUME NEW d, d.used \in SUBSET Slots, NEW ts, Changing(ts),
           ~(Cardinality(Slots \ d.used) < Len(ts)),
           NEW a, a = allocateTableMem(d, ts)
    PROVE  /\ Batch(a) /\ Changing(a) /\ Len(a) = Len(ts) /\ DOMAIN a = DOMAIN ts
           /\ \A j \in DOMAIN ts : a[j].to = ts[j].to /\ a[j].addr \in Slots \ d.used
  <1> DEFINE n == Len(ts)
             F == Slots \ d.used
             c == Cardinality(F)
             Fit(f) == f \in [DOMAIN ts -> F] /\ IsInjective(f)
             addrs == CHOOSE f \in [DOMAIN ts -> F] : IsInjective(f)
  <1>1. n \in Nat /\ DOMAIN ts = 1..n
    BY DEF Changing
  <1>2. IsFiniteSet(F) /\ c \in Nat /\ n <= c
    <2>1. F \in SUBSET Slots
      OBVIOUS
    <2> HIDE DEF F
    <2>2. IsFiniteSet(F) /\ Cardinality(F) \in Nat
      BY <2>1, Finite
    <2>3. ~(c < n)
      BY DEF F
    <2> QED BY <1>1, <2>2, <2>3
  <1>3. \E f \in [DOMAIN ts -> F] : IsInjective(f)
    <2> HIDE DEF F
    <2>1. PICK g : g \in Bijection(1..c, F)
      BY <1>2, FS_CardinalityType DEF ExistsBijection
    <2>2. g \in [1..c -> F] /\ \A x, y \in 1..c : g[x] = g[y] => x = y
      BY <2>1 DEF Bijection, Injection, IsInjective
    <2> DEFINE f == [j \in 1..n |-> g[j]]
    <2>3. 1..n \subseteq 1..c
      BY <1>1, <1>2
    <2>4. f \in [1..n -> F] /\ \A x, y \in 1..n : f[x] = f[y] => x = y
      BY <2>2, <2>3
    <2> HIDE DEF f
    <2>5. IsInjective(f)
      BY <2>4 DEF IsInjective
    <2> QED BY <1>1, <2>4, <2>5
  <1>4. addrs \in [1..n -> F] /\ IsInjective(addrs)
    <2> HIDE DEF F
    <2> QED BY <1>1, <1>3
  <1>5. a = [j \in 1..n |-> [ts[j] EXCEPT !.addr = addrs[j]]]
    BY <1>1 DEF allocateTableMem
  <1> HIDE DEF addrs
  <1>6. ASSUME NEW j \in 1..n
        PROVE  /\ a[j] = [addr |-> addrs[j], from |-> ts[j].from, to |-> ts[j].to]
               /\ a[j].addr = addrs[j] /\ a[j].to = ts[j].to /\ a[j].from = ts[j].from
    <2>1. ts[j] = [addr |-> ts[j].addr, from |-> ts[j].from, to |-> ts[j].to]
      BY <1>1 DEF Changing
    <2>2. a[j] = [ts[j] EXCEPT !.addr = addrs[j]]
      BY <1>5
    <2>3. a[j] = [addr |-> addrs[j], from |-> ts[j].from, to |-> ts[j].to]
      BY <2>1, <2>2
    <2> QED BY <2>3
  <1>7. DOMAIN a = 1..n /\ Len(a) = n
    <2>1. a = [j \in 1..n |-> a[j]]
      BY <1>5
    <2> HIDE DEF n
    <2> QED BY <1>1, <2>1, LenOf
  <1>8. Batch(a)
    <2>1. \A j \in 1..n : a[j].addr \in Slots
      BY <1>4, <1>6
    <2>2. \A j, k \in 1..n : a[j].addr = a[k].addr => j = k
      <3>1. \A j, k \in 1..n : addrs[j] = addrs[k] => j = k
        BY <1>4 DEF IsInjective
      <3>2. \A j \in 1..n : a[j].addr = addrs[j]
        BY <1>6
      <3> QED BY <3>1, <3>2
    <2> QED BY <1>1, <1>7, <2>1, <2>2 DEF Batch
  <1>9. Changing(a)
    BY <1>1, <1>6, <1>7 DEF Changing
  <1> QED BY <1>1, <1>4, <1>6, <1>7, <1>8, <1>9

\* Rows for slots that are free.
RowsFor(d, a) ==
    /\ Batch(a)
    /\ \A j \in DOMAIN a : a[j].to \in Rows /\ a[j].addr \notin d.used

Written(d, a) == write([d EXCEPT !.used = @ \cup Addrs(a)], a)

\* The table with the new records written, and not in an index yet.
LEMMA WrittenFacts ==
    ASSUME NEW d, Right(d), NEW a, RowsFor(d, a), NEW w, w = Written(d, a),
           NEW K, K = KeysOf(d)
    PROVE  /\ w \in DB /\ w.used = d.used \cup Addrs(a) /\ w.num = d.num
           /\ \A s \in Slots \ Addrs(a) : w.rec[s] = d.rec[s]
           /\ \A j \in DOMAIN a : w.rec[a[j].addr] = a[j].to
           /\ Holds(w, K) /\ Exact(w, K) /\ Addrs(a) \cap d.used = {}
           /\ \A j \in DOMAIN a : /\ a[j].to \in [Indexes -> Keys]
                                  /\ \A i \in Indexes : K[i][a[j].addr] = Link
  <1> DEFINE A == Addrs(a)
             v == [d EXCEPT !.used = d.used \cup A]
  <1>1. /\ d \in DB /\ d.used \in SUBSET Slots
        /\ Holds(d, K) /\ Exact(d, K)
        /\ \A i \in Indexes, s \in Slots :
               K[i][s] = IF s \in d.used THEN d.rec[s][i] ELSE Link
        /\ \A i \in Indexes : All(K[i]) = d.used
    BY RightFacts
  <1>2. Batch(a) /\ A \in SUBSET Slots /\ A \cap d.used = {}
    BY BatchFacts DEF RowsFor, Addrs
  <1>3. \A j \in DOMAIN a : a[j].to \in [Indexes -> Keys] /\ a[j].to \in Columns
    BY TableAssumption DEF RowsFor, Columns
  <1> HIDE DEF A
  <1>4. /\ v \in DB /\ v.used = d.used \cup A /\ v.rec = d.rec /\ v.num = d.num
        /\ v.table = d.table /\ v.node = d.node
    BY <1>1, <1>2 DEF DB
  <1> HIDE DEF v
  <1>5. w = write(v, a)
    BY DEF Written, v, A
  <1>6. /\ w \in DB /\ w.used = v.used
        /\ w.table = v.table /\ w.node = v.node /\ w.num = v.num
        /\ \A s \in Slots \ Addrs(a) : w.rec[s] = v.rec[s]
        /\ \A j \in DOMAIN a : w.rec[a[j].addr] = a[j].to
    BY <1>2, <1>3, <1>4, <1>5, WriteFacts
  <1>7. Holds(w, K)
    <2>1. w.table = d.table /\ w.node = d.node
      BY <1>4, <1>6
    <2> QED BY <1>1, <1>6, <2>1, HoldsSame
  <1>8. Exact(w, K)
    <2> SUFFICES ASSUME NEW i \in Indexes, NEW t \in All(K[i])
                 PROVE  w.rec[t][i] = K[i][t]
      BY DEF Exact
    <2>1. t \in Slots \ A /\ d.rec[t][i] = K[i][t]
      BY <1>1, <1>2 DEF Exact
    <2> QED BY <1>4, <1>6, <2>1 DEF A
  <1>9. \A j \in DOMAIN a : a[j].addr \in Slots /\ a[j].addr \notin d.used
    BY <1>2 DEF RowsFor, Batch
  <1>10. \A j \in DOMAIN a : \A i \in Indexes : K[i][a[j].addr] = Link
    BY <1>1, <1>9
  <1> QED BY <1>2, <1>3, <1>4, <1>6, <1>7, <1>8, <1>10 DEF A

\* Indexed enters the written records.
LEMMA IndexedThrough ==
    ASSUME NEW d, Right(d), NEW a, RowsFor(d, a), NEW w, w = Written(d, a),
           NEW K, K = KeysOf(d)
    PROVE  Through(Indexed(d, a), Len(a),
                   [j \in 0..Len(a) |-> States(w, Entering(w, K, a, j))],
                   InsertStops(w, K, a))
  <1>1. /\ Holds(w, K) /\ Exact(w, K) /\ Batch(a)
        /\ \A j \in DOMAIN a : /\ a[j].to \in [Indexes -> Keys] /\ w.rec[a[j].addr] = a[j].to
                               /\ \A i \in Indexes : K[i][a[j].addr] = Link
    BY WrittenFacts DEF RowsFor
  <1>2. Indexed(d, a) = CallAll(w, InsertCalls(a))
    BY DEF Indexed, Written
  <1> QED BY <1>1, <1>2, InsertBatch

\* Records that are entered in all indexes are added to the table.
LEMMA InsertPassed ==
    ASSUME NEW d, Right(d), NEW a, RowsFor(d, a), Indexed(d, a).ok,
           NEW e, e = insertAt(d, a).d
    PROVE  /\ insertAt(d, a).ok /\ insertAt(d, a).ts = a
           /\ Right(e) /\ e.used = d.used \cup Addrs(a)
           /\ \A s \in d.used : e.rec[s] = d.rec[s]
           /\ \A j \in DOMAIN a : e.rec[a[j].addr] = a[j].to
           /\ \A r \in Rows : Tally(e)[r] = Tally(d)[r] + Count(To(a))[r]
  <1> DEFINE K == KeysOf(d)
             A == Addrs(a)
             w == Written(d, a)
             n == Len(a)
             K2 == Over(K, A, w.rec)
             x == Indexed(d, a)
             c == x.d
  <1>0. /\ d \in DB /\ d.used \in SUBSET Slots /\ d.num = Cardinality(d.used)
        /\ K \in [Indexes -> Entered]
        /\ \A s \in d.used : d.rec[s] \in Rows
        /\ \A i \in Indexes, s \in Slots :
               K[i][s] = IF s \in d.used THEN d.rec[s][i] ELSE Link
    BY RightFacts
  <1>1. /\ w \in DB /\ w.used = d.used \cup A /\ w.num = d.num
        /\ \A s \in Slots \ A : w.rec[s] = d.rec[s]
        /\ \A j \in DOMAIN a : w.rec[a[j].addr] = a[j].to
        /\ A \cap d.used = {}
    BY WrittenFacts
  <1>2. Batch(a) /\ A \in SUBSET Slots /\ Cardinality(A) = n /\ A = Firsts(a, n) /\ n \in Nat
        /\ DOMAIN a = 1..n
    BY BatchFacts, BatchSize DEF RowsFor, Batch
  <1> DEFINE Good == [j \in 0..n |-> States(w, Entering(w, K, a, j))]
  <1>3. Through(x, n, Good, InsertStops(w, K, a))
    BY IndexedThrough
  <1> HIDE DEF x, w, K, A
  <1>4. c \in States(w, K2)
    <2>1. c \in Good[n]
      BY <1>3 DEF Through, x
    <2>2. n \in 0..n
      BY <1>2
    <2> HIDE DEF n
    <2> QED BY <1>2, <2>1, <2>2 DEF Entering
  <1> HIDE DEF c, K2
  <1>5. c \in DB /\ Holds(c, K2) /\ c.rec = w.rec /\ c.used = w.used /\ c.num = w.num
    BY <1>4, StatesFacts
  <1>6. /\ insertAt(d, a).ok /\ insertAt(d, a).ts = a
        /\ e = [c EXCEPT !.num = c.num + n]
    <2>1. insertAt(d, a) = [ok |-> TRUE, d |-> [c EXCEPT !.num = c.num + n], ts |-> a]
      BY DEF insertAt, Inserted, x, c
    <2> QED BY <2>1
  <1>7. /\ e \in DB /\ e.used = d.used \cup A /\ e.table = c.table /\ e.node = c.node
        /\ e.num = d.num + n /\ e.rec = w.rec
    <2>1. c.num \in Int /\ n \in Int
      BY <1>2, <1>5 DEF DB
    <2> HIDE DEF n
    <2>2. /\ e.used = c.used /\ e.table = c.table /\ e.node = c.node /\ e.rec = c.rec
          /\ e.num = c.num + n
      BY <1>5, <1>6 DEF DB
    <2>3. e \in DB
      <3>1. c.num + n \in Int
        BY <2>1
      <3> QED BY <1>5, <1>6, <3>1 DEF DB
    <2> QED BY <1>1, <1>5, <2>2, <2>3
  <1>8. /\ \A s \in d.used : e.rec[s] = d.rec[s]
        /\ \A j \in DOMAIN a : e.rec[a[j].addr] = a[j].to
    BY <1>0, <1>1, <1>7
  <1>9. KeysOf(e) = K2
    <2>1. /\ K2 \in [Indexes -> Entered]
          /\ \A i \in Indexes, t \in Slots :
                 K2[i][t] = IF t \in A THEN w.rec[t][i] ELSE K[i][t]
      <3>1. w.rec \in [Slots -> Columns]
        BY <1>1 DEF DB
      <3> DEFINE R == w.rec
      <3>2. R \in [Slots -> Columns] /\ K2 = Over(K, A, R)
        BY <3>1 DEF K2
      <3> HIDE DEF R
      <3>3. /\ K2 \in [Indexes -> Entered]
            /\ \A i \in Indexes, t \in Slots :
                 K2[i][t] = IF t \in A THEN R[t][i] ELSE K[i][t]
        BY <1>0, <3>2, OverFacts
      <3> QED BY <3>3 DEF R
    <2>2. \A i \in Indexes, t \in Slots :
              K2[i][t] = IF t \in e.used THEN e.rec[t][i] ELSE Link
      BY <1>0, <1>1, <1>7, <2>1
    <2> QED BY <1>7, <2>1, <2>2, KeysAre
  <1>10. Holds(e, K2)
    BY <1>5, <1>7, HoldsSame
  <1>11. e.num = Cardinality(e.used)
    <2>1. IsFiniteSet(d.used) /\ IsFiniteSet(A) /\ d.used \cap A = {}
          /\ Cardinality(d.used) \in Nat
      BY <1>0, <1>1, <1>2, Finite
    <2>2. Cardinality(d.used \cup A) = Cardinality(d.used) + Cardinality(A) - Cardinality(d.used \cap A)
      BY <2>1, FS_Union
    <2>3. Cardinality(d.used \cap A) = 0
      BY <2>1, FS_EmptySet
    <2> QED BY <1>0, <1>2, <1>7, <2>1, <2>2, <2>3
  <1>12. \A s \in e.used : e.rec[s] \in Rows
    <2>1. \A s \in A : \E j \in DOMAIN a : s = a[j].addr
      BY DEF A, Addrs
    <2>2. \A j \in DOMAIN a : a[j].to \in Rows
      BY DEF RowsFor
    <2> QED BY <1>0, <1>7, <1>8, <2>1, <2>2
  <1>13. Right(e)
    BY <1>9, <1>10, <1>11, <1>12 DEF Right
  <1>14. ASSUME NEW r \in Rows PROVE Tally(e)[r] = Tally(d)[r] + Count(To(a))[r]
    <2>1. Count(To(a))[r] = Cardinality(Having(A, e.rec, r))
      <3> DEFINE rows == To(a)
      <3>1. rows = [j \in DOMAIN a |-> rows[j]] /\ \A j \in DOMAIN a : e.rec[a[j].addr] = rows[j]
        BY <1>8 DEF To
      <3> HIDE DEF rows
      <3>2. Count(rows)[r] = Cardinality(Having(Addrs(a), e.rec, r))
        BY <1>2, <3>1, BatchCount
      <3> QED BY <3>2 DEF rows, A
    <2>2. e.used \in SUBSET Slots /\ A \in SUBSET e.used /\ e.used \ A = d.used
      BY <1>0, <1>1, <1>2, <1>7
    <2>3. Having(e.used \ A, e.rec, r) = Having(d.used, d.rec, r)
      <3>1. Having(d.used, e.rec, r) = Having(d.used, d.rec, r)
        BY <1>8, Counts
      <3> QED BY <2>2, <3>1
    <2>4. Cardinality(Having(e.used, e.rec, r)) =
              Cardinality(Having(e.used \ A, e.rec, r)) + Cardinality(Having(A, e.rec, r))
      BY <2>2, Split
    <2>5. /\ Tally(d)[r] = Cardinality(Having(d.used, d.rec, r))
          /\ Tally(e)[r] = Cardinality(Having(e.used, e.rec, r))
      BY Counts
    <2> QED BY <2>1, <2>3, <2>4, <2>5
  <1> QED BY <1>6, <1>7, <1>8, <1>13, <1>14 DEF A

\* Refused, they leave nothing behind, if their keys can still be read when the
\* entries are looked for or there are no entries.
LEMMA InsertTakenBack ==
    ASSUME NEW d, Right(d), NEW a, RowsFor(d, a), ~Indexed(d, a).ok,
           Overlaid = {} \/ Len(a) <= 1, NEW e, e = insertAt(d, a).d
    PROVE  /\ ~insertAt(d, a).ok /\ Right(e) /\ e.used = d.used
           /\ \A s \in d.used : e.rec[s] = d.rec[s]
  <1> DEFINE K == KeysOf(d)
             A == Addrs(a)
             w == Written(d, a)
             x == Indexed(d, a)
             n == x.n
             K2 == Entering(w, K, a, n)
             g == freeTableMem(x.d, A)
             back == [j \in 1..n |-> [addr |-> a[n + 1 - j].addr, from |-> a[n + 1 - j].to]]
             Good == [j \in 0..Len(a) |-> States(w, Entering(w, K, a, j))]
  <1>0. /\ d \in DB /\ d.used \in SUBSET Slots /\ d.num = Cardinality(d.used)
        /\ K \in [Indexes -> Entered]
        /\ \A s \in d.used : d.rec[s] \in Rows
        /\ \A i \in Indexes, s \in Slots :
               K[i][s] = IF s \in d.used THEN d.rec[s][i] ELSE Link
    BY RightFacts
  <1>1. /\ w \in DB /\ w.used = d.used \cup A /\ w.num = d.num
        /\ \A s \in Slots \ A : w.rec[s] = d.rec[s]
        /\ \A j \in DOMAIN a : w.rec[a[j].addr] = a[j].to
        /\ A \cap d.used = {} /\ Exact(w, K)
        /\ \A j \in DOMAIN a : /\ a[j].to \in [Indexes -> Keys]
                               /\ \A i \in Indexes : K[i][a[j].addr] = Link
    BY WrittenFacts
  <1>2. /\ Batch(a) /\ A \in SUBSET Slots /\ Len(a) \in Nat /\ DOMAIN a = 1..Len(a)
        /\ \A j \in 0..Len(a) : Firsts(a, j) \subseteq A
    BY BatchFacts DEF RowsFor, Batch
  <1>3. Through(x, Len(a), Good, InsertStops(w, K, a))
    BY IndexedThrough
  <1> HIDE DEF x, w, K, A
  <1>4. n \in 0..(Len(a) - 1) /\ x.d \in Good[n]
    BY <1>3 DEF Through, x
  <1>5. n \in Nat /\ n \in 0..Len(a) /\ n < Len(a) /\ (n = 0 \/ Overlaid = {})
    BY <1>2, <1>4
  <1>6. x.d \in States(w, K2)
    BY <1>4, <1>5
  <1>7. x.d \in DB /\ Holds(x.d, K2) /\ x.d.rec = w.rec /\ x.d.used = w.used /\ x.d.num = w.num
    BY <1>6, StatesFacts
  <1>8. /\ g \in DB /\ g.used = d.used /\ g.num = d.num
        /\ g.table = x.d.table /\ g.node = x.d.node
        /\ \A s \in d.used : g.rec[s] = d.rec[s]
        /\ Overlaid = {} => g.rec = w.rec
    <2>1. /\ g \in DB /\ g.used = x.d.used \ A
          /\ g.table = x.d.table /\ g.node = x.d.node /\ g.num = x.d.num
          /\ \A s \in Slots \ A : g.rec[s] = x.d.rec[s]
          /\ Overlaid = {} => g.rec = x.d.rec
      <3> DEFINE y == x.d
      <3> HIDE DEF y
      <3>1. y \in DB /\ y = x.d
        BY <1>7 DEF y
      <3> QED BY <3>1, FreeFacts
    <2>2. g.used = d.used
      BY <1>1, <1>7, <2>1
    <2>3. \A s \in d.used : s \in Slots \ A
      BY <1>0, <1>1
    <2> QED BY <1>1, <1>7, <2>1, <2>2, <2>3
  <1> HIDE DEF g
  <1>9. Holds(g, K2)
    BY <1>7, <1>8, HoldsSame
  <1> DEFINE F == Firsts(a, n)
             R == w.rec
  <1>10. /\ K2 \in [Indexes -> Entered] /\ R \in [Slots -> Columns]
         /\ \A i \in Indexes, t \in Slots :
                K2[i][t] = IF t \in F THEN R[t][i] ELSE K[i][t]
    <2>1. R \in [Slots -> Columns] /\ K2 = Over(K, F, R)
      BY <1>1 DEF DB, Entering
    <2> HIDE DEF K2, R, F
    <2> QED BY <1>0, <2>1, OverFacts
  <1>11. ASSUME NEW j \in 1..n
         PROVE  n + 1 - j \in 1..n /\ n + 1 - j \in DOMAIN a
    BY <1>2, <1>5
  <1>12. /\ Batch(back) /\ Len(back) = n /\ DOMAIN back = 1..n /\ Addrs(back) = F
         /\ \A j \in 1..n : /\ back[j].addr = a[n + 1 - j].addr
                            /\ back[j].from = a[n + 1 - j].to
    <2> HIDE DEF n
    <2>1. back = [j \in 1..n |-> back[j]]
      OBVIOUS
    <2>2. \A j \in 1..n : back[j].addr = a[n + 1 - j].addr /\ back[j].from = a[n + 1 - j].to
      OBVIOUS
    <2> HIDE DEF back
    <2>3. Len(back) = n /\ DOMAIN back = 1..n
      BY <1>5, <2>1, LenOf
    <2>4. \A j \in 1..n : back[j].addr \in Slots
      BY <1>2, <1>11, <2>2 DEF Batch
    <2>5. ASSUME NEW j \in 1..n, NEW k \in 1..n, back[j].addr = back[k].addr PROVE j = k
      <3> DEFINE p == n + 1 - j
                 q == n + 1 - k
      <3>2. p \in DOMAIN a /\ q \in DOMAIN a /\ a[p].addr = a[q].addr
        BY <1>11, <2>2, <2>5
      <3> HIDE DEF p, q
      <3>3. p = q
        BY <1>2, <3>2 DEF Batch
      <3>1. n + 1 - j = n + 1 - k
        BY <3>3 DEF p, q
      <3> QED BY <1>5, <3>1
    <2>6. Addrs(back) = F
      <3>1. ASSUME NEW t \in Addrs(back) PROVE t \in F
        <4>1. PICK j \in 1..n : t = back[j].addr
          BY <2>3 DEF Addrs
        <4> QED BY <1>11, <2>2, <4>1 DEF Firsts
      <3>2. ASSUME NEW t \in F PROVE t \in Addrs(back)
        <4>1. PICK k \in 1..n : t = a[k].addr
          BY DEF Firsts
        <4>2. n + 1 - k \in 1..n /\ n + 1 - (n + 1 - k) = k
          BY <1>5
        <4>3. back[n + 1 - k].addr = t
          BY <2>2, <4>1, <4>2
        <4> QED BY <2>3, <4>2, <4>3 DEF Addrs
      <3> QED BY <3>1, <3>2
    <2> QED BY <1>5, <2>2, <2>3, <2>4, <2>5, <2>6 DEF Batch
  <1>13. DeleteCalls(back) = UninsertCalls(a, n)
    BY <1>12 DEF DeleteCalls, UninsertCalls
  <1>14. e = CallAll(g, DeleteCalls(back)).d /\ ~insertAt(d, a).ok
    <2> HIDE DEF back
    <2>1. insertAt(d, a) = Thrown(CallAll(g, UninsertCalls(a, n)).d)
      BY DEF insertAt, Inserted, x, g, A
    <2> QED BY <1>13, <2>1 DEF Thrown
  <1> HIDE DEF back, K2, F, n
  <1>15. F \subseteq A /\ n = 0 => F = {}
    BY <1>2, <1>5, FirstsFacts DEF F
  <1>16. e \in States(g, K)
    <2>1. CASE n = 0
      <3>1. K2 = K
        <4>1. F = {}
          BY <1>5, <2>1, FirstsFacts DEF F
        <4>2. \A i \in Indexes, t \in Slots : K2[i][t] = K[i][t]
          BY <1>10, <4>1
        <4> QED BY <1>0, <1>10, <4>2, SameKeys
      <3> DEFINE calls == DeleteCalls(back)
      <3>2. Len(calls) = 0
        <4>1. calls = [j \in 1..0 |-> calls[j]]
          BY <1>12, <2>1 DEF DeleteCalls
        <4> HIDE DEF calls
        <4> QED BY <4>1, LenOf
      <3> HIDE DEF calls
      <3>3. CallAll(g, calls) = Start(g)
        <4>1. CallRun(g, calls)[0] = CallStep(CallRun(g, calls), g, calls, 0)
          BY <3>2, CallSteps
        <4> QED BY <3>2, <4>1, CallAllIs DEF CallStep
      <3>4. e = g
        BY <1>14, <3>3 DEF Start, calls
      <3> QED BY <1>9, <3>1, <3>4, StartsIn
    <2>2. CASE n # 0
      <3>0. Overlaid = {} /\ g.rec = R
        BY <1>5, <1>8, <2>2
      <3>1. Exact(g, K2)
        <4> SUFFICES ASSUME NEW i \in Indexes, NEW t \in All(K2[i])
                     PROVE  g.rec[t][i] = K2[i][t]
          BY DEF Exact
        <4>1. t \in Slots /\ K2[i][t] # Link
          BY DEF All
        <4>2. CASE t \in F
          BY <1>10, <3>0, <4>1, <4>2
        <4>3. CASE t \notin F
          <5>1. K2[i][t] = K[i][t] /\ t \in All(K[i])
            BY <1>10, <4>1, <4>3 DEF All
          <5> QED BY <1>1, <3>0, <5>1 DEF Exact
        <4> QED BY <4>2, <4>3
      <3>2. ASSUME NEW j \in DOMAIN back
            PROVE  /\ back[j].from \in [Indexes -> Keys]
                   /\ \A i \in Indexes : K2[i][back[j].addr] = back[j].from[i]
        <4>1. j \in 1..n
          BY <1>12
        <4>2. /\ back[j].from = a[n + 1 - j].to /\ back[j].addr = a[n + 1 - j].addr
              /\ n + 1 - j \in DOMAIN a
          BY <1>11, <1>12, <4>1
        <4>3. back[j].addr \in F
          BY <1>12 DEF Addrs
        <4>4. back[j].addr \in Slots
          BY <1>12 DEF Batch
        <4> QED BY <1>1, <1>10, <4>2, <4>3, <4>4
      <3>3. e \in States(g, Over(K2, F, Unentered))
        BY <1>9, <1>12, <1>14, <3>1, <3>2, DeleteBatch
      <3>4. Over(K2, F, Unentered) = K
        <4> DEFINE B == Over(K2, F, Unentered)
        <4>1. /\ B \in [Indexes -> Entered]
              /\ \A i \in Indexes, t \in Slots :
                     B[i][t] = IF t \in F THEN Unentered[t][i] ELSE K2[i][t]
          BY <1>10, UnenteredFacts, OverFacts
        <4> HIDE DEF B
        <4>2. \A i \in Indexes, t \in F : K[i][t] = Link
          <5>1. 1..n \subseteq DOMAIN a
            BY <1>2, <1>5
          <5> QED BY <1>1, <5>1 DEF F, Firsts
        <4>3. \A i \in Indexes, t \in Slots : B[i][t] = K[i][t]
          BY <1>10, <4>1, <4>2, UnenteredFacts
        <4> QED BY <1>0, <4>1, <4>3, SameKeys DEF B
      <3> QED BY <3>3, <3>4
    <2> QED BY <2>1, <2>2
  <1>17. e \in DB /\ Holds(e, K) /\ e.rec = g.rec /\ e.used = d.used /\ e.num = d.num
    BY <1>8, <1>16, StatesFacts
  <1>18. \A s \in d.used : e.rec[s] = d.rec[s]
    BY <1>8, <1>17
  <1>19. KeysOf(e) = K
    <2>1. \A i \in Indexes, t \in Slots :
              K[i][t] = IF t \in e.used THEN e.rec[t][i] ELSE Link
      BY <1>0, <1>17, <1>18
    <2> QED BY <1>0, <1>17, <2>1, KeysAre
  <1>20. Right(e)
    BY <1>0, <1>17, <1>18, <1>19 DEF Right
  <1> QED BY <1>14, <1>17, <1>18, <1>20

\* d is what is left of c without the records of a batch.
LeftOf(c, ts, d) ==
    /\ Right(c) /\ ReadFrom(c, ts) /\ Right(d)
    /\ d.used = c.used \ Addrs(ts) /\ \A s \in d.used : d.rec[s] = c.rec[s]

\* Where records were deleted there is room for them.
LEMMA LeftSizes ==
    ASSUME NEW c, NEW ts, NEW d, LeftOf(c, ts, d)
    PROVE  /\ Addrs(ts) \in SUBSET c.used /\ c.used \in SUBSET Slots
           /\ Cardinality(Addrs(ts)) = Len(ts) /\ Len(ts) \in Nat /\ DOMAIN ts = 1..Len(ts)
           /\ Cardinality(d.used) \in Nat
           /\ Cardinality(c.used) = Cardinality(d.used) + Len(ts)
  <1> DEFINE A == Addrs(ts)
  <1>1. c.used \in SUBSET Slots
    BY RightFacts DEF LeftOf
  <1>2. Batch(ts) /\ A \in SUBSET c.used
    BY DEF LeftOf, ReadFrom, Addrs
  <1>3. Cardinality(A) = Len(ts) /\ Len(ts) \in Nat /\ DOMAIN ts = 1..Len(ts)
    BY <1>2, BatchSize DEF Batch
  <1> HIDE DEF A
  <1>4. IsFiniteSet(c.used) /\ Cardinality(c.used) \in Nat /\ c.used \cap A = A
    BY <1>1, <1>2, Finite
  <1>5. Cardinality(c.used \ A) = Cardinality(c.used) - Cardinality(c.used \cap A)
    BY <1>4, FS_Difference
  <1>6. d.used = c.used \ A /\ d.used \in SUBSET Slots
    BY <1>1 DEF LeftOf, A
  <1>7. Cardinality(d.used) \in Nat
    BY <1>6, Finite
  <1>8. Cardinality(c.used) = Cardinality(d.used) + Len(ts)
    <2>1. Cardinality(c.used \cap A) = Len(ts)
      BY <1>3, <1>4
    <2>2. Cardinality(d.used) = Cardinality(c.used) - Len(ts)
      BY <1>5, <1>6, <2>1
    <2>3. Len(ts) \in Int /\ Cardinality(c.used) \in Int
      BY <1>3, <1>4
    <2> QED BY <2>2, <2>3
  <1> QED BY <1>1, <1>2, <1>3, <1>7, <1>8 DEF A

\* Records that were taken out of a table can be entered again: there are the
\* nodes, and no other record has their unique keys.
LEMMA EnteredAgain ==
    ASSUME NEW c, NEW ts, NEW d, LeftOf(c, ts, d), NEW a, RowsFor(d, a),
           Len(a) = Len(ts), \A j \in DOMAIN a : a[j].to = ts[j].from
    PROVE  Indexed(d, a).ok
  <1> DEFINE K == KeysOf(d)
             K0 == KeysOf(c)
             w == Written(d, a)
             n == Len(a)
             A == Addrs(a)
             Good == [j \in 0..n |-> States(w, Entering(w, K, a, j))]
             Stop == InsertStops(w, K, a)
             x == Indexed(d, a)
  <1>0. Right(c) /\ Right(d) /\ ReadFrom(c, ts)
    BY DEF LeftOf
  <1>1. Through(x, n, Good, Stop)
    BY <1>0, IndexedThrough
  <1> SUFFICES ASSUME ~x.ok PROVE FALSE
    OBVIOUS
  <1>2. x.n + 1 \in Stop
    <2> HIDE DEF x, Good, Stop
    <2> QED BY <1>1 DEF Through
  <1>3. PICK j \in 1..n : \E i \in Indexes :
            Refuses(i, Entering(w, K, a, j - 1)[i], a[j].to[i])
    BY <1>2 DEF InsertStops
  <1>4. PICK i \in Indexes : Refuses(i, Entering(w, K, a, j - 1)[i], a[j].to[i])
    BY <1>3
  <1> DEFINE F == Firsts(a, j - 1)
             f == Entering(w, K, a, j - 1)[i]
             k == a[j].to[i]
  <1>5. /\ K \in [Indexes -> Entered] /\ d.used \in SUBSET Slots
        /\ \A s \in Slots : K[i][s] = IF s \in d.used THEN d.rec[s][i] ELSE Link
    BY <1>0, RightFacts
  <1>6. /\ w \in DB /\ \A b \in DOMAIN a : w.rec[a[b].addr] = a[b].to
        /\ A \cap d.used = {}
    BY <1>0, WrittenFacts
  <1>7. /\ c.used \in SUBSET Slots /\ Holds(c, K0) /\ All(K0[i]) = c.used
        /\ \A s \in c.used : c.rec[s] \in [Indexes -> Keys]
        /\ \A s \in c.used : K0[i][s] = c.rec[s][i]
    BY <1>0, RightFacts
  <1>8. /\ n \in Nat /\ DOMAIN a = 1..n /\ DOMAIN ts = 1..n /\ Batch(a) /\ Batch(ts)
        /\ Cardinality(A) = n /\ A \in SUBSET Slots
    BY <1>0, BatchFacts, BatchSize DEF RowsFor, ReadFrom, Batch
  <1>9. /\ F \in SUBSET A /\ a[j].addr \in A /\ a[j].addr \notin F
    BY <1>8, BatchFacts
  <1> HIDE DEF w, K, K0
  <1>10. \A t \in Slots : f[t] = IF t \in F THEN w.rec[t][i] ELSE K[i][t]
    <2> DEFINE R == w.rec
    <2>1. R \in [Slots -> Columns] /\ Entering(w, K, a, j - 1) = Over(K, F, R)
      BY <1>6 DEF DB, Entering
    <2> HIDE DEF R, F
    <2>2. \A t \in Slots : Over(K, F, R)[i][t] = IF t \in F THEN R[t][i] ELSE K[i][t]
      BY <1>5, <2>1, OverFacts
    <2> QED BY <2>1, <2>2 DEF R
  <1>11. /\ ts[j].addr \in c.used /\ c.rec[ts[j].addr][i] = k
         /\ \A b \in 1..n : ts[b].addr \in c.used /\ c.rec[ts[b].addr] = a[b].to
    <2>1. \A b \in 1..n : ts[b].addr \in c.used /\ c.rec[ts[b].addr] = a[b].to
      BY <1>0, <1>8 DEF ReadFrom
    <2> QED BY <2>1
  <1>12. k \in Keys
    BY <1>7, <1>11
  <1>13. d.used = c.used \ Addrs(ts) /\ \A s \in d.used : d.rec[s] = c.rec[s]
    BY DEF LeftOf
  <1> HIDE DEF f, F, A
  <1>14. ASSUME i \in Unique, With(f, k) # {} PROVE FALSE
    <2>1. \A s, t \in c.used : c.rec[s][i] = c.rec[t][i] => s = t
      <3>1. \A s, t \in All(K0[i]) : K0[i][s] = K0[i][t] => s = t
        BY <1>7, <1>14 DEF Holds, IndexRight
      <3> QED BY <1>7, <3>1
    <2>2. PICK t \in Slots : f[t] = k
      BY <1>14 DEF With
    <2>3. CASE t \in F
      <3>1. PICK b \in 1..(j - 1) : t = a[b].addr
        BY <2>3 DEF F, Firsts
      <3>2. b \in 1..n /\ b # j
        BY <1>8
      <3>3. c.rec[ts[b].addr][i] = k
        BY <1>6, <1>8, <1>10, <1>11, <2>2, <2>3, <3>1, <3>2
      <3>4. ts[b].addr = ts[j].addr
        BY <1>11, <2>1, <3>2, <3>3
      <3> QED BY <1>8, <3>2, <3>4 DEF Batch
    <2>4. CASE t \notin F
      <3>1. t \in d.used /\ d.rec[t][i] = k
        BY <1>5, <1>10, <1>12, <2>2, <2>4, TableAssumption
      <3>2. t \in c.used /\ c.rec[t][i] = k /\ t \notin Addrs(ts)
        BY <1>13, <3>1
      <3>3. t = ts[j].addr
        BY <1>11, <2>1, <3>2
      <3> QED BY <1>8, <3>2, <3>3 DEF Addrs
    <2> QED BY <2>3, <2>4
  <1>15. Cardinality(All(f)) # NodeNum[i]
    <2>1. /\ c.node[i] \in Nat /\ c.node[i] + Cardinality(c.used) = NodeNum[i]
      BY <1>7, <1>12, PlaceOf
    <2>2. Cardinality(c.used) = Cardinality(d.used) + n /\ Cardinality(d.used) \in Nat
      BY LeftSizes
    <2>3. F \in SUBSET (A \ {a[j].addr})
      BY <1>9
    <2>4. IsFiniteSet(A) /\ IsFiniteSet(d.used) /\ IsFiniteSet(F) /\ Cardinality(F) \in Nat
      BY <1>5, <1>8, <1>9, Finite
    <2>5. IsFiniteSet(A \ {a[j].addr}) /\ Cardinality(A \ {a[j].addr}) = n - 1
      <3> DEFINE z == a[j].addr
      <3>1. z \in A
        BY <1>9
      <3> HIDE DEF z
      <3>2. IsFiniteSet(A \ {z}) /\ Cardinality(A \ {z}) = Cardinality(A) - 1
        BY <2>4, <3>1, FS_RemoveElement
      <3> QED BY <1>8, <3>2 DEF z
    <2>6. Cardinality(F) <= n - 1
      BY <2>3, <2>5, FS_Subset
    <2>7. All(f) \in SUBSET (d.used \cup F)
      BY <1>5, <1>10 DEF All
    <2>8. /\ IsFiniteSet(d.used \cup F)
          /\ Cardinality(d.used \cup F) =
                 Cardinality(d.used) + Cardinality(F) - Cardinality(d.used \cap F)
      BY <2>4, FS_Union
    <2>9. Cardinality(d.used \cap F) = 0
      <3>1. d.used \cap F = {}
        BY <1>6, <1>9
      <3> QED BY <3>1, FS_EmptySet
    <2>10. Cardinality(All(f)) <= Cardinality(d.used \cup F) /\ Cardinality(All(f)) \in Nat
      BY <2>7, <2>8, FS_Subset, FS_CardinalityType
    <2> QED BY <1>8, <2>1, <2>2, <2>4, <2>6, <2>8, <2>9, <2>10
  <1> QED BY <1>4, <1>14, <1>15 DEF Refuses, f

-----------------------------------------------------------------------------

\* insert adds all records.
LEMMA InsertAdds ==
    ASSUME NEW d, Right(d), NEW ts, Changing(ts), \A j \in DOMAIN ts : ts[j].to \in Rows,
           NEW x, x = insert(d, ts), x.ok
    PROVE  /\ Right(x.d) /\ Changing(x.ts) /\ Batch(x.ts) /\ To(x.ts) = To(ts)
           /\ x.d.used = d.used \cup Addrs(x.ts) /\ Addrs(x.ts) \cap d.used = {}
           /\ \A s \in d.used : x.d.rec[s] = d.rec[s]
           /\ \A j \in DOMAIN x.ts : /\ x.ts[j].to \in Rows
                                     /\ x.d.rec[x.ts[j].addr] = x.ts[j].to
           /\ \A r \in Rows : Tally(x.d)[r] = Tally(d)[r] + Count(To(ts))[r]
  <1> DEFINE a == allocateTableMem(d, ts)
             e == insertAt(d, a).d
  <1>1. d.used \in SUBSET Slots
    BY RightFacts
  <1>2. ~(Cardinality(Slots \ d.used) < Len(ts)) /\ x = insertAt(d, a)
    BY DEF insert, Thrown
  <1>3. /\ Batch(a) /\ Changing(a) /\ DOMAIN a = DOMAIN ts
        /\ \A j \in DOMAIN ts : a[j].to = ts[j].to /\ a[j].addr \in Slots \ d.used
    BY <1>1, <1>2, Allocated
  <1> HIDE DEF a
  <1>4. RowsFor(d, a)
    BY <1>3 DEF RowsFor
  <1>5. Indexed(d, a).ok
    BY <1>2 DEF insertAt, Inserted, Thrown
  <1>6. /\ insertAt(d, a).ts = a
        /\ Right(e) /\ e.used = d.used \cup Addrs(a)
        /\ \A s \in d.used : e.rec[s] = d.rec[s]
        /\ \A j \in DOMAIN a : e.rec[a[j].addr] = a[j].to
        /\ \A r \in Rows : Tally(e)[r] = Tally(d)[r] + Count(To(a))[r]
    BY <1>4, <1>5, InsertPassed
  <1>7. To(a) = To(ts)
    BY <1>3 DEF To
  <1>8. Addrs(a) \cap d.used = {}
    BY <1>3 DEF Addrs
  <1>9. x.ts = a /\ x.d = e
    BY <1>2, <1>6
  <1> HIDE DEF e
  <1> QED BY <1>3, <1>6, <1>7, <1>8, <1>9

\* Refused, it changes nothing.
LEMMA InsertKeeps ==
    ASSUME NEW d, Right(d), NEW ts, Changing(ts), \A j \in DOMAIN ts : ts[j].to \in Rows,
           NEW x, x = insert(d, ts), ~x.ok, Overlaid = {} \/ Len(ts) <= 1
    PROVE  /\ Right(x.d) /\ x.d.used = d.used
           /\ \A s \in d.used : x.d.rec[s] = d.rec[s]
  <1> DEFINE a == allocateTableMem(d, ts)
             e == insertAt(d, a).d
  <1>1. d.used \in SUBSET Slots
    BY RightFacts
  <1>2. CASE Cardinality(Slots \ d.used) < Len(ts)
    <2>1. x.d = d
      BY <1>2 DEF insert, Thrown
    <2> QED BY <2>1
  <1>3. CASE ~(Cardinality(Slots \ d.used) < Len(ts))
    <2>1. x = insertAt(d, a)
      BY <1>3 DEF insert
    <2>2. /\ Batch(a) /\ DOMAIN a = DOMAIN ts /\ Len(a) = Len(ts)
          /\ \A j \in DOMAIN ts : a[j].to = ts[j].to /\ a[j].addr \in Slots \ d.used
      BY <1>1, <1>3, Allocated
    <2> HIDE DEF a
    <2>3. RowsFor(d, a)
      BY <2>2 DEF RowsFor
    <2>4. ~Indexed(d, a).ok
      BY <2>1 DEF insertAt, Inserted
    <2>5. Right(e) /\ e.used = d.used /\ \A s \in d.used : e.rec[s] = d.rec[s]
      BY <2>2, <2>3, <2>4, InsertTakenBack
    <2> QED BY <2>1, <2>5
  <1> QED BY <1>2, <1>3

\* Deleted records can be inserted again.
LEMMA InsertsAgain ==
    ASSUME NEW c, NEW ts, NEW d, LeftOf(c, ts, d), NEW q, Changing(q),
           Len(q) = Len(ts), \A j \in DOMAIN q : q[j].to = ts[j].from
    PROVE  insert(d, q).ok
  <1> DEFINE a == allocateTableMem(d, q)
  <1>1. Right(c) /\ Right(d) /\ ReadFrom(c, ts) /\ d.used = c.used \ Addrs(ts)
    BY DEF LeftOf
  <1>2. d.used \in SUBSET Slots /\ \A s \in c.used : c.rec[s] \in Rows
    BY <1>1, RightFacts
  <1>3. ~(Cardinality(Slots \ d.used) < Len(q))
    <2>1. /\ Addrs(ts) \in SUBSET (Slots \ d.used)
          /\ Cardinality(Addrs(ts)) = Len(q) /\ Len(q) \in Nat
      BY <1>1, LeftSizes
    <2>2. Slots \ d.used \in SUBSET Slots
      OBVIOUS
    <2>3. IsFiniteSet(Slots \ d.used) /\ Cardinality(Slots \ d.used) \in Nat
      BY <2>2, Finite
    <2>4. Cardinality(Addrs(ts)) <= Cardinality(Slots \ d.used)
      BY <2>1, <2>3, FS_Subset
    <2> QED BY <2>1, <2>3, <2>4
  <1>4. /\ Batch(a) /\ DOMAIN a = DOMAIN q /\ Len(a) = Len(q)
        /\ \A j \in DOMAIN q : a[j].to = q[j].to /\ a[j].addr \in Slots \ d.used
    BY <1>2, <1>3, Allocated
  <1> HIDE DEF a
  <1>5. \A j \in DOMAIN a : a[j].to = ts[j].from /\ j \in DOMAIN ts
    BY <1>1, <1>4 DEF ReadFrom, Batch
  <1>6. RowsFor(d, a)
    BY <1>1, <1>2, <1>4, <1>5 DEF RowsFor, ReadFrom
  <1>7. Indexed(d, a).ok
    BY <1>4, <1>5, <1>6, EnteredAgain
  <1>8. insert(d, q) = insertAt(d, a)
    BY <1>3 DEF insert, a
  <1> QED BY <1>7, <1>8 DEF insertAt, Inserted

\* Nothing to do.
LEMMA NoCalls ==
    ASSUME NEW g, NEW calls, calls = [j \in 1..0 |-> calls[j]]
    PROVE  CallAll(g, calls).d = g
  <1>1. Len(calls) = 0
    BY LenOf
  <1>2. CallRun(g, calls)[0] = CallStep(CallRun(g, calls), g, calls, 0)
    BY <1>1, CallSteps
  <1>3. CallAll(g, calls) = Start(g)
    BY <1>1, <1>2, CallAllIs DEF CallStep
  <1> QED BY <1>3 DEF Start

\* Updates to rows.
RowUpdates(d, ts) ==
    ReadFrom(d, ts) /\ Apart(ts) /\ \A j \in DOMAIN ts : ts[j].to \in Rows

\* A batch of sound updates finds and moves entries.
LEMMA AreUpdates ==
    ASSUME NEW d, Right(d), NEW ts, RowUpdates(d, ts), NEW K, K = KeysOf(d)
    PROVE  UpdatesOf(d, K, ts)
  <1>1. /\ Holds(d, K) /\ Exact(d, K) /\ d.used \in SUBSET Slots
        /\ \A s \in d.used : d.rec[s] \in [Indexes -> Keys]
        /\ \A i \in Indexes, s \in Slots :
               K[i][s] = IF s \in d.used THEN d.rec[s][i] ELSE Link
    BY RightFacts
  <1>2. Batch(ts) /\ Apart(ts)
    BY DEF RowUpdates, ReadFrom
  <1>3. ASSUME NEW j \in DOMAIN ts
        PROVE  /\ ts[j].from \in [Indexes -> Keys] /\ ts[j].to \in [Indexes -> Keys]
               /\ d.rec[ts[j].addr] = ts[j].from
               /\ \A i \in Indexes : K[i][ts[j].addr] = ts[j].from[i]
    <2>1. ts[j].addr \in d.used /\ ts[j].from = d.rec[ts[j].addr] /\ ts[j].to \in Rows
      BY DEF RowUpdates, ReadFrom
    <2> QED BY <1>1, <2>1, TableAssumption
  <1> QED BY <1>1, <1>2, <1>3 DEF UpdatesOf

\* update writes all records.
LEMMA UpdateMoves ==
    ASSUME NEW d, Right(d), NEW ts, RowUpdates(d, ts), NEW x, x = update(d, ts), x.ok
    PROVE  /\ Right(x.d)
           /\ \A r \in Rows :
                  Tally(x.d)[r] = Tally(d)[r] + Count(To(ts))[r] - Count(From(ts))[r]
  <1> DEFINE K == KeysOf(d)
             A == Addrs(ts)
             c == CallAll(d, UpdateCalls(ts))
             R == write(d, ts).rec
             K2 == Over(K, A, R)
             e == x.d
  <1>1. /\ d \in DB /\ d.used \in SUBSET Slots /\ d.num = Cardinality(d.used)
        /\ K \in [Indexes -> Entered]
        /\ \A s \in d.used : d.rec[s] \in Rows
        /\ \A i \in Indexes, s \in Slots :
               K[i][s] = IF s \in d.used THEN d.rec[s][i] ELSE Link
    BY RightFacts
  <1>2. /\ Batch(ts) /\ A \in SUBSET d.used
        /\ \A j \in DOMAIN ts : ts[j].to \in Rows /\ ts[j].from = d.rec[ts[j].addr]
        /\ \A j \in DOMAIN ts : ts[j].to \in Columns
    BY TableAssumption DEF RowUpdates, ReadFrom, Addrs, Columns
  <1>3. /\ R \in [Slots -> Columns] /\ \A s \in Slots \ A : R[s] = d.rec[s]
        /\ \A j \in DOMAIN ts : R[ts[j].addr] = ts[j].to
    <2> DEFINE v == write(d, ts)
    <2>1. /\ v \in DB /\ \A s \in Slots \ Addrs(ts) : v.rec[s] = d.rec[s]
          /\ \A j \in DOMAIN ts : v.rec[ts[j].addr] = ts[j].to
      BY <1>1, <1>2, WriteFacts
    <2> HIDE DEF v
    <2>2. v.rec \in [Slots -> Columns]
      BY <2>1 DEF DB
    <2> QED BY <2>1, <2>2 DEF v
  <1> HIDE DEF R
  <1>4. c.ok /\ e = write(c.d, ts)
    BY DEF update, Updated, Done, Thrown
  <1>5. c.d \in States(d, K2)
    <2>1. UpdatesOf(d, K, ts)
      BY AreUpdates
    <2> HIDE DEF K
    <2> QED BY <1>3, <1>4, <2>1, UpdateBatch
  <1> DEFINE g == c.d
  <1> HIDE DEF K, K2, c
  <1>6. g \in DB /\ Holds(g, K2) /\ g.rec = d.rec /\ g.used = d.used /\ g.num = d.num
    BY <1>5, StatesFacts
  <1> HIDE DEF g, e
  <1>7. /\ e \in DB /\ e.used = d.used /\ e.num = d.num
        /\ e.table = g.table /\ e.node = g.node
        /\ \A s \in Slots \ A : e.rec[s] = d.rec[s]
        /\ \A j \in DOMAIN ts : e.rec[ts[j].addr] = ts[j].to
    <2>1. e = write(g, ts)
      BY <1>4 DEF g, e
    <2>2. /\ e \in DB /\ e.used = g.used
          /\ e.table = g.table /\ e.node = g.node /\ e.num = g.num
          /\ \A s \in Slots \ Addrs(ts) : e.rec[s] = g.rec[s]
          /\ \A j \in DOMAIN ts : e.rec[ts[j].addr] = ts[j].to
      BY <1>2, <1>6, <2>1, WriteFacts
    <2> QED BY <1>6, <2>2
  <1>8. \A s \in A : \E j \in DOMAIN ts : s = ts[j].addr
    BY DEF Addrs
  <1> HIDE DEF A
  <1>9. \A s \in Slots : e.rec[s] = R[s]
    BY <1>3, <1>7, <1>8
  <1>10. KeysOf(e) = K2
    <2>1. /\ K2 \in [Indexes -> Entered]
          /\ \A i \in Indexes, t \in Slots :
                 K2[i][t] = IF t \in A THEN R[t][i] ELSE K[i][t]
      BY <1>1, <1>3, OverFacts DEF K2
    <2>2. ASSUME NEW i \in Indexes, NEW t \in Slots
          PROVE  K2[i][t] = IF t \in e.used THEN e.rec[t][i] ELSE Link
      <3>1. CASE t \in A
        BY <1>2, <1>7, <1>9, <2>1, <3>1
      <3>2. CASE t \notin A
        BY <1>1, <1>7, <2>1, <3>2
      <3> QED BY <3>1, <3>2
    <2> QED BY <1>7, <2>1, <2>2, KeysAre
  <1>11. Holds(e, K2)
    BY <1>6, <1>7, HoldsSame
  <1>12. \A s \in e.used : e.rec[s] \in Rows
    BY <1>1, <1>2, <1>7, <1>8
  <1>13. Right(e)
    BY <1>1, <1>7, <1>10, <1>11, <1>12 DEF Right
  <1>14. ASSUME NEW r \in Rows
         PROVE  Tally(e)[r] = Tally(d)[r] + Count(To(ts))[r] - Count(From(ts))[r]
    <2>1. Count(From(ts))[r] = Cardinality(Having(A, d.rec, r))
      <3> DEFINE rows == From(ts)
      <3>1. rows = [j \in DOMAIN ts |-> rows[j]] /\ \A j \in DOMAIN ts : d.rec[ts[j].addr] = rows[j]
        BY <1>2 DEF From
      <3> HIDE DEF rows
      <3>2. Count(rows)[r] = Cardinality(Having(Addrs(ts), d.rec, r))
        BY <1>2, <3>1, BatchCount
      <3> QED BY <3>2 DEF rows, A
    <2>2. Count(To(ts))[r] = Cardinality(Having(A, e.rec, r))
      <3> DEFINE rows == To(ts)
      <3>1. rows = [j \in DOMAIN ts |-> rows[j]] /\ \A j \in DOMAIN ts : e.rec[ts[j].addr] = rows[j]
        BY <1>7 DEF To
      <3> HIDE DEF rows
      <3>2. Count(rows)[r] = Cardinality(Having(Addrs(ts), e.rec, r))
        BY <1>2, <3>1, BatchCount
      <3> QED BY <3>2 DEF rows, A
    <2>3. Having(d.used \ A, e.rec, r) = Having(d.used \ A, d.rec, r)
      <3>1. \A s \in d.used \ A : e.rec[s] = d.rec[s]
        BY <1>1, <1>7
      <3> QED BY <3>1, Counts
    <2>4. /\ Cardinality(Having(d.used, d.rec, r)) =
                 Cardinality(Having(d.used \ A, d.rec, r)) + Cardinality(Having(A, d.rec, r))
          /\ Cardinality(Having(d.used, e.rec, r)) =
                 Cardinality(Having(d.used \ A, e.rec, r)) + Cardinality(Having(A, e.rec, r))
      BY <1>1, <1>2, Split
    <2>5. /\ Tally(d)[r] = Cardinality(Having(d.used, d.rec, r))
          /\ Tally(e)[r] = Cardinality(Having(d.used, e.rec, r))
      BY <1>7, Counts
    <2>6. d.used \ A \in SUBSET Slots /\ A \in SUBSET Slots
      BY <1>1, <1>2
    <2>7. /\ Cardinality(Having(d.used \ A, d.rec, r)) \in Nat
          /\ Cardinality(Having(A, d.rec, r)) \in Nat
          /\ Cardinality(Having(A, e.rec, r)) \in Nat
      BY <2>6, Counts
    <2> QED BY <2>1, <2>2, <2>3, <2>4, <2>5, <2>7
  <1> QED BY <1>13, <1>14 DEF e

\* The only update of a commit, refused by the first index that it changes,
\* changes nothing.
LEMMA UpdateKeeps ==
    ASSUME NEW d, Right(d), NEW ts, RowUpdates(d, ts), Len(ts) = 1,
           NEW m \in Moved(ts[1].from, ts[1].to),
           \A i \in Indexes : i < m => ts[1].from[i] = ts[1].to[i],
           Moved(ts[1].from, ts[1].to) \cap Unique \subseteq {m},
           NEW x, x = update(d, ts), ~x.ok
    PROVE  Right(x.d) /\ x.d.used = d.used /\ x.d.rec = d.rec
  <1> DEFINE K == KeysOf(d)
             c == CallAll(d, UpdateCalls(ts))
             g == c.d
             calls == UnupdateCalls(ts, c.n)
  <1>1. /\ d \in DB /\ d.num = Cardinality(d.used) /\ K \in [Indexes -> Entered]
        /\ \A s \in d.used : d.rec[s] \in Rows
        /\ \A i \in Indexes, s \in Slots :
               K[i][s] = IF s \in d.used THEN d.rec[s][i] ELSE Link
    BY RightFacts
  <1>2. ~c.ok /\ x.d = CallAll(g, calls).d
    BY DEF update, Updated, Done, Thrown
  <1>3. g \in States(d, K) /\ c.n = 0
    <2>1. UpdatesOf(d, K, ts)
      BY AreUpdates
    <2> HIDE DEF K
    <2> QED BY <1>2, <2>1, UpdateOneRefused
  <1> HIDE DEF K
  <1>4. g \in DB /\ Holds(g, K) /\ g.rec = d.rec /\ g.used = d.used /\ g.num = d.num
    BY <1>3, StatesFacts
  <1>5. calls = [j \in 1..0 |-> calls[j]]
    BY <1>3 DEF UnupdateCalls
  <1> HIDE DEF g, c, calls
  <1>6. x.d = g
    BY <1>2, <1>5, NoCalls
  <1>7. KeysOf(g) = K
    BY <1>1, <1>4, KeysAre
  <1>8. Right(g)
    BY <1>1, <1>4, <1>7 DEF Right
  <1> QED BY <1>4, <1>6, <1>8

-----------------------------------------------------------------------------

\* A count is a number.
LEMMA CountNat ==
    ASSUME NEW rows, NEW n \in Nat, DOMAIN rows = 1..n, NEW r \in Rows
    PROVE  Count(rows)[r] \in Nat
  <1> DEFINE S == {j \in DOMAIN rows : rows[j] = r}
  <1>1. S \in SUBSET (1..n)
    OBVIOUS
  <1> HIDE DEF S
  <1>2. IsFiniteSet(1..n)
    BY FS_Interval
  <1>3. IsFiniteSet(S)
    BY <1>1, <1>2, FS_Subset
  <1>4. Cardinality(S) \in Nat
    BY <1>3, FS_CardinalityType
  <1> QED BY <1>4 DEF Count, S

\* A batch the other way round.
LEMMA SwappedFacts ==
    ASSUME NEW ts, Len(ts) \in Nat, DOMAIN ts = 1..Len(ts)
    PROVE  /\ Changing(Swapped(ts)) /\ Len(Swapped(ts)) = Len(ts)
           /\ DOMAIN Swapped(ts) = DOMAIN ts
           /\ To(Swapped(ts)) = From(ts) /\ From(Swapped(ts)) = To(ts)
           /\ \A j \in DOMAIN ts : /\ Swapped(ts)[j].addr = ts[j].addr
                                   /\ Swapped(ts)[j].from = ts[j].to
                                   /\ Swapped(ts)[j].to = ts[j].from
  <1> DEFINE q == Swapped(ts)
             n == Len(ts)
  <1>1. /\ DOMAIN q = 1..n
        /\ \A j \in 1..n : q[j] = [addr |-> ts[j].addr, from |-> ts[j].to, to |-> ts[j].from]
    BY DEF Swapped
  <1>2. q = [j \in 1..n |-> q[j]]
    BY DEF Swapped
  <1> HIDE DEF q, n
  <1>3. n \in Nat /\ DOMAIN ts = 1..n
    BY DEF n
  <1>4. Len(q) = n
    BY <1>2, <1>3, LenOf
  <1>5. \A j \in 1..n : q[j].addr = ts[j].addr /\ q[j].from = ts[j].to /\ q[j].to = ts[j].from
    BY <1>1
  <1>6. Changing(q)
    BY <1>1, <1>3, <1>4, <1>5 DEF Changing
  <1>7. To(q) = From(ts) /\ From(q) = To(ts)
    BY <1>1, <1>3, <1>5 DEF To, From
  <1> QED BY <1>1, <1>3, <1>4, <1>5, <1>6, <1>7 DEF q, n

-----------------------------------------------------------------------------
(* Commits                                                                 *)

\* The undo of a commit.
LEMMA TakenBack ==
    ASSUME NEW d, Right(d), NEW del, Len(del) \in Nat, DOMAIN del = 1..Len(del),
           \A j \in DOMAIN del : del[j].from \in Rows, insert(d, Swapped(del)).ok,
           NEW q, ReadFrom(d, q), NEW e, e = Undone(d, del, q)
    PROVE  /\ Right(e)
           /\ \A r \in Rows :
                  Tally(e)[r] = Tally(d)[r] + Count(From(del))[r] - Count(From(q))[r]
  <1> DEFINE ts == Swapped(del)
             x == insert(d, ts)
             f == x.d
  <1>1. Changing(ts) /\ DOMAIN ts = DOMAIN del /\ To(ts) = From(del)
        /\ \A j \in DOMAIN del : ts[j].to = del[j].from
    BY SwappedFacts
  <1>2. x.ok /\ e = deleteRec(f, q)
    BY DEF Undone, Reinserted
  <1> HIDE DEF ts
  <1>3. /\ Right(f) /\ f.used = d.used \cup Addrs(x.ts)
        /\ \A s \in d.used : f.rec[s] = d.rec[s]
        /\ \A r \in Rows : Tally(f)[r] = Tally(d)[r] + Count(To(ts))[r]
    <2>1. \A j \in DOMAIN ts : ts[j].to \in Rows
      BY <1>1
    <2> HIDE DEF x
    <2>2. x = insert(d, ts)
      BY DEF x
    <2> QED BY <1>1, <1>2, <2>1, <2>2, InsertAdds
  <1> HIDE DEF x, f
  <1>4. ReadFrom(f, q)
    BY <1>3 DEF ReadFrom
  <1>5. /\ Right(e)
        /\ \A r \in Rows : Tally(e)[r] = Tally(f)[r] - Count(From(q))[r]
    BY <1>2, <1>3, <1>4, Deleted
  <1>6. \A r \in Rows : Tally(f)[r] = Tally(d)[r] + Count(From(del))[r]
    BY <1>1, <1>3
  <1>7. ASSUME NEW r \in Rows
        PROVE  Tally(e)[r] = Tally(d)[r] + Count(From(del))[r] - Count(From(q))[r]
    <2>1. Tally(e)[r] = Tally(f)[r] - Count(From(q))[r]
      BY <1>5
    <2>2. Tally(f)[r] = Tally(d)[r] + Count(From(del))[r]
      BY <1>6
    <2>3. /\ DOMAIN From(del) = 1..Len(del) /\ DOMAIN From(q) = 1..Len(q)
          /\ Len(q) \in Nat /\ d.used \in SUBSET Slots
      BY RightFacts DEF From, ReadFrom, Batch
    <2>4. /\ Count(From(del))[r] \in Nat /\ Count(From(q))[r] \in Nat
          /\ Tally(d)[r] \in Nat
      BY <2>3, CountNat, Counts
    <2> QED BY <2>1, <2>2, <2>4
  <1> QED BY <1>5, <1>7

CommitOf(del, ins, upd) ==
    /\ ReadFrom(db, del) /\ ReadFrom(db, upd) /\ Addrs(del) \cap Addrs(upd) = {}
    /\ Changing(ins) /\ \A j \in DOMAIN ins : ins[j].to \in Rows
    /\ \A j \in DOMAIN upd : upd[j].to \in Rows

\* What Sound says of the outcome of a commit.
LEMMA SoundFacts ==
    ASSUME NEW del, NEW ins, NEW upd, Sound(del, ins, upd),
           NEW c, c = Changes(del, ins, upd)
    PROVE  /\ Apart(upd)
           /\ Len(ins) > 1 /\ Overlaid # {} => c.insertOk
           /\ c.insertOk /\ ~c.updated.ok =>
                 /\ Len(upd) = 1 /\ (del = <<>> \/ ins = <<>>)
                 /\ \E m \in Moved(upd[1].from, upd[1].to) :
                        /\ \A i \in Indexes : i < m => upd[1].from[i] = upd[1].to[i]
                        /\ Moved(upd[1].from, upd[1].to) \cap Unique \subseteq {m}
  <1> DEFINE Changed(t) == {i \in Indexes : t.from[i] # t.to[i]}
             First(t) == Changed(t) # {} /\ Changed(t) \cap Unique = {Min(Changed(t))}
  <1>1. /\ \A a, b \in DOMAIN upd : a # b =>
               \A i \in Changed(upd[a]) :
                   upd[a].to[i] \notin {upd[b].from[i], upd[b].to[i]}
        /\ Len(ins) > 1 /\ Overlaid # {} => c.insertOk
        /\ ~(Len(upd) = 1 /\ First(upd[1]) /\ (del = <<>> \/ ins = <<>>)) =>
               (c.insertOk => c.updated.ok)
    BY DEF Sound
  <1>2. \A t : Changed(t) = Moved(t.from, t.to)
    BY DEF Moved
  <1> HIDE DEF Changed
  <1>3. Apart(upd)
    BY <1>1, <1>2 DEF Apart
  <1>4. ASSUME c.insertOk, ~c.updated.ok
        PROVE  /\ Len(upd) = 1 /\ (del = <<>> \/ ins = <<>>)
               /\ \E m \in Moved(upd[1].from, upd[1].to) :
                        /\ \A i \in Indexes : i < m => upd[1].from[i] = upd[1].to[i]
                        /\ Moved(upd[1].from, upd[1].to) \cap Unique \subseteq {m}
    <2>1. Len(upd) = 1 /\ First(upd[1]) /\ (del = <<>> \/ ins = <<>>)
      BY <1>1, <1>4
    <2> DEFINE S == Moved(upd[1].from, upd[1].to)
    <2>2. S # {} /\ S \cap Unique = {Min(S)}
      BY <1>2, <2>1
    <2>3. S \in SUBSET Nat
      BY IndexNums DEF Moved
    <2>6. \A i \in Indexes : i \notin S => upd[1].from[i] = upd[1].to[i]
      BY DEF Moved
    <2> HIDE DEF S, First
    <2>4. \E m \in S : \A k \in S : m <= k
      BY <2>2, <2>3, LeastOf
    <2>5. Min(S) \in S /\ \A k \in S : Min(S) <= k
      BY <2>4 DEF Min
    <2>7. \A i \in Indexes : i < Min(S) => upd[1].from[i] = upd[1].to[i]
      <3> SUFFICES ASSUME NEW i \in Indexes, i < Min(S) PROVE i \notin S
        BY <2>6
      <3>1. i \in Nat
        BY IndexNums
      <3>2. Min(S) \in Nat
        BY <2>3, <2>5
      <3> QED BY <2>5, <3>1, <3>2
    <2> QED BY <2>1, <2>2, <2>5, <2>7 DEF S
  <1> QED BY <1>1, <1>3, <1>4

\* A commit that returns has made its changes, and one that throws none.
LEMMA CommitRight ==
    ASSUME Right(db), NEW del, NEW ins, NEW upd, CommitOf(del, ins, upd),
           Sound(del, ins, upd), NEW x, x = Committed(del, ins, upd)
    PROVE  /\ Right(x.d)
           /\ \A r \in Rows :
                  Tally(x.d)[r] =
                      IF x.ok
                      THEN Tally(db)[r] + Count(To(ins))[r] + Count(To(upd))[r]
                               - Count(From(del))[r] - Count(From(upd))[r]
                      ELSE Tally(db)[r]
  <1> DEFINE d1 == deleteRec(db, del)
             y == insert(d1, ins)
             c == Changes(del, ins, upd)
             u == update(y.d, upd)
  <1>1. /\ Right(d1) /\ d1.used = db.used \ Addrs(del)
        /\ \A s \in d1.used : d1.rec[s] = db.rec[s]
        /\ \A r \in Rows : Tally(d1)[r] = Tally(db)[r] - Count(From(del))[r]
    BY Deleted DEF CommitOf
  <1>2. /\ Batch(del) /\ Len(del) \in Nat /\ DOMAIN del = 1..Len(del)
        /\ \A j \in DOMAIN del : del[j].from \in Rows
        /\ Batch(upd) /\ Len(upd) \in Nat /\ DOMAIN upd = 1..Len(upd)
        /\ Len(ins) \in Nat /\ DOMAIN ins = 1..Len(ins)
    <2>1. \A s \in db.used : db.rec[s] \in Rows
      BY RightFacts
    <2> QED BY <2>1 DEF CommitOf, ReadFrom, Batch, Changing
  <1>3. Changing(ins) /\ \A j \in DOMAIN ins : ins[j].to \in Rows
    BY DEF CommitOf
  <1>4. /\ Apart(upd)
        /\ Len(ins) > 1 /\ Overlaid # {} => c.insertOk
        /\ c.insertOk /\ ~c.updated.ok =>
                 /\ Len(upd) = 1 /\ (del = <<>> \/ ins = <<>>)
                 /\ \E m \in Moved(upd[1].from, upd[1].to) :
                        /\ \A i \in Indexes : i < m => upd[1].from[i] = upd[1].to[i]
                        /\ Moved(upd[1].from, upd[1].to) \cap Unique \subseteq {m}
    BY SoundFacts
  <1>5. /\ c.inserted = IF y.ok THEN Swapped(y.ts) ELSE <<>>
        /\ c.insertOk = y.ok /\ c.updated = IF y.ok THEN u ELSE y
    BY DEF Changes, Applied
  <1>6. x = IF c.updated.ok THEN c.updated
            ELSE Thrown(Undone(c.updated.d, del, c.inserted))
    BY DEF Committed, Outcome
  <1>7. ASSUME NEW r \in Rows
        PROVE  /\ Count(From(del))[r] \in Int /\ Count(To(ins))[r] \in Int
               /\ Count(From(upd))[r] \in Int /\ Count(To(upd))[r] \in Int
               /\ Tally(db)[r] \in Int
    <2>1. /\ DOMAIN From(del) = 1..Len(del) /\ DOMAIN To(ins) = 1..Len(ins)
          /\ DOMAIN From(upd) = 1..Len(upd) /\ DOMAIN To(upd) = 1..Len(upd)
      BY <1>2 DEF From, To
    <2>2. /\ Count(From(del))[r] \in Nat /\ Count(To(ins))[r] \in Nat
          /\ Count(From(upd))[r] \in Nat /\ Count(To(upd))[r] \in Nat
      BY <1>2, <2>1, CountNat
    <2>3. db.used \in SUBSET Slots
      BY RightFacts
    <2>4. Tally(db)[r] \in Nat
      BY <2>3, Counts
    <2> QED BY <2>2, <2>4
  <1> HIDE DEF d1, y, u, c
  <1>8. CASE ~y.ok
    <2>1. Overlaid = {} \/ Len(ins) <= 1
      BY <1>2, <1>4, <1>5, <1>8
    <2>2. Right(y.d) /\ y.d.used = d1.used /\ \A s \in d1.used : y.d.rec[s] = d1.rec[s]
      BY <1>1, <1>3, <1>8, <2>1, InsertKeeps DEF y
    <2>3. ~c.updated.ok /\ c.updated.d = y.d /\ c.inserted = <<>>
      BY <1>5, <1>8
    <2>4. ~x.ok /\ x.d = Undone(y.d, del, <<>>)
      BY <1>6, <2>3 DEF Thrown
    <2>5. LeftOf(db, del, y.d)
      BY <1>1, <2>2 DEF LeftOf, CommitOf
    <2>6. insert(y.d, Swapped(del)).ok
      <3>1. /\ Changing(Swapped(del)) /\ Len(Swapped(del)) = Len(del)
            /\ DOMAIN Swapped(del) = DOMAIN del
            /\ \A j \in DOMAIN del : Swapped(del)[j].to = del[j].from
        BY <1>2, SwappedFacts
      <3> QED BY <2>5, <3>1, InsertsAgain
    <2> DEFINE none == <<>>
    <2>7. ReadFrom(y.d, none)
      BY DEF ReadFrom, Batch
    <2>10. x.d = Undone(y.d, del, none)
      BY <2>4
    <2>11. ASSUME NEW r \in Rows PROVE Count(From(none))[r] = 0
      <3>1. {j \in DOMAIN From(none) : From(none)[j] = r} = {}
        BY DEF From
      <3> QED BY <3>1, FS_EmptySet DEF Count
    <2> HIDE DEF none
    <2>8. /\ Right(x.d)
          /\ \A r \in Rows :
                 Tally(x.d)[r] = Tally(y.d)[r] + Count(From(del))[r] - Count(From(none))[r]
      BY <1>2, <2>2, <2>6, <2>7, <2>10, TakenBack
    <2>9. ASSUME NEW r \in Rows PROVE Tally(x.d)[r] = Tally(db)[r]
      <3>1. Tally(y.d)[r] = Tally(d1)[r]
        <4>1. Having(y.d.used, y.d.rec, r) = Having(d1.used, d1.rec, r)
          BY <2>2, Counts
        <4> QED BY <4>1, Counts
      <3>2. Count(From(none))[r] = 0
        BY <2>11
      <3> QED BY <1>1, <1>7, <2>8, <3>1, <3>2
    <2> QED BY <2>4, <2>8, <2>9
  <1>9. CASE y.ok
    <2> DEFINE e == y.d
               a == y.ts
    <2>1. /\ Right(e) /\ Changing(a) /\ Batch(a) /\ To(a) = To(ins)
          /\ e.used = d1.used \cup Addrs(a)
          /\ \A s \in d1.used : e.rec[s] = d1.rec[s]
          /\ \A j \in DOMAIN a : a[j].to \in Rows /\ e.rec[a[j].addr] = a[j].to
          /\ \A r \in Rows : Tally(e)[r] = Tally(d1)[r] + Count(To(ins))[r]
      BY <1>1, <1>3, <1>9, InsertAdds DEF y
    <2>2. c.updated = u /\ c.inserted = Swapped(a) /\ c.insertOk
      BY <1>5, <1>9
    <2> HIDE DEF e, a
    <2>3. u = update(e, upd)
      BY DEF u, e
    <2>4. RowUpdates(e, upd)
      <3>1. \A j \in DOMAIN upd : upd[j].addr \in d1.used /\ upd[j].from = db.rec[upd[j].addr]
        BY <1>1 DEF CommitOf, ReadFrom, Addrs
      <3>2. \A j \in DOMAIN upd : upd[j].addr \in e.used /\ upd[j].from = e.rec[upd[j].addr]
        BY <1>1, <2>1, <3>1
      <3> QED BY <1>2, <1>4, <3>2 DEF RowUpdates, ReadFrom, CommitOf
    <2>5. CASE u.ok
      <3>1. x = u
        BY <1>6, <2>2, <2>5
      <3>2. /\ Right(u.d)
            /\ \A r \in Rows :
                   Tally(u.d)[r] = Tally(e)[r] + Count(To(upd))[r] - Count(From(upd))[r]
        BY <2>1, <2>3, <2>4, <2>5, UpdateMoves
      <3>3. ASSUME NEW r \in Rows
            PROVE  Tally(x.d)[r] = Tally(db)[r] + Count(To(ins))[r] + Count(To(upd))[r]
                               - Count(From(del))[r] - Count(From(upd))[r]
        BY <1>1, <1>7, <2>1, <3>1, <3>2
      <3> QED BY <2>5, <3>1, <3>2, <3>3
    <2>6. CASE ~u.ok
      <3> DEFINE q == Swapped(a)
      <3>1. /\ Len(upd) = 1 /\ (del = <<>> \/ ins = <<>>)
            /\ \E m \in Moved(upd[1].from, upd[1].to) :
                        /\ \A i \in Indexes : i < m => upd[1].from[i] = upd[1].to[i]
                        /\ Moved(upd[1].from, upd[1].to) \cap Unique \subseteq {m}
        BY <1>4, <2>2, <2>6
      <3>2. Right(u.d) /\ u.d.used = e.used /\ u.d.rec = e.rec
        BY <2>1, <2>3, <2>4, <2>6, <3>1, UpdateKeeps, SMTT(30)
      <3>3. ~x.ok /\ x.d = Undone(u.d, del, q)
        BY <1>6, <2>2, <2>6 DEF Thrown
      <3>4. /\ DOMAIN a = 1..Len(a) /\ Len(a) \in Nat
            /\ Changing(q) /\ DOMAIN q = DOMAIN a /\ Len(q) = Len(a) /\ From(q) = To(a)
            /\ \A j \in DOMAIN a : q[j].addr = a[j].addr /\ q[j].from = a[j].to
        BY <2>1, SwappedFacts DEF Batch
      <3> HIDE DEF q
      <3>5. ReadFrom(u.d, q)
        <4>1. Batch(q)
          BY <2>1, <3>4 DEF Batch
        <4>2. \A j \in DOMAIN a : a[j].addr \in Addrs(a)
          BY DEF Addrs
        <4> QED BY <2>1, <3>2, <3>4, <4>1, <4>2 DEF ReadFrom
      <3>6. insert(u.d, Swapped(del)).ok
        <4>1. /\ Changing(Swapped(del)) /\ Len(Swapped(del)) = Len(del)
              /\ DOMAIN Swapped(del) = DOMAIN del
              /\ \A j \in DOMAIN del : Swapped(del)[j].to = del[j].from
          BY <1>2, SwappedFacts
        <4>2. CASE del = <<>>
          <5>1. LeftOf(u.d, del, u.d)
            BY <3>2, <4>2 DEF LeftOf, ReadFrom, Batch, Addrs
          <5> QED BY <4>1, <5>1, InsertsAgain
        <4>3. CASE ins = <<>>
          <5>1. Addrs(a) = {}
            <6>1. DOMAIN To(a) = DOMAIN a /\ DOMAIN To(ins) = {}
              BY <4>3 DEF To
            <6>2. DOMAIN a = {}
              BY <2>1, <6>1
            <6> QED BY <6>2 DEF Addrs
          <5>2. LeftOf(db, del, u.d)
            BY <1>1, <2>1, <3>2, <5>1 DEF LeftOf, CommitOf
          <5> QED BY <4>1, <5>2, InsertsAgain
        <4> QED BY <3>1, <4>2, <4>3
      <3>7. /\ Right(x.d)
            /\ \A r \in Rows :
                   Tally(x.d)[r] = Tally(u.d)[r] + Count(From(del))[r] - Count(From(q))[r]
        <4> DEFINE z == u.d
                   w == x.d
        <4>1. /\ Len(del) \in Nat /\ DOMAIN del = 1..Len(del)
              /\ \A j \in DOMAIN del : del[j].from \in Rows
          BY <1>2
        <4>2. Right(z) /\ ReadFrom(z, q) /\ insert(z, Swapped(del)).ok
              /\ w = Undone(z, del, q)
          BY <3>2, <3>3, <3>5, <3>6
        <4>3. /\ Right(w)
              /\ \A r \in Rows :
                     Tally(w)[r] = Tally(z)[r] + Count(From(del))[r] - Count(From(q))[r]
          <5> HIDE DEF z, w
          <5> QED BY <4>1, <4>2, TakenBack
        <4> QED BY <4>3
      <3>8. ASSUME NEW r \in Rows PROVE Tally(x.d)[r] = Tally(db)[r]
        <4>1. Tally(u.d)[r] = Tally(e)[r]
          BY <3>2, Counts
        <4>2. Count(From(q))[r] = Count(To(ins))[r]
          BY <2>1, <3>4
        <4> QED BY <1>1, <1>7, <2>1, <3>7, <4>1, <4>2
      <3> QED BY <3>3, <3>7, <3>8
    <2> QED BY <2>5, <2>6
  <1> QED BY <1>8, <1>9

\* Part of a list, and the changes made from one.
LEMMA PartOf ==
    ASSUME NEW S, NEW N \in Nat, NEW q \in [1..N -> S], NEW a \in 1..(N + 1),
           NEW b \in 0..N, b >= a - 1, NEW v, v = SubSeq(q, a, b)
    PROVE  DOMAIN v = 1..(b - a + 1) /\ \A j \in 1..(b - a + 1) : v[j] = q[a + j - 1]
  <1>1. q \in Seq(S) /\ Len(q) = N
    <2>1. q \in Seq(S)
      BY SeqDef
    <2>2. DOMAIN q = 1..Len(q) /\ Len(q) \in Nat
      BY <2>1, LenProperties
    <2>3. 1..Len(q) = 1..N
      BY <2>2
    <2> QED BY <2>1, <2>2, <2>3
  <1>2. CASE b = a - 1
    <2>1. v = <<>> /\ 1..(b - a + 1) = {}
      BY <1>1, <1>2, SubSeqEmpty
    <2> QED BY <2>1
  <1>3. CASE b # a - 1
    <2>1. a \in 1..Len(q) /\ b \in a..Len(q)
      BY <1>1, <1>3
    <2>2. /\ v \in Seq(S) /\ Len(v) = b - a + 1
          /\ \A j \in 1..(b - a + 1) : v[j] = q[a + j - 1]
      BY <1>1, <2>1, SubSeqProperties
    <2>3. DOMAIN v = 1..Len(v)
      BY <2>2, LenProperties
    <2> QED BY <2>2, <2>3
  <1> QED BY <1>2, <1>3

\* The changes of Commit are changes of records of the table.
LEMMA CommitParts ==
    ASSUME Right(db), NEW n \in Nat, NEW m \in Nat, NEW p \in Nat,
           NEW addrs \in [1..(n + p) -> db.used], IsInjective(addrs),
           NEW rows \in [1..(m + p) -> Rows],
           NEW del, del = Deletes(SubSeq(addrs, 1, n)),
           NEW ins, ins = Inserts(SubSeq(rows, 1, m)),
           NEW upd, upd = Updates(SubSeq(addrs, n + 1, n + p), SubSeq(rows, m + 1, m + p))
    PROVE  CommitOf(del, ins, upd)
  <1> DEFINE da == SubSeq(addrs, 1, n)
             ua == SubSeq(addrs, n + 1, n + p)
             ir == SubSeq(rows, 1, m)
             ur == SubSeq(rows, m + 1, m + p)
  <1>0. /\ n + p \in Nat /\ m + p \in Nat
        /\ 1 \in 1..(n + p + 1) /\ n \in 0..(n + p) /\ n >= 1 - 1
        /\ n + 1 \in 1..(n + p + 1) /\ n + p \in 0..(n + p) /\ n + p >= n + 1 - 1
        /\ 1 \in 1..(m + p + 1) /\ m \in 0..(m + p) /\ m >= 1 - 1
        /\ m + 1 \in 1..(m + p + 1) /\ m + p \in 0..(m + p) /\ m + p >= m + 1 - 1
        /\ n - 1 + 1 = n /\ n + p - (n + 1) + 1 = p
        /\ m - 1 + 1 = m /\ m + p - (m + 1) + 1 = p
    OBVIOUS
  <1>1. DOMAIN da = 1..n /\ \A j \in 1..n : da[j] = addrs[j]
    <2>1. DOMAIN da = 1..(n - 1 + 1) /\ \A j \in 1..(n - 1 + 1) : da[j] = addrs[1 + j - 1]
      <3> HIDE DEF da
      <3>1. da = SubSeq(addrs, 1, n)
        BY DEF da
      <3> QED BY <1>0, <3>1, PartOf
    <2> HIDE DEF da
    <2>2. \A j \in 1..n : 1 + j - 1 = j
      OBVIOUS
    <2> QED BY <1>0, <2>1, <2>2
  <1>2. DOMAIN ua = 1..p /\ \A j \in 1..p : ua[j] = addrs[n + j]
    <2>1. /\ DOMAIN ua = 1..(n + p - (n + 1) + 1)
          /\ \A j \in 1..(n + p - (n + 1) + 1) : ua[j] = addrs[n + 1 + j - 1]
      <3> HIDE DEF ua
      <3>1. ua = SubSeq(addrs, n + 1, n + p)
        BY DEF ua
      <3> QED BY <1>0, <3>1, PartOf
    <2> HIDE DEF ua
    <2>2. \A j \in 1..p : n + 1 + j - 1 = n + j
      OBVIOUS
    <2> QED BY <1>0, <2>1, <2>2
  <1>3. DOMAIN ir = 1..m /\ \A j \in 1..m : ir[j] = rows[j]
    <2>1. DOMAIN ir = 1..(m - 1 + 1) /\ \A j \in 1..(m - 1 + 1) : ir[j] = rows[1 + j - 1]
      <3> HIDE DEF ir
      <3>1. ir = SubSeq(rows, 1, m)
        BY DEF ir
      <3> QED BY <1>0, <3>1, PartOf
    <2> HIDE DEF ir
    <2>2. \A j \in 1..m : 1 + j - 1 = j
      OBVIOUS
    <2> QED BY <1>0, <2>1, <2>2
  <1>4. DOMAIN ur = 1..p /\ \A j \in 1..p : ur[j] = rows[m + j]
    <2>1. /\ DOMAIN ur = 1..(m + p - (m + 1) + 1)
          /\ \A j \in 1..(m + p - (m + 1) + 1) : ur[j] = rows[m + 1 + j - 1]
      <3> HIDE DEF ur
      <3>1. ur = SubSeq(rows, m + 1, m + p)
        BY DEF ur
      <3> QED BY <1>0, <3>1, PartOf
    <2> HIDE DEF ur
    <2>2. \A j \in 1..p : m + 1 + j - 1 = m + j
      OBVIOUS
    <2> QED BY <1>0, <2>1, <2>2
  <1> HIDE DEF da, ua, ir, ur
  <1>5. /\ del = [j \in 1..n |-> [addr |-> da[j], from |-> db.rec[da[j]], to |-> Link]]
        /\ ins = [j \in 1..m |-> [addr |-> 0, from |-> Link, to |-> ir[j]]]
        /\ upd = [j \in 1..p |-> [addr |-> ua[j], from |-> db.rec[ua[j]], to |-> ur[j]]]
    BY <1>1, <1>3, <1>4 DEF Deletes, Inserts, Updates, da, ua, ir, ur
  <1>6. /\ DOMAIN del = 1..n /\ Len(del) = n /\ DOMAIN ins = 1..m /\ Len(ins) = m
        /\ DOMAIN upd = 1..p /\ Len(upd) = p
    <2>1. del = [j \in 1..n |-> del[j]] /\ ins = [j \in 1..m |-> ins[j]]
          /\ upd = [j \in 1..p |-> upd[j]]
      BY <1>5
    <2> QED BY <2>1, LenOf
  <1>7. /\ \A j \in 1..n : del[j].addr = addrs[j] /\ del[j].from = db.rec[addrs[j]]
        /\ \A j \in 1..p : /\ upd[j].addr = addrs[n + j] /\ upd[j].from = db.rec[addrs[n + j]]
                           /\ upd[j].to = rows[m + j]
        /\ \A j \in 1..m : ins[j].to = rows[j]
    BY <1>1, <1>2, <1>3, <1>4, <1>5
  <1>8. Changing(ins)
    <2>1. \A j \in 1..m : ins[j] = [addr |-> ins[j].addr, from |-> ins[j].from, to |-> ins[j].to]
      BY <1>5
    <2> QED BY <1>6, <2>1 DEF Changing
  <1>9. /\ \A j \in 1..n : addrs[j] \in db.used
        /\ \A j \in 1..p : addrs[n + j] \in db.used /\ rows[m + j] \in Rows
        /\ \A j \in 1..m : rows[j] \in Rows
    <2>1. \A j \in 1..p : n + j \in 1..(n + p) /\ m + j \in 1..(m + p)
      OBVIOUS
    <2>2. \A j \in 1..n : j \in 1..(n + p)
      OBVIOUS
    <2>3. \A j \in 1..m : j \in 1..(m + p)
      OBVIOUS
    <2> QED BY <2>1, <2>2, <2>3
  <1>10. \A j, k \in 1..(n + p) : addrs[j] = addrs[k] => j = k
    BY DEF IsInjective
  <1>11. db.used \in SUBSET Slots
    BY RightFacts
  <1>12. ReadFrom(db, del)
    <2>1. ASSUME NEW j \in 1..n, NEW k \in 1..n, del[j].addr = del[k].addr PROVE j = k
      <3>1. j \in 1..(n + p) /\ k \in 1..(n + p)
        OBVIOUS
      <3>2. addrs[j] = addrs[k]
        BY <1>7, <2>1
      <3> QED BY <1>10, <3>1, <3>2
    <2>2. \A j \in 1..n : /\ del[j].addr \in db.used /\ del[j].addr \in Slots
                           /\ del[j].from = db.rec[del[j].addr]
      BY <1>7, <1>9, <1>11
    <2>3. Batch(del)
      BY <1>6, <2>1, <2>2 DEF Batch
    <2> QED BY <1>6, <2>2, <2>3 DEF ReadFrom
  <1>13. ReadFrom(db, upd)
    <2>1. ASSUME NEW j \in 1..p, NEW k \in 1..p, upd[j].addr = upd[k].addr PROVE j = k
      <3>1. n + j \in 1..(n + p) /\ n + k \in 1..(n + p)
        OBVIOUS
      <3> DEFINE a == n + j
                 b == n + k
      <3>2. addrs[a] = addrs[b] /\ a \in 1..(n + p) /\ b \in 1..(n + p)
        BY <1>7, <2>1, <3>1
      <3>3. a = b
        <4> HIDE DEF a, b
        <4> QED BY <1>10, <3>2
      <3> QED BY <3>3
    <2>2. \A j \in 1..p : /\ upd[j].addr \in db.used /\ upd[j].addr \in Slots
                           /\ upd[j].from = db.rec[upd[j].addr]
      BY <1>7, <1>9, <1>11
    <2>3. Batch(upd)
      BY <1>6, <2>1, <2>2 DEF Batch
    <2> QED BY <1>6, <2>2, <2>3 DEF ReadFrom
  <1>14. Addrs(del) \cap Addrs(upd) = {}
    <2> SUFFICES ASSUME NEW j \in 1..n, NEW k \in 1..p, del[j].addr = upd[k].addr
                 PROVE  FALSE
      BY <1>6 DEF Addrs
    <2>1. j \in 1..(n + p) /\ n + k \in 1..(n + p) /\ j # n + k
      OBVIOUS
    <2> QED BY <1>7, <1>10, <2>1
  <1> QED BY <1>6, <1>7, <1>8, <1>9, <1>12, <1>13, <1>14 DEF CommitOf

-----------------------------------------------------------------------------

\* A table without records is right.
LEMMA EmptyRight ==
    ASSUME NEW rec \in [Slots -> Columns], NEW d, d = Empty(rec)
    PROVE  Right(d) /\ Tally(d) = [r \in Rows |-> 0]
  <1> DEFINE f == [s \in Slots |-> Link]
             K == [i \in Indexes |-> f]
  <1>1. <<>> \in Chains
    BY EmptySeq DEF Chains
  <1>2. d \in DB /\ d.used = {} /\ d.num = 0 /\ d.node = NodeNum
        /\ d.table = [i \in Indexes |-> [b \in Places |-> <<>>]]
    <2>1. [i \in Indexes |-> [b \in Places |-> <<>>]] \in Tables
      BY <1>1 DEF Tables
    <2> QED BY <2>1, TableAssumption DEF Empty, DB
  <1>3. /\ f \in Entered /\ All(f) = {} /\ \A k \in Keys : With(f, k) = {}
    BY TableAssumption DEF Entered, All, With
  <1>4. KeysOf(d) = K
    BY <1>2 DEF KeysOf
  <1> HIDE DEF f
  <1>5. Holds(d, K)
    <2>1. ASSUME NEW i \in Indexes PROVE IndexRight(i, d.table[i], d.node[i], f)
      <3>1. d.table[i] = [b \in Places |-> <<>>] /\ d.node[i] = NodeNum[i] /\ NodeNum[i] \in Nat
        BY <1>2, TableAssumption
      <3>2. \A b \in Places : PlaceRight(<<>>, f, b)
        BY <1>1, <1>3 DEF PlaceRight
      <3>3. NodeNum[i] + Cardinality(All(f)) = NodeNum[i]
        <4>1. Cardinality(All(f)) = 0
          BY <1>3, FS_EmptySet
        <4> QED BY <3>1, <4>1
      <3>4. \A b \in Places : PlaceRight(d.table[i][b], f, b)
        BY <3>1, <3>2
      <3>5. d.table[i] \in [Places -> Chains]
        BY <1>1, <3>1
      <3> QED BY <1>3, <3>1, <3>3, <3>4, <3>5 DEF IndexRight
    <2> QED BY <1>2, <1>3, <2>1 DEF Holds
  <1>6. d.num = Cardinality(d.used)
    BY <1>2, FS_EmptySet
  <1>7. ASSUME NEW r \in Rows PROVE Tally(d)[r] = 0
    <2>1. {s \in d.used : d.rec[s] = r} = {}
      BY <1>2
    <2> QED BY <2>1, FS_EmptySet DEF Tally
  <1>8. Tally(d) = [r \in Rows |-> 0]
    BY <1>7 DEF Tally
  <1> HIDE DEF K
  <1> QED BY <1>2, <1>4, <1>5, <1>6, <1>8 DEF Right

\* A new table is right.
LEMMA InitRight == Init => IInv
  <1> SUFFICES ASSUME Init PROVE IInv
    OBVIOUS
  <1> DEFINE rec == [s \in Slots |-> [i \in Indexes |-> Link]]
  <1>1. rec \in [Slots -> Columns] /\ db = Empty(rec)
    BY DEF Columns, Init
  <1> HIDE DEF rec
  <1>2. Right(db) /\ Tally(db) = [r \in Rows |-> 0]
    BY <1>1, EmptyRight
  <1> QED BY <1>2 DEF IInv, Init

\* truncate leaves a table that is right.
LEMMA TruncateRight ==
    ASSUME IInv, truncate
    PROVE  IInv'
  <1> DEFINE v == freeTableMem(db, db.used)
             rec == v.rec
  <1>1. db \in DB
    BY RightFacts DEF IInv
  <1>2. v \in DB
    BY <1>1, FreeFacts
  <1> HIDE DEF v
  <1>3. rec \in [Slots -> Columns]
    BY <1>2 DEF DB
  <1>4. db' = Empty(rec) /\ acked' = [r \in Rows |-> 0]
    BY DEF truncate, v
  <1> HIDE DEF rec
  <1>5. Right(db') /\ Tally(db') = [r \in Rows |-> 0]
    BY <1>3, <1>4, EmptyRight
  <1> QED BY <1>4, <1>5 DEF IInv

\* A sound commit leaves a table that is right, and as acknowledged.
LEMMA CommitStep ==
    ASSUME IInv, NEW del, NEW ins, NEW upd, CommitOf(del, ins, upd),
           Sound(del, ins, upd), commit(del, ins, upd)
    PROVE  IInv'
  <1> DEFINE x == Committed(del, ins, upd)
  <1>1. Right(db) /\ acked = Tally(db)
    BY DEF IInv
  <1>2. /\ Right(x.d)
        /\ \A r \in Rows :
               Tally(x.d)[r] =
                   IF x.ok
                   THEN Tally(db)[r] + Count(To(ins))[r] + Count(To(upd))[r]
                            - Count(From(del))[r] - Count(From(upd))[r]
                   ELSE Tally(db)[r]
    BY <1>1, CommitRight
  <1>3. db' = x.d /\ acked' = IF x.ok THEN Net(del, ins, upd) ELSE acked
    BY DEF commit
  <1> HIDE DEF x
  <1>4. acked' = Tally(x.d)
    <2>1. Tally(x.d) = [r \in Rows |-> Tally(x.d)[r]] /\ Tally(db) = [r \in Rows |-> Tally(db)[r]]
      BY DEF Tally
    <2>2. CASE x.ok
      <3>1. Net(del, ins, upd) =
                [r \in Rows |-> Tally(db)[r] + Count(To(ins))[r] + Count(To(upd))[r]
                            - Count(From(del))[r] - Count(From(upd))[r]]
        BY <1>1 DEF Net
      <3> QED BY <1>2, <1>3, <2>1, <2>2, <3>1
    <2>3. CASE ~x.ok
      BY <1>1, <1>2, <1>3, <2>1, <2>3
    <2> QED BY <2>2, <2>3
  <1> QED BY <1>2, <1>3, <1>4 DEF IInv

\* Every step keeps the invariant.
LEMMA NextRight ==
    ASSUME IInv, [Next]_vars
    PROVE  IInv'
  <1>1. CASE Commit(Sound)
    <2>1. PICK n \in 0..MaxChanges, m \in 0..MaxChanges, p \in 0..MaxChanges :
            \E addrs \in [1..(n + p) -> db.used], rows \in [1..(m + p) -> Rows] :
               LET del == Deletes(SubSeq(addrs, 1, n))
                   ins == Inserts(SubSeq(rows, 1, m))
                   upd == Updates(SubSeq(addrs, n + 1, n + p),
                                  SubSeq(rows, m + 1, m + p))
               IN  IsInjective(addrs) /\ Sound(del, ins, upd) /\ commit(del, ins, upd)
      BY <1>1, SMTT(30) DEF Commit
    <2>2. PICK addrs \in [1..(n + p) -> db.used], rows \in [1..(m + p) -> Rows] :
               LET del == Deletes(SubSeq(addrs, 1, n))
                   ins == Inserts(SubSeq(rows, 1, m))
                   upd == Updates(SubSeq(addrs, n + 1, n + p),
                                  SubSeq(rows, m + 1, m + p))
               IN  IsInjective(addrs) /\ Sound(del, ins, upd) /\ commit(del, ins, upd)
      BY <2>1
    <2> DEFINE del == Deletes(SubSeq(addrs, 1, n))
               ins == Inserts(SubSeq(rows, 1, m))
               upd == Updates(SubSeq(addrs, n + 1, n + p), SubSeq(rows, m + 1, m + p))
    <2>3. IsInjective(addrs) /\ Sound(del, ins, upd) /\ commit(del, ins, upd)
      BY <2>2
    <2>4. n \in Nat /\ m \in Nat /\ p \in Nat /\ Right(db)
      BY TableAssumption DEF IInv
    <2>5. CommitOf(del, ins, upd)
      BY <2>3, <2>4, CommitParts
    <2> HIDE DEF del, ins, upd
    <2> QED BY <2>3, <2>5, CommitStep
  <1>2. CASE truncate
    BY <1>2, TruncateRight
  <1>3. CASE UNCHANGED vars
    BY <1>3 DEF vars, IInv
  <1> QED BY <1>1, <1>2, <1>3 DEF Next

\* The theorems are about Spec, in which every commit is Sound: a batch of inserts
\* is refused only if no link lies over an indexed column (BaseTable.cpp:417-425),
\* an update only if it is the only one, by the first index it changes (line 743),
\* and without both deletes and inserts beside it (Table.cpp:327-334); and no
\* update moves to a key that another of the commit comes from or goes to.

\* Between commits every index holds, place by place, exactly the records of the
\* table by their keys, and the records are those that the commits that returned
\* have left (BaseTable::insert, deleteRec, update; Table::commit).
THEOREM Invariance == Spec => []IInv
  BY InitRight, NextRight, PTL DEF Spec

\* What the invariant says of each index of the table.
LEMMA IndexFacts ==
    ASSUME IInv, NEW i \in Indexes, NEW K, K = KeysOf(db)
    PROVE  /\ db \in DB /\ db.used \in SUBSET Slots /\ db.num = Cardinality(db.used)
           /\ Holds(db, K) /\ All(K[i]) = db.used /\ K[i] \in Entered
           /\ db.node[i] \in Nat /\ db.node[i] + Cardinality(db.used) = NodeNum[i]
           /\ db.table[i] \in [Places -> Chains]
           /\ \A b \in Places : PlaceRight(db.table[i][b], K[i], b)
           /\ i \in Unique => \A s, t \in db.used : K[i][s] = K[i][t] => s = t
           /\ \A s \in db.used : db.rec[s][i] = K[i][s] /\ K[i][s] \in Keys
           /\ \A k \in Keys : ReadsAs(db, i, K[i], k)
                               /\ With(K[i], k) = {s \in db.used : db.rec[s][i] = k}
  <1>1. Right(db)
    BY DEF IInv
  <1>2. /\ db \in DB /\ db.used \in SUBSET Slots /\ db.num = Cardinality(db.used)
        /\ Holds(db, K) /\ K[i] \in Entered
        /\ \A s \in db.used : db.rec[s] \in [Indexes -> Keys]
        /\ \A s \in Slots : K[i][s] = IF s \in db.used THEN db.rec[s][i] ELSE Link
        /\ All(K[i]) = db.used
    BY <1>1, RightFacts
  <1>3. IndexRight(i, db.table[i], db.node[i], K[i]) /\ db.node[i] \in Nat
    BY <1>2 DEF Holds, DB
  <1>4. \A s \in db.used : s \in Slots /\ db.rec[s][i] = K[i][s] /\ K[i][s] \in Keys
    BY <1>2
  <1>5. ASSUME NEW k \in Keys
        PROVE  /\ ReadsAs(db, i, K[i], k)
               /\ With(K[i], k) = {s \in db.used : db.rec[s][i] = k}
    <2>1. ReadsAs(db, i, K[i], k)
      BY <1>2, <1>4 DEF ReadsAs
    <2>2. \A s \in Slots : K[i][s] = k <=> s \in db.used /\ db.rec[s][i] = k
      BY <1>2, <1>4, TableAssumption
    <2> QED BY <1>2, <2>1, <2>2 DEF With
  <1> QED BY <1>2, <1>3, <1>4, <1>5 DEF IndexRight

-----------------------------------------------------------------------------

\* The invariant has the types.
LEMMA TypeHolds == IInv => TypeOK
  <1> SUFFICES ASSUME IInv PROVE TypeOK
    OBVIOUS
  <1>1. Right(db) /\ acked = Tally(db)
    BY DEF IInv
  <1>2. db \in DB /\ db.used \in SUBSET Slots /\ db.num = Cardinality(db.used)
    BY <1>1, RightFacts
  <1>3. db.rec \in [Slots -> [Indexes -> Keys \cup {Link}]]
    BY <1>2 DEF DB, Columns
  <1>4. ASSUME NEW i \in Indexes PROVE db.node[i] \in 0..NodeNum[i]
    <2>1. db.node[i] \in Nat /\ db.node[i] + Cardinality(db.used) = NodeNum[i]
      BY IndexFacts
    <2>2. Cardinality(db.used) \in Nat /\ NodeNum[i] \in Nat
      BY <1>2, Finite, TableAssumption
    <2> QED BY <2>1, <2>2
  <1>5. ASSUME NEW i \in Indexes, NEW b \in Places, NEW g \in DOMAIN db.table[i][b]
        PROVE  db.table[i][b][g] \in Seq(Slots) \ {<<>>}
    <2>1. PlaceRight(db.table[i][b], KeysOf(db)[i], b)
      BY IndexFacts
    <2> HIDE DEF Places
    <2>2. g \in 1..Len(db.table[i][b])
      BY <2>1, ChainFacts
    <2> QED BY <2>1, <2>2, ChainFacts
  <1>6. acked \in [Rows -> 0..SlotNum]
    <2>1. ASSUME NEW r \in Rows
          PROVE  Cardinality({s \in db.used : db.rec[s] = r}) \in 0..SlotNum
      <3> DEFINE S == {s \in db.used : db.rec[s] = r}
      <3>1. S \in SUBSET Slots
        BY <1>2
      <3> HIDE DEF S
      <3>2. Cardinality(S) \in Nat /\ Cardinality(S) <= Cardinality(Slots)
        BY <3>1, Finite, FS_Subset
      <3>3. Cardinality(S) \in 0..SlotNum
        BY <3>2, Finite
      <3> QED BY <3>3 DEF S
    <2> QED BY <1>1, <2>1 DEF Tally
  <1> QED BY <1>2, <1>3, <1>4, <1>5, <1>6 DEF TypeOK

\* Records keep their columns, no list of a place is left empty, and m_recordNum
\* (BaseTable.cpp:395, 431) counts the records, also after an undo.
THEOREM TypeCorrect == Spec => []TypeOK
  BY Invariance, TypeHolds, PTL

-----------------------------------------------------------------------------

\* A list that select finds is that of its key.
LEMMA SelectHolds == IInv => SelectExact
  <1> SUFFICES ASSUME IInv, NEW i \in Indexes, NEW k \in Keys,
                      NEW found, found = select(db, i, k)
               PROVE  /\ IsInjective(found)
                      /\ Range(found) = {s \in db.used : db.rec[s][i] = k}
    BY DEF SelectExact
  <1> DEFINE K == KeysOf(db)
  <1>1. /\ Holds(db, K) /\ ReadsAs(db, i, K[i], k)
        /\ With(K[i], k) = {s \in db.used : db.rec[s][i] = k}
    BY IndexFacts
  <1> HIDE DEF K
  <1>2. CASE With(K[i], k) = {}
    <2>1. Lists(db, i, k) = {}
      BY <1>1, <1>2, TheList
    <2>2. found = <<>>
      BY <2>1 DEF select
    <2>3. IsInjective(found) /\ Range(found) = {}
      BY <2>2 DEF IsInjective, Range
    <2> QED BY <1>1, <1>2, <2>3
  <1>3. CASE With(K[i], k) # {}
    <2>1. PICK g \in DOMAIN Place(db, i, k) :
              /\ Lists(db, i, k) = {g} /\ Min(Lists(db, i, k)) = g
              /\ ListOf(Place(db, i, k)[g], With(K[i], k))
      BY <1>1, <1>3, TheList
    <2>2. found = Place(db, i, k)[g]
      BY <2>1 DEF select
    <2> QED BY <1>1, <2>1, <2>2 DEF ListOf
  <1> QED BY <1>2, <1>3

\* A lookup in any index (IndexHash::select) returns every record with the key,
\* once, and no other, after any sequence of sound commits, refused ones included.
THEOREM RecordsAreFound == Spec => []SelectExact
  BY Invariance, SelectHolds, PTL

-----------------------------------------------------------------------------

\* Lists of different keys, and of different places, have no slot in common.
LEMMA EntriesHold == IInv => EntriesExact
  <1> SUFFICES ASSUME IInv, NEW i \in Indexes, NEW all, all = selectALL(db, i)
               PROVE  /\ IsInjective(all) /\ Range(all) = db.used
                      /\ db.node[i] + Cardinality(db.used) = NodeNum[i]
    BY DEF EntriesExact
  <1> DEFINE K == KeysOf(db)
             table == db.table[i]
  <1>1. /\ db.node[i] + Cardinality(db.used) = NodeNum[i]
        /\ DOMAIN table = Places /\ K[i] \in Entered /\ All(K[i]) = db.used
        /\ \A b \in Places : PlaceRight(table[b], K[i], b)
        /\ \A s \in db.used : s \in Slots /\ K[i][s] \in Keys
    BY IndexFacts
  <1> HIDE DEF K
  <1>2. /\ DOMAIN all = Entries(db, i)
        /\ \A at \in Entries(db, i) : all[at] = table[at[1]][at[2]][at[3]]
    BY DEF selectALL
  <1>3. /\ \A b \in Places : \A g \in DOMAIN table[b] : \A q \in DOMAIN table[b][g] :
               <<b, g, q>> \in Entries(db, i) /\ all[<<b, g, q>>] = table[b][g][q]
        /\ \A at \in Entries(db, i) :
               \E b \in Places : \E g \in DOMAIN table[b] : \E q \in DOMAIN table[b][g] :
                   at = <<b, g, q>> /\ all[at] = table[b][g][q]
    <2> HIDE DEF Places
    <2>1. ASSUME NEW b \in Places, NEW g \in DOMAIN table[b], NEW q \in DOMAIN table[b][g]
          PROVE  <<b, g, q>> \in Entries(db, i)
      BY <1>1 DEF Entries
    <2>2. ASSUME NEW at \in Entries(db, i)
          PROVE  \E b \in Places : \E g \in DOMAIN table[b] :
                     \E q \in DOMAIN table[b][g] : at = <<b, g, q>>
      BY <1>1, <2>2 DEF Entries
    <2> QED BY <1>2, <2>1, <2>2
  <1> HIDE DEF table
  <1>4. ASSUME NEW b \in Places, NEW g \in DOMAIN table[b]
        PROVE  \E k \in Keys : /\ hash[k] = b /\ IsInjective(table[b][g])
                               /\ Range(table[b][g]) = With(K[i], k)
    <2>1. PlaceRight(table[b], K[i], b)
      BY <1>1
    <2> HIDE DEF Places
    <2> QED BY <2>1, ChainKey DEF ListOf
  <1>5. ASSUME NEW at \in Entries(db, i), NEW too \in Entries(db, i), all[at] = all[too]
        PROVE  at = too
    <2>1. PICK b \in Places : \E g \in DOMAIN table[b] : \E q \in DOMAIN table[b][g] :
                   at = <<b, g, q>> /\ all[at] = table[b][g][q]
      BY <1>3
    <2>2. PICK g \in DOMAIN table[b] : \E q \in DOMAIN table[b][g] :
                   at = <<b, g, q>> /\ all[at] = table[b][g][q]
      BY <2>1
    <2>3. PICK q \in DOMAIN table[b][g] : at = <<b, g, q>> /\ all[at] = table[b][g][q]
      BY <2>2
    <2>4. PICK c \in Places : \E h \in DOMAIN table[c] : \E p \in DOMAIN table[c][h] :
                   too = <<c, h, p>> /\ all[too] = table[c][h][p]
      BY <1>3
    <2>5. PICK h \in DOMAIN table[c] : \E p \in DOMAIN table[c][h] :
                   too = <<c, h, p>> /\ all[too] = table[c][h][p]
      BY <2>4
    <2>6. PICK p \in DOMAIN table[c][h] : too = <<c, h, p>> /\ all[too] = table[c][h][p]
      BY <2>5
    <2>7. PICK k \in Keys : /\ hash[k] = b /\ IsInjective(table[b][g])
                            /\ Range(table[b][g]) = With(K[i], k)
      BY <1>4
    <2>8. PICK x \in Keys : /\ hash[x] = c /\ IsInjective(table[c][h])
                            /\ Range(table[c][h]) = With(K[i], x)
      BY <1>4
    <2>9. all[at] \in With(K[i], k) /\ all[at] \in With(K[i], x)
      BY <1>5, <2>3, <2>6, <2>7, <2>8 DEF Range
    <2>10. k = x /\ b = c
      BY <2>7, <2>8, <2>9 DEF With
    <2>11. g = h
      <3>1. \A v, w \in DOMAIN table[b] : Range(table[b][v]) = Range(table[b][w]) => v = w
        BY <1>1 DEF PlaceRight
      <3> QED BY <2>7, <2>8, <2>10, <3>1
    <2>12. q = p
      BY <1>5, <2>3, <2>6, <2>7, <2>10, <2>11 DEF IsInjective
    <2> QED BY <2>3, <2>6, <2>10, <2>11, <2>12
  <1>6. ASSUME NEW at \in Entries(db, i) PROVE all[at] \in db.used
    <2>1. PICK b \in Places : \E g \in DOMAIN table[b] : \E q \in DOMAIN table[b][g] :
                   all[at] = table[b][g][q]
      BY <1>3
    <2>2. PICK g \in DOMAIN table[b] : \E q \in DOMAIN table[b][g] :
                   all[at] = table[b][g][q]
      BY <2>1
    <2>3. PICK k \in Keys : Range(table[b][g]) = With(K[i], k)
      BY <1>4
    <2>4. all[at] \in With(K[i], k)
      BY <2>2, <2>3 DEF Range
    <2> QED BY <1>1, <2>4, TableAssumption DEF With, All
  <1>7. ASSUME NEW s \in db.used PROVE \E at \in Entries(db, i) : all[at] = s
    <2> DEFINE k == K[i][s]
               b == hash[k]
    <2>1. k \in Keys /\ b \in Places /\ s \in With(K[i], k)
      BY <1>1 DEF With, Places
    <2>2. PlaceRight(table[b], K[i], b)
      BY <1>1, <2>1
    <2>3. PICK g \in DOMAIN table[b] : Range(table[b][g]) = With(K[i], k)
      BY <2>1, <2>2 DEF PlaceRight
    <2>4. PICK q \in DOMAIN table[b][g] : table[b][g][q] = s
      BY <2>1, <2>3 DEF Range
    <2> HIDE DEF k, b
    <2> QED BY <1>3, <2>1, <2>3, <2>4
  <1>8. IsInjective(all)
    BY <1>2, <1>5 DEF IsInjective
  <1>9. Range(all) = db.used
    BY <1>2, <1>6, <1>7 DEF Range
  <1> QED BY <1>1, <1>8, <1>9

\* A scan of an index (IndexHash::selectALL) reads every record once and no freed
\* slot, and no node of the index is lost.  Commits may be refused at any of their
\* inserts, if no link lies over an indexed column, or at a single update, by the
\* first index that it changes; then they leave no entry of their own behind and
\* take none away (undoIndexChange, BaseTable.cpp:757).  Of other refused updates,
\* and of overlaid batches, the code does leave entries.
THEOREM EntriesAreExact == Spec => []EntriesExact
  BY Invariance, EntriesHold, PTL

-----------------------------------------------------------------------------

\* The invariant has unique keys.
LEMMA UniqueHolds == IInv => UniqueKeys
  <1> SUFFICES ASSUME IInv, NEW i \in Unique, NEW s \in db.used, NEW t \in db.used,
                      db.rec[s][i] = db.rec[t][i]
               PROVE  s = t
    BY DEF UniqueKeys
  <1>1. i \in Indexes
    BY TableAssumption
  <1> QED BY <1>1, IndexFacts

\* No two records have the same key in a unique index: insertIdx refuses the second
\* (IndexHash.cpp), and no undo of a sound commit brings one back beside another.
THEOREM KeysStayUnique == Spec => []UniqueKeys
  BY Invariance, UniqueHolds, PTL

\* The invariant counts the records.
LEMMA AcknowledgedHolds == IInv => AsAcknowledged
  BY DEF IInv, Tally, AsAcknowledged

\* Sound commits are atomic in what they do: one that returns has made all its
\* deletes, inserts and updates; one that throws at any of its inserts, after any
\* deletes, or at its only update, by the first index that it changes and with
\* deletes or inserts but not both before it, has made none (Table::commit).  Where
\* a later update or index refuses, the undo of Table.cpp:327-334 may fail.
THEOREM CommitsAreAtomic == Spec => []AsAcknowledged
  BY Invariance, AcknowledgedHolds, PTL

================================================================================
