---------------------------- MODULE BaseTableInv ----------------------------
(***************************************************************************)
(* The inductive invariant of a table with its hash indexes.  What an      *)
(* index holds is given by slot, as the key under which the slot was       *)
(* entered, or Link if it was not; in the middle of a commit this is not   *)
(* always the key that the record has.                                     *)
(***************************************************************************)
EXTENDS BaseTable

Columns == [Indexes -> Keys \cup {Link}]
Chains == Seq(Seq(Slots) \ {<<>>})
Tables == [Indexes -> [Places -> Chains]]
DB == [rec : [Slots -> Columns], used : SUBSET Slots, num : Int,
       node : [Indexes -> Nat], table : Tables]
Entered == [Slots -> Keys \cup {Link}]

-----------------------------------------------------------------------------

\* The slots that are entered under a key, and under any.
With(f, k) == {s \in Slots : f[s] = k}
All(f) == {s \in Slots : f[s] # Link}

ListOf(q, S) == q \in Seq(S) /\ IsInjective(q) /\ Range(q) = S

\* At place b there is one list for each key that has entries, and no other.
PlaceRight(place, f, b) ==
    /\ place \in Chains
    /\ \A g \in DOMAIN place :
           \E k \in Keys : hash[k] = b /\ ListOf(place[g], With(f, k))
    /\ \A g, h \in DOMAIN place : Range(place[g]) = Range(place[h]) => g = h
    /\ \A k \in Keys : hash[k] = b /\ With(f, k) # {} =>
           \E g \in DOMAIN place : Range(place[g]) = With(f, k)

IndexRight(i, table, node, f) ==
    /\ table \in [Places -> Chains] /\ f \in Entered
    /\ \A b \in Places : PlaceRight(table[b], f, b)
    /\ node + Cardinality(All(f)) = NodeNum[i]
    /\ i \in Unique => \A s, t \in All(f) : f[s] = f[t] => s = t

\* The indexes hold K.
Holds(d, K) ==
    /\ d \in DB /\ K \in [Indexes -> Entered]
    /\ \A i \in Indexes : IndexRight(i, d.table[i], d.node[i], K[i])

-----------------------------------------------------------------------------

\* What the indexes of a table should hold.
KeysOf(d) ==
    [i \in Indexes |-> [s \in Slots |-> IF s \in d.used THEN d.rec[s][i] ELSE Link]]

Right(d) ==
    /\ Holds(d, KeysOf(d))
    /\ \A s \in d.used : d.rec[s] \in Rows
    /\ d.num = Cardinality(d.used)

Tally(d) == [r \in Rows |-> Cardinality({s \in d.used : d.rec[s] = r})]

IInv == Right(db) /\ acked = Tally(db)
===============================================================================
