------------------------------- MODULE MCBTree -------------------------------
(* BTree for TLC: an index from the start, and one of three levels.        *)
EXTENDS BTree

Ascending(n) == [i \in 1..n |-> 10 * i]
FromEmpty == {<<>>}
OneLoad == {Ascending(11)}
ThreeLevels == {<<>>, Ascending(13), Ascending(15)}
Symmetry == Permutations(Procs)
===============================================================================
