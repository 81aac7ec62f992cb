------------------------------ MODULE MCBaseTable ------------------------------
(* BaseTable for TLC: a unique index over four keys, two to a place, and a   *)
(* second index with fewer nodes than there are slots, so that each of the   *)
(* two can refuse a record.                                                  *)
EXTENDS BaseTable

CONSTANTS k1, k2, k3, k4
TheHash == k1 :> 0 @@ k2 :> 0 @@ k3 :> 1 @@ k4 :> 1
TheNodeNum == <<4, 3>>
TheRows == {<<k1, k1>>, <<k1, k3>>, <<k2, k1>>, <<k3, k2>>, <<k4, k1>>}
===============================================================================
