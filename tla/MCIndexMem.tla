------------------------------ MODULE MCIndexMem ------------------------------
(* IndexMem for TLC: four indexes that fill the space in some orders.      *)
EXTENDS IndexMem, TLC

CONSTANTS i1, i2, i3, i4
TheHashSize == i1 :> 1 @@ i2 :> 1 @@ i3 :> 1 @@ i4 :> 2
===============================================================================
