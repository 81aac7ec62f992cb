------------------------------ MODULE MCPageMem ------------------------------
(* PageMem for TLC: two spaces, a table that may use both and an index     *)
(* that shares the second with it.                                         *)
EXTENDS PageMem, TLC

CONSTANTS x, y, p1, p2, p3, table, index

ThePageList == x :> <<p1>> @@ y :> <<p2, p3>>
TheSpaceList == table :> <<x, y>> @@ index :> <<y>>
TheSlotNum == table :> 2 @@ index :> 1
==============================================================================
