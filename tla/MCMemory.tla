------------------------------ MODULE MCMemory ------------------------------
(* The instance of Memory that TLC checks. The first memory map has room   *)
(* for the slabs in one entry; in the second the bitmap takes the small    *)
(* entry before a hole and the slabs lie apart; in the third there is room *)
(* for one slab only.                                                      *)
EXTENDS Memory

Part(first, length, usable) == [base |-> first, length |-> length, usable |-> usable]
Maps ==
  { <<Part(0, 1, FALSE), Part(1, 5, TRUE)>>,
    <<Part(1, 3, TRUE), Part(4, 2, FALSE), Part(6, 3, TRUE)>>,
    <<Part(1, 1, FALSE), Part(2, 4, TRUE)>> }
=============================================================================
