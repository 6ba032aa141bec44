------------------------------ MODULE MCMemory ------------------------------
(* Instances of Memory for TLC: two users; rows 1 and 2 are old rows with one
   key, row 3 is an old row nobody is named for, rows 4 and 5 are yet to come,
   and row 6 is an entry of the journal.                                     *)
EXTENDS Memory

CONSTANTS ua, ub, k1, k2

MCActor == [i \in Ids |-> CASE i = 3 -> NoActor [] i = 5 -> ub [] OTHER -> ua]
MCKey == [i \in Ids |-> IF i \in {3, 4} THEN k2 ELSE k1]
MCAge == [i \in Ids |-> i]
=============================================================================
