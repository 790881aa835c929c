------------------------------ MODULE MCBTree ------------------------------
(***************************************************************************)
(* What the program puts: six keys whose data has one size, or five of     *)
(* which one is put with data of two sizes, next to a smaller one.         *)
(***************************************************************************)
EXTENDS BTree

MCLoads ==
    {[k \in Keys |-> {2}],
     [k \in Keys |-> CASE k = 2 -> {1} [] k = 3 -> {1, 2} [] k = 6 -> {} [] OTHER -> {2}]}
=============================================================================
