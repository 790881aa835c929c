---------------------------- MODULE MCObjectGC ----------------------------
(***************************************************************************)
(* A small instance of ObjectGC: one instance, one table, two globals, one *)
(* context and one foreign object, each of which can be created, collected *)
(* and created again.  Tables and globals hold references to the instance, *)
(* which has them as its parts.  The globals share the one slot, so that   *)
(* it is reused and raced for; they are interchangeable.                   *)
(***************************************************************************)
EXTENDS ObjectGC, TLC

CONSTANTS i1, t1, g1, g2, c1, x1

Symmetry == Permutations({g1, g2})
=============================================================================
