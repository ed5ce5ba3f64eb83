--------------------------- MODULE MCMessageDocument ---------------------------
(* The author and one other user, four requests of any kind that overlap. *)
EXTENDS MessageDocument

CONSTANTS alice, bob, r1, r2, r3, r4

RequestSymmetry == Permutations(Requests)
=============================================================================
