-------------------------------- MODULE MCGroups --------------------------------
(* Three users and three overlapping requests on one group. *)
EXTENDS Groups, TLC

UserSymmetry == Permutations(Users)
RequestSymmetry == Permutations(GroupOps)
Symmetry == UserSymmetry \cup RequestSymmetry
=============================================================================
