----------------------------- MODULE MCPrivateChats -----------------------------
(* Two users, two of the three lists, which are alike, two requests at a time. *)
EXTENDS PrivateChats, TLC

Symmetry == Permutations(Users) \cup Permutations(Requests) \cup Permutations(Lists)

\* Bound: one request at a time while a list is read.  To its reader, the saves of two
\* requests are two saves, which one request after the other makes as well.
ReadingBound == reader = NoReader \/ Cardinality({r \in Requests : cpc[r] # "idle"}) <= 1
=============================================================================
