------------------------------- MODULE MCPresence -------------------------------
(* A user with two devices and a user with one. *)
EXTENDS Presence, TLC

CONSTANTS alice, bob, a1, a2, b1

MCOwner == a1 :> alice @@ a2 :> alice @@ b1 :> bob
=============================================================================
