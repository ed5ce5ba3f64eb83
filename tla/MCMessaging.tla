------------------------------ MODULE MCMessaging ------------------------------
(* Two users, a device each, two sends that overlap in every way. *)
EXTENDS Messaging, TLC

CONSTANTS alice, bob, a1, b1, s1, s2

MCOwner == a1 :> alice @@ b1 :> bob
=============================================================================
