---------------------------- MODULE MCGroupMessaging ----------------------------
(* Three users, two of them with a device, a send and a request on the group. *)
EXTENDS GroupMessaging, TLC

CONSTANTS alice, bob, carol, a1, b1

MCOwner == a1 :> alice @@ b1 :> bob

\* Alice and Bob change places together with their devices.
Symmetry ==
    {f \in Permutations({alice, bob, a1, b1}) :
        f[alice] \in Users /\ \A k \in Sockets : f[k] \in Sockets /\ Owner[f[k]] = f[Owner[k]]}
=============================================================================
