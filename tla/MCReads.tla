------------------------------ MODULE MCReads ------------------------------
(* Instances of Reads for TLC.                                              *)
EXTENDS Reads, TLC

CONSTANTS a1, c1, c2, c3, h1, h2

Identity == [n \in Name |-> n]

CredentialIds == c1 :> 1 @@ c2 :> 2 @@ c3 :> 3

Create ==
    [op |-> "create", caller |-> "console", key |-> "k1", actor |-> "ann",
     organization |-> "org", name |-> "build"]

Rotate(k, a, n) ==
    [op |-> "rotate_secret", caller |-> "console", key |-> k, actor |-> "ann",
     organization |-> "org", account |-> a, revision |-> n]

Revoke(k, a, n) ==
    [op |-> "revoke", caller |-> "console", key |-> k, actor |-> "ann",
     organization |-> "org", account |-> a, revision |-> n]

(* Two rotations in a row, a rival of each, and an account that does not    *)
(* exist.                                                                   *)
RotationRequests ==
    {Create, Rotate("k1", a1, 1), Rotate("k2", a1, 2), Rotate("k2", a1, 1),
     Revoke("k1", a1, 2), Rotate("k1", None, 1)}

Handlers2 == Permutations({h1, h2})

=============================================================================
