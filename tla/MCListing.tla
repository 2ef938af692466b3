----------------------------- MODULE MCListing -----------------------------
(* Instances of Listing for TLC.                                            *)
EXTENDS Listing, TLC

CONSTANTS a1, a2, a3, c1, c2, c3, h1, s1, s2, s3

Identity == [n \in Name |-> n]

Ids == a1 :> 1 @@ a2 :> 2 @@ a3 :> 3

Create(o, n) ==
    [op |-> "create", caller |-> "console", key |-> n, actor |-> "ann",
     organization |-> o, name |-> n]

(* Up to three accounts, of one organization or of two, created in any      *)
(* order and with any ids.                                                  *)
ListRequests ==
    {Create("org", "build"), Create("org", "deploy"), Create("org", "test"),
     Create("other", "build")}

(* Nothing that list reads depends on which credential and which subject an *)
(* account got.                                                             *)
Anonymous == Permutations({s1, s2, s3}) \cup Permutations({c1, c2, c3})

=============================================================================
