------------------------- MODULE MCServiceAccount --------------------------
(* Instances of ServiceAccount for TLC.                                     *)
EXTENDS LedgerRefinement, TLC

CONSTANTS a1, a2, a3, c1, c2, c3, h1, h2

MCNameKey == [n \in Name |-> IF n = "Build" THEN "build" ELSE n]

Create(k, n) ==
    [op |-> "create", caller |-> "console", key |-> k, actor |-> "ann",
     organization |-> "org", name |-> n]

Rotate(k, a, n) ==
    [op |-> "rotate_secret", caller |-> "console", key |-> k, actor |-> "ann",
     organization |-> "org", account |-> a, revision |-> n]

Revoke(k, a, n) ==
    [op |-> "revoke", caller |-> "console", key |-> k, actor |-> "ann",
     organization |-> "org", account |-> a, revision |-> n]

Exchange(k, c, ok) ==
    [op |-> "exchange_secret", caller |-> "console", key |-> k,
     credential |-> c, genuine |-> ok]

(* Three in a row: the second rotation may be in flight before the first.   *)
RotationRequests ==
    {Create("k1", "build"), Rotate("k1", a1, 1), Rotate("k2", a1, 2),
     Revoke("k1", a1, 3)}

(* More creations than the organization may hold, two of one folded name.   *)
OrganizationRequests ==
    {Create("k1", "build"), Create("k2", "Build"), Create("k3", "deploy"),
     Create("k4", "test")}

(* One exchange against a rotation and a revocation.                        *)
ExchangeRequests ==
    {Create("k1", "build"), Exchange("k1", c1, TRUE),
     Rotate("k1", a1, 1), Revoke("k1", a1, 1)}

(* Retries under one key, with one intent and with another.                 *)
RetryRequests ==
    {Create("k1", "build"), Exchange("k1", c1, TRUE), Exchange("k1", c1, FALSE)}

Handlers2 == Permutations({h1, h2})

(* No request names a credential ...                                        *)
AnonymousCredentials == Handlers2 \cup Permutations({c1, c2, c3})

(* ... or an account.                                                       *)
AnonymousRows == AnonymousCredentials \cup Permutations({a1, a2, a3})

=============================================================================
