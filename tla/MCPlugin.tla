------------------------------ MODULE MCPlugin -----------------------------
(* Instances of Plugin for TLC.                                             *)
EXTENDS Plugin, TLC

CONSTANTS a1, c1, c2, h1, h2

Identity == [n \in Name |-> n]

Create ==
    [op |-> "create", caller |-> "console", key |-> "k1", actor |-> "ann",
     organization |-> "org", name |-> "build"]

Exchange ==
    [op |-> "exchange_secret", caller |-> "console", key |-> "k1",
     credential |-> c1, genuine |-> TRUE]

(* Writers of both kinds of secret.                                         *)
LifecycleRequests == {Create, Exchange}

Rotate ==
    [op |-> "rotate_secret", caller |-> "console", key |-> "k1", actor |-> "ann",
     organization |-> "org", account |-> a1, revision |-> 1]

(* Calls that wait for one account's lock.                                  *)
WaitingRequests == {Create, Exchange, Rotate}

Handlers2 == Permutations({h1, h2})

=============================================================================
