--------------------------- MODULE MCRateLimiter ---------------------------
(* Instances of RateLimiter for TLC.                                        *)
EXTENDS RateLimiter, TLC

CONSTANTS x1, x2, x3

Identity == [n \in Name |-> n]

Calls3 == Permutations({x1, x2, x3})

=============================================================================
