--------------------------- MODULE MCRateLimiter ---------------------------
(* Model checking of RateLimiter: requests are interchangeable, and every  *)
(* identity has the same limit.                                            *)
EXTENDS RateLimiter, TLC

CONSTANT LimitOfAll

MCLimit == [i \in Identities |-> LimitOfAll]

RequestSymmetry == Permutations(Requests)

=============================================================================
