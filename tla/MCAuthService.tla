--------------------------- MODULE MCAuthService ---------------------------
(* Model checking of AuthService: requests, ids and emails are each         *)
(* interchangeable.                                                         *)
EXTENDS AuthService, TLC

Symmetry == Permutations(Requests) \cup Permutations(Ids) \cup Permutations(Emails)

=============================================================================
