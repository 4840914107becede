---------------------------- MODULE MCUrlService ----------------------------
(* Model checking of UrlService: the symmetry of interchangeable handlers. *)
EXTENDS UrlService, TLC

RequestSymmetry == Permutations(Requests)

=============================================================================
