--------------------------- MODULE MCClickPipeline ---------------------------
(* Model checking of ClickPipeline: workers are interchangeable, and clicks. *)
EXTENDS ClickPipeline, TLC

Symmetry == Permutations(Workers) \cup Permutations(Clicks)

=============================================================================
