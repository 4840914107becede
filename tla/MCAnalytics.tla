---------------------------- MODULE MCAnalytics ----------------------------
(* Model checking of Analytics: all events but one are clicks on the first *)
(* url, which is owned; requests, workers and its events are               *)
(* interchangeable.                                                        *)
EXTENDS Analytics, TLC

CONSTANTS Popular, Other, OtherEvent, Alice

MCUrlOf == [e \in Events |-> IF e = OtherEvent THEN Other ELSE Popular]

MCOwner == [u \in Urls |-> IF u = Popular THEN Alice ELSE Anonymous]

Symmetry == Permutations(Requests) \cup Permutations(Workers)
              \cup Permutations(Events \ {OtherEvent})

=============================================================================
