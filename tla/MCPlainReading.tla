--------------------------- MODULE MCPlainReading ---------------------------
(* The instance the theorems of DependencyTrackingProofs about traces apply *)
(* to.                                                                     *)
EXTENDS MCTraceReading

ASSUME OneMappingEach /\ PatternsFit /\ RelativePathsAreHere /\ OneSpelling
=============================================================================
