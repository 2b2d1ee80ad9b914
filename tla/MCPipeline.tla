----------------------------- MODULE MCPipeline -----------------------------
(* Two builds, in one tree or in two, share a file of no package, and two  *)
(* bundles are made.                                                       *)
EXTENDS Pipeline

MCOriginal == [f \in {1, 2} |-> 0]
MCPlacements == {[b \in {"b1", "b2"} |-> IF b = "b1" THEN "t1" ELSE t] : t \in {"t1", "t2"}}
MCUses == [b \in {"b1", "b2"} |-> IF b = "b1" THEN {1, 2} ELSE {1}]
MCMakes == [b \in {"b1", "b2"} |-> <<>>]
MCCloned == [b \in {"b1", "b2"} |-> IF b = "b1" THEN <<>> ELSE <<"commit">>]
MCRecordOf == [q \in {"q1", "q2"} |-> IF q = "q1" THEN "t1" ELSE "t2"]
MCArchiveOf == [q \in {"q1", "q2"} |-> IF q = "q1" THEN "out.tgz" ELSE "out.zip"]
MCSecondOf == [q \in {"q1", "q2"} |-> IF q = "q1" THEN 1 ELSE 2]
MCKind == [q \in {"q1", "q2"} |-> IF q = "q1" THEN "tar" ELSE "zip"]

MCOneSecond == [q \in {"q1", "q2"} |-> 1]
=============================================================================
