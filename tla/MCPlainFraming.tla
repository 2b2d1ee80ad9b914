--------------------------- MODULE MCPlainFraming ---------------------------
(* The instance the theorem about TraceIsTruth is about. *)
EXTENDS MCTraceFraming

ASSUME InstanceIsPlain == Plain
=============================================================================
