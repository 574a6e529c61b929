--------------------------- MODULE MCEngineClient ---------------------------
(* Instances of EngineClient for TLC. *)
EXTENDS EngineClient, TLC

\* Calls and closers are interchangeable: no action compares or orders them.
CallsAndClosers == Permutations(Calls) \cup Permutations(Closers)
=============================================================================
