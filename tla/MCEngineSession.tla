-------------------------- MODULE MCEngineSession --------------------------
(* Instances of EngineSession for TLC. *)
EXTENDS EngineSession, TLC

\* Ids and jobs are interchangeable: no action compares or orders them.
IdsAndJobs == Permutations(Ids) \cup Permutations(Jobs)
=============================================================================
