------------------------- MODULE MCOrchestrationRuns -------------------------
(* Orchestration runs on small instances. *)
EXTENDS OrchestrationRuns, TLC

CONSTANTS internal, a1

OneInternal == internal :> "S1"

\* The same id again and again.
Repeated == {<<a1, a1, a1>>}

=============================================================================
