--------------------------- MODULE MCCompensation ---------------------------
(* Compensation on small instances. *)
EXTENDS CompensationLifecycle, TLC

CONSTANTS read, internal, external, notice, final

\* A side effect of each class.
AllClasses == (read :> "S0") @@ (internal :> "S1") @@ (external :> "S2")
              @@ (notice :> "S3") @@ (final :> "S4")

Symmetry == Permutations(Callers) \union Permutations(Actions)

=============================================================================
