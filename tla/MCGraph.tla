------------------------------ MODULE MCGraph ------------------------------
(* The dependency graph on small instances. *)
EXTENDS GraphQueries, TLC

CONSTANTS r1, r2, k, s1, s2

\* PropagationConfig's default and a narrower one; its targets and all types.
DefaultFollow == {"DependsOn", "Triggers", "GeneratedFrom", "ValidatedBy"}
OneFollow == {DefaultFollow}
DefaultTargets == {"Artifact", "Approval", "SideEffect", "Generic"}
OneFilter == {DefaultTargets}

\* Used where no traversal runs.
Symmetry == Permutations(Requests) \union Permutations(Scopes)

=============================================================================
