-------------------------- MODULE MCIntentApprovals --------------------------
(* IntentApprovals on small instances. *)
EXTENDS IntentApprovals, TLC

Symmetry == Permutations(Handlers) \union Permutations(Requests)

=============================================================================
