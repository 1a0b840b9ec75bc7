--------------------------- MODULE MCRebaseEngine ---------------------------
(* The rebase engine on small pairs of versions: one list of every kind. *)
EXTENDS RebaseEngine

OneOfEachKind ==
    {"in_scope", "functional", "policy", "required", "forbidden_actions", "approval_requirements"}
=============================================================================
