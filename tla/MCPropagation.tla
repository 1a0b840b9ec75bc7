---------------------------- MODULE MCPropagation ----------------------------
(* One system with two subscriptions, and two applies of an older or a newer version. *)
EXTENDS Propagation
CONSTANTS s1, u1, u2, a1, a2
=============================================================================
