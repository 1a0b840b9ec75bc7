--------------------------- MODULE MCWebhookOutbox ---------------------------
(* WebhookOutbox on small instances. *)
EXTENDS WebhookOutbox, TLC

CONSTANTS r1, r2, t1, t2, w1, w2

\* Both records of one tenant, or each of its own.
OneTenant == [r \in Records |-> t1]
TwoTenants == [r \in Records |-> IF r = r1 THEN t1 ELSE t2]

WorkerSymmetry == Permutations(Workers)

=============================================================================
