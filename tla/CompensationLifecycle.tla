------------------------ MODULE CompensationLifecycle ------------------------
(***************************************************************************)
(* Compensation implements ActionLifecycle: the rows, as the last commit   *)
(* left them, are the actions; what callers read, hold and have not        *)
(* committed is invisible.                                                 *)
(***************************************************************************)
EXTENDS Compensation

Life == INSTANCE ActionLifecycle
            WITH attempts <- attempt_count,
                 permanent <- {a \in Actions : code[a] = "permanent"}

\* Whatever callers interleave, on rows that only the lock_version protects, and
\* whichever call fails or is dropped, the committed rows take one step of the
\* lifecycle at a time: no attempt without its own approval or beyond
\* max_retries, nothing after Executed and Waived, and no dead-letter candidate
\* back in the queue ("DLQ candidates cannot be reapproved").
ImplementsLifecycle == Life!Spec
=============================================================================
