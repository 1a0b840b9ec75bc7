--------------------------- MODULE ActionLifecycle ---------------------------
(***************************************************************************)
(* What the compensation service promises of an action, without callers,   *)
(* transactions, versions or faults: each action moves on its own, one     *)
(* legal transition at a time; every attempt has an approval of its own    *)
(* and a place in the budget; and a failure goes back to Pending only if   *)
(* it is not permanent and leaves budget for another attempt.              *)
(***************************************************************************)
EXTENDS Naturals

CONSTANTS
    Actions,
    MaxRetries  \* attempts an action has

VARIABLES
    status,
    attempts,   \* executions of each action
    permanent   \* actions whose last attempt failed for good

vars == <<status, attempts, permanent>>

Init ==
    /\ status = [a \in Actions |-> "absent"]
    /\ attempts = [a \in Actions |-> 0]
    /\ permanent = {}

Move(a, from, to) == status[a] = from /\ status' = [status EXCEPT ![a] = to]

Plan(a) == Move(a, "absent", "pending") /\ UNCHANGED <<attempts, permanent>>

Decide(a) ==
    /\ Move(a, "pending", "approved") \/ Move(a, "pending", "waived")
    /\ UNCHANGED <<attempts, permanent>>

\* Executed at once or not at all; the outcome replaces that of the last attempt.
Attempt(a) ==
    /\ attempts[a] < MaxRetries
    /\ attempts' = [attempts EXCEPT ![a] = @ + 1]
    /\ \/ Move(a, "approved", "executed") /\ permanent' = permanent \ {a}
       \/ /\ Move(a, "approved", "failed")
          /\ permanent' \in {permanent \ {a}, permanent \union {a}}

Retry(a) ==
    /\ Move(a, "failed", "pending")
    /\ attempts[a] < MaxRetries /\ a \notin permanent
    /\ UNCHANGED <<attempts, permanent>>

Next == \E a \in Actions : Plan(a) \/ Decide(a) \/ Attempt(a) \/ Retry(a)

Spec == Init /\ [][Next]_vars
=============================================================================
