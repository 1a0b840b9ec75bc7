----------------------------- MODULE Propagation -----------------------------
(***************************************************************************)
(* Telling downstream systems of an applied rebase: the propagation        *)
(* records, the webhook subscriptions, and the dispatch that every         *)
(* proceeding rebase-apply runs at its end, inside its own request.        *)
(*                                                                         *)
(* One intent of one tenant, on PostgreSQL.  A record is the row of one    *)
(* downstream system (the table is unique on it).  Every statement is a    *)
(* transaction of its own; none is guarded by lock_version.  Rows come     *)
(* back in an order nothing here depends on, so a loop over them picks any *)
(* row that is left.  No caller passes an outbox to the dispatch (module   *)
(* WebhookOutbox has the worker that would drain it).                      *)
(***************************************************************************)
EXTENDS Naturals, FiniteSets

CONSTANTS
    Systems,       \* downstream systems
    Subs,          \* webhook subscriptions
    Applies,       \* rebase-applies that proceed
    Versions,      \* the versions they apply
    MaxAttempts,   \* WEBHOOK_MAX_ATTEMPTS
    MaxFaults,     \* bound: failed statements
    MaxEdits       \* bound: changes of subscriptions

None == "none"

ASSUME PropagationAssumption ==
    /\ None \notin Systems \union Subs /\ Versions \subseteq Nat \ {0}
    /\ MaxAttempts \in Nat \ {0} /\ {MaxFaults, MaxEdits} \subseteq Nat

VARIABLES
    rec,       \* propagation_records: each system's row
    sub,       \* webhook_subscriptions
    apply,     \* the dispatches
    delivery,  \* how the service was configured
    received,  \* history: versions each system has been given
    posts,     \* history: requests sent to each system
    excused,   \* history: systems some apply signalled and will not report on
    faults, edits

vars == <<rec, sub, apply, delivery, received, posts, excused, faults, edits>>

PropagationStatuses == {"pending", "acknowledged", "failed"}
SubStatuses == {"active", "deleted"}   \* paused and disabled are stored like deleted
PCs == {"idle", "list", "signal", "list_again", "resolve", "attempt", "send", "outcome", "done"}

\* WEBHOOK delivery switched off, no pool for the resolver, or both present.
Deliveries == {"off", "no_resolver", "on"}

\* lock_version is counted up by every update and compared by none.
PropagationRecord == [exists : BOOLEAN, status : PropagationStatuses,
                      last_seen_version : {0} \union Versions, failed : BOOLEAN,
                      delivery_attempt_count : Nat]

NewRecord == [exists |-> TRUE, status |-> "pending", last_seen_version |-> 0,
              failed |-> FALSE, delivery_attempt_count |-> 0]

NoRecord == [NewRecord EXCEPT !.exists = FALSE]

NoSub == [exists |-> FALSE, system |-> None, status |-> "active"]

Idle == [pc |-> "idle", version |-> 0, todo |-> {}, known |-> {}, queue |-> {},
         system |-> None, attempt |-> 0, success |-> FALSE]

PropagationTypeOK ==
    /\ rec \in [Systems -> PropagationRecord]
    /\ sub \in [Subs -> [exists : BOOLEAN, system : Systems \union {None}, status : SubStatuses]]
    /\ apply \in [Applies -> [pc : PCs, version : {0} \union Versions, todo : SUBSET Systems,
                              known : SUBSET Systems,
                              queue : SUBSET [id : Subs, system : Systems \union {None}],
                              system : Systems \union {None}, attempt : 0..MaxAttempts,
                              success : BOOLEAN]]
    /\ \A a \in Applies : apply[a].pc \in {"send", "outcome"} => rec[apply[a].system].exists
    /\ delivery \in Deliveries /\ received \in [Systems -> SUBSET Versions]
    /\ posts \in [Systems -> Nat] /\ excused \subseteq Systems
    /\ faults \in 0..MaxFaults /\ edits \in 0..MaxEdits

Init ==
    /\ rec = [s \in Systems |-> NoRecord] /\ sub = [u \in Subs |-> NoSub]
    /\ apply = [a \in Applies |-> Idle] /\ delivery \in Deliveries
    /\ received = [s \in Systems |-> {}] /\ posts = [s \in Systems |-> 0]
    /\ excused = {} /\ faults = 0 /\ edits = 0

Fault == faults < MaxFaults /\ faults' = faults + 1

At(a, pc) == apply[a].pc = pc

-----------------------------------------------------------------------------
(* Registering systems and subscriptions. *)

\* POST propagation-signals: a second signal for a system violates the
\* table's uniqueness and changes nothing.
IngestSignal(s) ==
    /\ ~rec[s].exists
    /\ rec' = [rec EXCEPT ![s] = NewRecord]
    /\ UNCHANGED <<sub, apply, delivery, received, posts, excused, faults, edits>>

Edit == edits < MaxEdits /\ edits' = edits + 1

\* POST webhooks/subscriptions: the system is optional and is not checked.
CreateSubscription(u) ==
    /\ Edit /\ ~sub[u].exists
    /\ \E s \in Systems \union {None} :
        sub' = [sub EXCEPT ![u] = [exists |-> TRUE, system |-> s, status |-> "active"]]
    /\ UNCHANGED <<rec, apply, delivery, received, posts, excused, faults>>

\* PATCH: the statement numbers its parameters by field ($3 the URL, $4 the
\* system, $5 the status) and binds only the given ones, so it is valid only
\* when the given fields are the first ones: a status goes with a system.
UpdateSubscription(u) ==
    /\ Edit /\ sub[u].exists
    /\ \E s \in Systems \union {None}, st \in SubStatuses, given \in {2, 3} :
        sub' = [sub EXCEPT ![u].system = s, ![u].status = IF given = 3 THEN st ELSE @]
    /\ UNCHANGED <<rec, apply, delivery, received, posts, excused, faults>>

\* DELETE only marks the row.
DeleteSubscription(u) ==
    /\ Edit /\ sub[u].exists
    /\ sub' = [sub EXCEPT ![u].status = "deleted"]
    /\ UNCHANGED <<rec, apply, delivery, received, posts, excused, faults>>

-----------------------------------------------------------------------------
(* Signalling: every record is reset to pending, at the new version. *)

\* The apply has committed and signalled the runtime (module ApplyPipeline).
Proceed(a) ==
    /\ At(a, "idle")
    /\ \E v \in Versions : apply' = [apply EXCEPT ![a].pc = "list", ![a].version = v]
    /\ UNCHANGED <<rec, sub, delivery, received, posts, excused, faults, edits>>

Recorded == {s \in Systems : rec[s].exists}

\* list_by_intent; no record, nobody to tell.
ListRecords(a) ==
    /\ At(a, "list")
    /\ apply' = [apply EXCEPT ![a].todo = Recorded,
                              ![a].pc = IF Recorded = {} THEN "done" ELSE "signal"]
    /\ UNCHANGED <<rec, sub, delivery, received, posts, excused, faults, edits>>

\* What follows the signals of a, when todo is what is left of them.
AfterSignals(todo) ==
    IF todo # {} THEN "signal" ELSE IF delivery = "off" THEN "done" ELSE "list_again"

\* update_status: unguarded; the last failure's reason stays.
Resignalled(row, v) ==
    [row EXCEPT !.status = "pending", !.last_seen_version = v]

SignalRecord(a) ==
    /\ At(a, "signal")
    /\ \E s \in apply[a].todo :
        LET todo == apply[a].todo \ {s}
        IN  /\ rec' = [rec EXCEPT ![s] = Resignalled(@, apply[a].version)]
            /\ apply' = [apply EXCEPT ![a].todo = todo, ![a].pc = AfterSignals(todo)]
            /\ excused' = IF delivery = "off" THEN excused \union {s} ELSE excused
    /\ UNCHANGED <<sub, delivery, received, posts, faults, edits>>

\* A failed update is counted and the loop goes on.
SignalFails(a) ==
    /\ At(a, "signal") /\ Fault
    /\ \E s \in apply[a].todo :
        LET todo == apply[a].todo \ {s}
        IN  apply' = [apply EXCEPT ![a].todo = todo, ![a].pc = AfterSignals(todo)]
    /\ UNCHANGED <<rec, sub, delivery, received, posts, excused, edits>>

-----------------------------------------------------------------------------
(* Dispatch: one subscription after the other, retries included. *)

ListAgain(a) ==
    /\ At(a, "list_again")
    /\ apply' = [apply EXCEPT ![a].pc = "resolve", ![a].known = Recorded]
    /\ UNCHANGED <<rec, sub, delivery, received, posts, excused, faults, edits>>

\* The SQL resolver takes every row of the intent, whatever its status, event
\* types and attempts; without a pool the resolver is the empty one.
Resolved ==
    IF delivery = "on"
    THEN {[id |-> u, system |-> sub[u].system] : u \in {v \in Subs : sub[v].exists}}
    ELSE {}

Resolve(a) ==
    /\ At(a, "resolve")
    /\ apply' = [apply EXCEPT ![a].pc = IF Resolved = {} THEN "done" ELSE "attempt",
                              ![a].queue = Resolved]
    /\ excused' = excused \union (Systems \ {q.system : q \in Resolved})
    /\ UNCHANGED <<rec, sub, delivery, received, posts, faults, edits>>

\* Any of the three lists fails: the dispatch is given up with a warning.
ListFails(a) ==
    /\ \E pc \in {"list", "list_again", "resolve"} : At(a, pc)
    /\ Fault
    /\ apply' = [apply EXCEPT ![a].pc = "done"]
    /\ excused' = Systems
    /\ UNCHANGED <<rec, sub, delivery, received, posts, edits>>

\* Mutants: the loop ends at the first subscription; or never sees its end.
AfterOneStops(queue) == "done"
AfterOneLoops(queue) == "attempt"

\* Where the loop over the subscriptions stands when queue is left.
AfterOne(queue) == IF queue = {} THEN "done" ELSE "attempt"

\* A subscription without a record of its system is skipped; otherwise
\* record_delivery_attempt counts the attempt before anything is sent.
RecordAttempt(a) ==
    /\ At(a, "attempt")
    /\ \E q \in apply[a].queue :
        LET queue == apply[a].queue \ {q}
        IN  IF q.system \in apply[a].known
            THEN /\ rec' = [rec EXCEPT ![q.system].delivery_attempt_count = @ + 1]
                 /\ apply' = [apply EXCEPT ![a].pc = "send", ![a].queue = queue,
                                           ![a].system = q.system, ![a].attempt = 1]
                 /\ UNCHANGED excused
            ELSE /\ apply' = [apply EXCEPT ![a].queue = queue, ![a].pc = AfterOne(queue)]
                 /\ excused' = excused \union ({q.system} \ {None})
                 /\ UNCHANGED rec
    /\ UNCHANGED <<sub, delivery, received, posts, faults, edits>>

AttemptFails(a) ==
    /\ At(a, "attempt") /\ Fault
    /\ \E q \in apply[a].queue :
        LET queue == apply[a].queue \ {q}
        IN  /\ apply' = [apply EXCEPT ![a].queue = queue, ![a].pc = AfterOne(queue)]
            /\ excused' = excused \union ({q.system} \ {None})
    /\ UNCHANGED <<rec, sub, delivery, received, posts, edits>>

\* classify_status_code, and a request whose answer never came.
Answers == {"success", "rate_limited", "retryable", "non_retryable", "network"}
Retried == {"rate_limited", "retryable", "network"}

\* After answer n: the ladder stops at a success, a definite failure, the last
\* attempt, or (late) when the next delay would pass the total duration.
LadderEnds(answer, n, late) == answer \notin Retried \/ n >= MaxAttempts \/ late

\* One round of send_webhook_with_retries.  The system has the version when it
\* says so, and may have it when its answer is lost.
Send(a) ==
    LET s == apply[a].system
        n == apply[a].attempt
    IN  /\ At(a, "send")
        /\ posts' = [posts EXCEPT ![s] = @ + 1]
        /\ \E answer \in Answers, late \in BOOLEAN, arrived \in BOOLEAN :
            /\ arrived = (answer = "success") \/ answer = "network"
            /\ received' = [received EXCEPT ![s] =
                                @ \union (IF arrived THEN {apply[a].version} ELSE {})]
            /\ apply' = IF LadderEnds(answer, n, late)
                        THEN [apply EXCEPT ![a].pc = "outcome", ![a].success = answer = "success"]
                        ELSE [apply EXCEPT ![a].attempt = n + 1]
        /\ UNCHANGED <<rec, sub, delivery, excused, faults, edits>>

\* Mutant: an exhausted ladder counts as delivered.
SettledOptimistic(row, success) ==
    [row EXCEPT !.status = "acknowledged", !.failed = FALSE]

\* record_delivery_outcome: unguarded; last_seen_version is left alone.
Settled(row, success) ==
    [row EXCEPT !.status = IF success THEN "acknowledged" ELSE "failed",
                !.failed = ~success]

\* The current subscription is finished.
Next1(a) == [apply EXCEPT ![a] = [@ EXCEPT !.pc = AfterOne(apply[a].queue), !.system = None,
                                           !.attempt = 0, !.success = FALSE]]

RecordOutcome(a) ==
    /\ At(a, "outcome")
    /\ rec' = [rec EXCEPT ![apply[a].system] = Settled(@, apply[a].success)]
    /\ apply' = Next1(a)
    /\ UNCHANGED <<sub, delivery, received, posts, excused, faults, edits>>

\* The answer is known and is not stored.
OutcomeFails(a) ==
    /\ At(a, "outcome") /\ Fault
    /\ apply' = Next1(a) /\ excused' = excused \union {apply[a].system}
    /\ UNCHANGED <<rec, sub, delivery, received, posts, edits>>

\* The handler's future is dropped at an await (the client hangs up, or the
\* process stops): nothing takes the dispatch up again.
Dropped(a) ==
    /\ \E pc \in PCs \ {"idle", "done"} : At(a, pc)
    /\ Fault
    /\ apply' = [apply EXCEPT ![a] = [Idle EXCEPT !.pc = "done"]]
    /\ excused' = Systems
    /\ UNCHANGED <<rec, sub, delivery, received, posts, edits>>

-----------------------------------------------------------------------------

DispatchStep(a) ==
    \/ ListRecords(a) \/ SignalRecord(a) \/ ListAgain(a) \/ Resolve(a)
    \/ RecordAttempt(a) \/ Send(a) \/ RecordOutcome(a)

Next ==
    \/ \E s \in Systems : IngestSignal(s)
    \/ \E u \in Subs : CreateSubscription(u) \/ UpdateSubscription(u) \/ DeleteSubscription(u)
    \/ \E a \in Applies :
        \/ Proceed(a) \/ DispatchStep(a) \/ SignalFails(a) \/ ListFails(a)
        \/ AttemptFails(a) \/ OutcomeFails(a) \/ Dropped(a)

Spec == Init /\ [][Next]_vars

\* A request that is not dropped is polled until it is answered.
FairSpec == Spec /\ \A a \in Applies : WF_vars(DispatchStep(a))

-----------------------------------------------------------------------------
(* Properties. *)

\* Apply a has signalled s or is about to, and will still report on s.
WillReport(a, s) ==
    \/ At(a, "signal") \/ At(a, "list_again") \/ At(a, "resolve")
    \/ (At(a, "attempt") \/ At(a, "send") \/ At(a, "outcome"))
       /\ s \in {apply[a].system} \union {q.system : q \in apply[a].queue}

(* A system that was signalled is not forgotten: while its record says        *)
(* pending, an apply in flight will still record an outcome for it, unless     *)
(* some apply lost its turn to an error, a dropped request, or the absence of  *)
(* a subscription.  The signals of one apply (propagation_signals.rs) race the *)
(* outcomes of another (webhook_delivery.rs).                                  *)
NotForgotten ==
    \A s \in Systems :
        (rec[s].exists /\ rec[s].status = "pending" /\ rec[s].last_seen_version # 0)
            => s \in excused \/ \E a \in Applies : WillReport(a, s)

(* A status is never invented: a record is acknowledged only if its system     *)
(* was given some version, carries a failure only if a request was sent, and   *)
(* every request belongs to an attempt counted before it was sent, of which    *)
(* the ladder makes at most WEBHOOK_MAX_ATTEMPTS.                               *)
StatusEarned ==
    \A s \in Systems :
        /\ posts[s] # 0 => rec[s].exists
        /\ rec[s].exists =>
            /\ rec[s].status = "acknowledged" => received[s] # {}
            /\ rec[s].failed => posts[s] # 0
            /\ posts[s] <= MaxAttempts * rec[s].delivery_attempt_count

(* Every apply that proceeds gets through its dispatch, whatever the systems   *)
(* answer: the retries of one subscription never hold up the rest for good.    *)
EveryDispatchEnds == \A a \in Applies : At(a, "list") ~> At(a, "done")

(* propagation_record.rs: "Acknowledged" is "Downstream system confirmed       *)
(* receipt", and last_seen_version is the "Last intent version the downstream  *)
(* system has processed".  The outcome of an older apply settles the record a  *)
(* newer one has just reset.                                                   *)
AcknowledgedVersionReceived ==
    \A s \in Systems :
        (rec[s].exists /\ rec[s].status = "acknowledged")
            => rec[s].last_seen_version \in received[s]
=============================================================================
