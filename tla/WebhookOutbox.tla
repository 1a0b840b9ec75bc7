---------------------------- MODULE WebhookOutbox ----------------------------
(***************************************************************************)
(* The webhook outbox of intent-api: the table webhook_outbox, the polling *)
(* workers that claim, dispatch and settle its records, and the dead-letter*)
(* endpoints that put failed records back.                                 *)
(*                                                                         *)
(* Every repository call is one SQL statement, hence one step; a worker    *)
(* can be interrupted between any two of them.  lock_version is left out:  *)
(* every statement increments it and no statement of this component reads  *)
(* it.  locked_by is left out for the same reason (all workers write the   *)
(* same constant).                                                         *)
(***************************************************************************)
EXTENDS Integers, FiniteSets, Sequences

CONSTANTS
    Records,      \* ids of outbox records
    NoRecord,
    Tenants,
    TenantOf,     \* the tenant of every record
    Workers,      \* worker tasks, one per process that shares the database
    MaxAttempts,  \* max_attempts of a record (3 in the code)
    BatchSize,    \* LIMIT of list_pending
    Delays,       \* the values compute_backoff_delay may return
    MaxTime,      \* bound: ticks of the clock
    MaxReplays,   \* bound: dead-letter replays of one record
    MaxFaults,    \* bound: worker crashes and failed repository calls
    Stoppable     \* the workers whose shutdown() may be called

ASSUME ConstantsAssumption ==
    /\ NoRecord \notin Records
    /\ TenantOf \in [Records -> Tenants]
    /\ MaxAttempts \in Nat \ {0}
    /\ BatchSize \in Nat \ {0}
    /\ Delays \subseteq Nat
    /\ MaxTime \in Nat /\ MaxReplays \in Nat /\ MaxFaults \in Nat
    /\ Stoppable \subseteq Workers

VARIABLES
    status, attempt_count, scheduled_at, replay_count,   \* the table
    pc, tenants, batch, current, claimed, result,        \* a worker's locals
    shutdown,     \* the watch channel of each worker's handle
    bulk,         \* records a running bulk_replay_dlq still has to replay
    now,
    faults,       \* faults so far
    posts, acks   \* history: POSTs of a record since it was created or last
                  \* replayed, and the 2xx answers it ever got

table  == <<status, attempt_count, scheduled_at, replay_count>>
locals == <<pc, tenants, batch, current, claimed, result>>
ghosts == <<posts, acks>>
vars   == <<table, locals, shutdown, bulk, now, faults, ghosts>>

Statuses == {"absent", "pending", "claimed", "delivered", "failed"}
PCs      == {"idle", "tenants", "items", "dispatch", "settle", "stopped"}
Outcomes == {"ok", "retryable", "terminal"}

Busy(w) == pc[w] \in {"dispatch", "settle"}

TypeOK ==
    /\ status \in [Records -> Statuses]
    /\ attempt_count \in [Records -> 0 .. MaxAttempts - 1]
    /\ scheduled_at \in [Records -> Nat]
    /\ replay_count \in [Records -> Nat]
    /\ pc \in [Workers -> PCs]
    /\ tenants \in [Workers -> SUBSET Tenants]
    /\ batch \in [Workers -> Seq(Records)]
    /\ current \in [Workers -> Records \union {NoRecord}]
    /\ claimed \in [Workers -> Nat]
    /\ result \in [Workers -> Outcomes]
    /\ shutdown \in [Workers -> BOOLEAN]
    /\ bulk \subseteq Records
    /\ now \in Nat /\ faults \in Nat
    /\ posts \in [Records -> Nat] /\ acks \in [Records -> Nat]

Init ==
    /\ status = [r \in Records |-> "absent"]
    /\ attempt_count = [r \in Records |-> 0]
    /\ scheduled_at = [r \in Records |-> 0]
    /\ replay_count = [r \in Records |-> 0]
    /\ pc = [w \in Workers |-> "idle"]
    /\ tenants = [w \in Workers |-> {}]
    /\ batch = [w \in Workers |-> <<>>]
    /\ current = [w \in Workers |-> NoRecord]
    /\ claimed = [w \in Workers |-> 0]
    /\ result = [w \in Workers |-> "ok"]
    /\ shutdown = [w \in Workers |-> FALSE]
    /\ bulk = {}
    /\ now = 0 /\ faults = 0
    /\ posts = [r \in Records |-> 0] /\ acks = [r \in Records |-> 0]

-----------------------------------------------------------------------------
(* The repository's queries. *)

Pending(t) == {r \in Records : TenantOf[r] = t /\ status[r] = "pending"}

Failed(t) == {r \in Records : TenantOf[r] = t /\ status[r] = "failed"}

PendingTenants == {TenantOf[r] : r \in {q \in Records : status[q] = "pending"}}

\* list_pending: ordered by scheduled_at, the oldest BatchSize of them.  The
\* tie-break on the random id is any order.  A record whose scheduled_at is in
\* the future is listed too.
ListPending(t) ==
    {s \in UNION {[1 .. n -> Pending(t)] : n \in 0 .. BatchSize} :
        /\ \A i, j \in DOMAIN s : 
              i < j => s[i] # s[j] /\ scheduled_at[s[i]] <= scheduled_at[s[j]]
        /\ \A r \in Pending(t) :
              \/ \E i \in DOMAIN s : s[i] = r
              \/ /\ Len(s) = BatchSize
                 /\ \A i \in DOMAIN s : scheduled_at[s[i]] <= scheduled_at[r]}

\* list_failed, up to the caller's limit (at most BULK_REPLAY_HARD_CAP).
ListFailed(t) == {S \in SUBSET Failed(t) : 
                    Cardinality(S) = BatchSize \/ S = Failed(t)}

-----------------------------------------------------------------------------
(* The repository's updates; only claim and replay_failed look at status. *)

Create(r) ==
    /\ status[r] = "absent"
    /\ status' = [status EXCEPT ![r] = "pending"]
    /\ scheduled_at' = [scheduled_at EXCEPT ![r] = now]
    /\ UNCHANGED <<attempt_count, replay_count, locals, shutdown, bulk, now,
                   faults, ghosts>>

\* Mutant: an UPDATE without AND status = 'pending'.
MarkClaimedUnguarded(r) ==
    /\ status' = [status EXCEPT ![r] = "claimed"]
    /\ UNCHANGED <<attempt_count, scheduled_at, replay_count>>

MarkClaimed(r) ==
    /\ status[r] = "pending"
    /\ status' = [status EXCEPT ![r] = "claimed"]
    /\ UNCHANGED <<attempt_count, scheduled_at, replay_count>>

MarkDelivered(r) ==
    /\ status' = [status EXCEPT ![r] = "delivered"]
    /\ UNCHANGED <<attempt_count, scheduled_at, replay_count>>

MarkFailed(r) ==
    /\ status' = [status EXCEPT ![r] = "failed"]
    /\ UNCHANGED <<attempt_count, scheduled_at, replay_count>>

\* Mutant: the status is not set back.
RescheduleKeepingClaim(r, at) ==
    /\ attempt_count' = [attempt_count EXCEPT ![r] = @ + 1]
    /\ scheduled_at' = [scheduled_at EXCEPT ![r] = at]
    /\ UNCHANGED <<status, replay_count>>

RescheduleRetry(r, at) ==
    /\ status' = [status EXCEPT ![r] = "pending"]
    /\ attempt_count' = [attempt_count EXCEPT ![r] = @ + 1]
    /\ scheduled_at' = [scheduled_at EXCEPT ![r] = at]
    /\ UNCHANGED replay_count

\* Mutant: an UPDATE without AND status = 'failed'.
ReplayUnguarded(r) ==
    /\ status[r] # "absent"
    /\ status' = [status EXCEPT ![r] = "pending"]
    /\ attempt_count' = [attempt_count EXCEPT ![r] = 0]
    /\ scheduled_at' = [scheduled_at EXCEPT ![r] = now]
    /\ replay_count' = [replay_count EXCEPT ![r] = @ + 1]
    /\ posts' = [posts EXCEPT ![r] = 0] /\ UNCHANGED acks

ReplayFailed(r) ==
    /\ status[r] = "failed"
    /\ status' = [status EXCEPT ![r] = "pending"]
    /\ attempt_count' = [attempt_count EXCEPT ![r] = 0]
    /\ scheduled_at' = [scheduled_at EXCEPT ![r] = now]
    /\ replay_count' = [replay_count EXCEPT ![r] = @ + 1]
    /\ posts' = [posts EXCEPT ![r] = 0] /\ UNCHANGED acks

-----------------------------------------------------------------------------
(* The dead-letter endpoints. *)

ReplayDlq(r) ==
    /\ replay_count[r] < MaxReplays
    /\ ReplayFailed(r)
    /\ UNCHANGED <<locals, shutdown, bulk, now, faults>>

\* bulk_replay_dlq lists first and replays one by one: the list goes stale.
BulkReplayList(t) ==
    /\ bulk = {}
    /\ bulk' \in ListFailed(t) \ {{}}
    /\ UNCHANGED <<table, locals, shutdown, now, faults, ghosts>>

BulkReplayStep(r) ==
    /\ r \in bulk
    /\ bulk' = bulk \ {r}
    /\ \/ replay_count[r] < MaxReplays /\ ReplayFailed(r)
       \/ status[r] # "failed" /\ UNCHANGED <<table, ghosts>>      \* skipped
    /\ UNCHANGED <<locals, shutdown, now, faults>>

\* The bound on replays also ends a bulk request.
BulkReplayBound(r) ==
    /\ r \in bulk
    /\ status[r] = "failed" /\ replay_count[r] = MaxReplays
    /\ bulk' = bulk \ {r}
    /\ UNCHANGED <<table, locals, shutdown, now, faults, ghosts>>

-----------------------------------------------------------------------------
(* A worker's loop.  "idle" is the top of the loop, which the poll interval *)
(* also leads to. *)

\* list_distinct_pending_tenants; a failed query yields no tenants.
StartPass(w) ==
    /\ pc[w] = "idle" /\ ~shutdown[w]
    /\ PendingTenants # {}
    /\ tenants' = [tenants EXCEPT ![w] = PendingTenants]
    /\ pc' = [pc EXCEPT ![w] = "tenants"]
    /\ UNCHANGED <<table, batch, current, claimed, result, shutdown, bulk, now,
                   faults, ghosts>>

\* Mutant: the shutdown signal aborts the task wherever it is.
StopByAbort(w) ==
    /\ shutdown[w] /\ pc[w] # "stopped"
    /\ pc' = [pc EXCEPT ![w] = "stopped"]
    /\ UNCHANGED <<table, tenants, batch, current, claimed, result, shutdown,
                   bulk, now, faults, ghosts>>

Stop(w) ==
    /\ pc[w] = "idle" /\ shutdown[w]
    /\ pc' = [pc EXCEPT ![w] = "stopped"]
    /\ UNCHANGED <<table, tenants, batch, current, claimed, result, shutdown,
                   bulk, now, faults, ghosts>>

\* process_once up to its list_pending.
NextTenant(w, t) ==
    /\ pc[w] = "tenants" /\ t \in tenants[w] /\ ~shutdown[w]
    /\ tenants' = [tenants EXCEPT ![w] = @ \ {t}]
    /\ \E s \in ListPending(t) : batch' = [batch EXCEPT ![w] = s]
    /\ pc' = [pc EXCEPT ![w] = "items"]
    /\ UNCHANGED <<table, current, claimed, result, shutdown, bulk, now,
                   faults, ghosts>>

\* No tenant left, or the shutdown signal seen between two tenants.
EndPass(w) ==
    /\ pc[w] = "tenants"
    /\ tenants[w] = {} \/ shutdown[w]
    /\ tenants' = [tenants EXCEPT ![w] = {}]
    /\ pc' = [pc EXCEPT ![w] = "idle"]
    /\ UNCHANGED <<table, batch, current, claimed, result, shutdown, bulk, now,
                   faults, ghosts>>

\* The claim statement applied; its RETURNING row gives the attempt count the
\* rest of the iteration uses.
Claim(w) ==
    /\ pc[w] = "items" /\ batch[w] # <<>>
    /\ LET r == Head(batch[w]) IN
        /\ MarkClaimed(r)
        /\ current' = [current EXCEPT ![w] = r]
        /\ claimed' = [claimed EXCEPT ![w] = attempt_count[r]]
    /\ batch' = [batch EXCEPT ![w] = Tail(@)]
    /\ pc' = [pc EXCEPT ![w] = "dispatch"]
    /\ UNCHANGED <<tenants, result, shutdown, bulk, now, faults, ghosts>>

\* Another worker claimed, settled or replaced it since the list: skip it.
ClaimRefused(w) ==
    /\ pc[w] = "items" /\ batch[w] # <<>>
    /\ status[Head(batch[w])] # "pending"
    /\ batch' = [batch EXCEPT ![w] = Tail(@)]
    /\ UNCHANGED <<table, pc, tenants, current, claimed, result, shutdown, bulk,
                   now, faults, ghosts>>

EndBatch(w) ==
    /\ pc[w] = "items" /\ batch[w] = <<>>
    /\ pc' = [pc EXCEPT ![w] = "tenants"]
    /\ UNCHANGED <<table, tenants, batch, current, claimed, result, shutdown,
                   bulk, now, faults, ghosts>>

\* dispatch: the POST and the classification of its answer.  A terminal
\* failure may precede the POST (no URL, signing error); a retryable one may
\* follow a POST the endpoint received (a timeout).
Dispatch(w) ==
    /\ pc[w] = "dispatch"
    /\ \E o \in Outcomes, posted \in BOOLEAN :
        /\ o = "ok" => posted
        /\ result' = [result EXCEPT ![w] = o]
        /\ posts' = IF posted THEN [posts EXCEPT ![current[w]] = @ + 1] ELSE posts
        /\ acks' = IF o = "ok" THEN [acks EXCEPT ![current[w]] = @ + 1] ELSE acks
    /\ pc' = [pc EXCEPT ![w] = "settle"]
    /\ UNCHANGED <<table, tenants, batch, current, claimed, shutdown, bulk, now,
                   faults>>

\* The loop body's locals go out of scope.
EndIteration(w) ==
    /\ current' = [current EXCEPT ![w] = NoRecord]
    /\ claimed' = [claimed EXCEPT ![w] = 0]
    /\ result' = [result EXCEPT ![w] = "ok"]

\* Mutant: off by one.
ExhaustedLate(count) == count >= MaxAttempts

Exhausted(count) == count + 1 >= MaxAttempts

\* The match on the dispatch result: the statement it leads to.
Settle(w) ==
    /\ pc[w] = "settle"
    /\ LET r == current[w]
           exhausted == Exhausted(claimed[w])
       IN  \/ result[w] = "ok" /\ MarkDelivered(r)
           \/ result[w] = "retryable" /\ exhausted /\ MarkFailed(r)
           \/ /\ result[w] = "retryable" /\ ~exhausted
              /\ \E d \in Delays : RescheduleRetry(r, now + d)
           \/ result[w] = "terminal" /\ MarkFailed(r)
    /\ EndIteration(w)
    /\ pc' = [pc EXCEPT ![w] = "items"]
    /\ UNCHANGED <<tenants, batch, shutdown, bulk, now, faults, ghosts>>

-----------------------------------------------------------------------------
(* Faults: a repository call that returns an error, a process that dies.    *)

Fault == faults < MaxFaults /\ faults' = faults + 1

TenantsError(w) ==
    /\ Fault
    /\ pc[w] = "idle" /\ ~shutdown[w]
    /\ pc' = [pc EXCEPT ![w] = "tenants"]
    /\ UNCHANGED <<table, tenants, batch, current, claimed, result, shutdown,
                   bulk, now, ghosts>>

\* process_once returns the error; the loop goes on with the next tenant.
ListError(w, t) ==
    /\ Fault
    /\ pc[w] = "tenants" /\ t \in tenants[w] /\ ~shutdown[w]
    /\ tenants' = [tenants EXCEPT ![w] = @ \ {t}]
    /\ UNCHANGED <<table, pc, batch, current, claimed, result, shutdown, bulk,
                   now, ghosts>>

\* The claim call fails; the statement may have been applied all the same.
ClaimError(w) ==
    /\ Fault
    /\ pc[w] = "items" /\ batch[w] # <<>>
    /\ MarkClaimed(Head(batch[w])) \/ UNCHANGED table
    /\ batch' = [batch EXCEPT ![w] = Tail(@)]
    /\ UNCHANGED <<pc, tenants, current, claimed, result, shutdown, bulk, now,
                   ghosts>>

\* The settling call fails without effect: logged, and on to the next record.
SettleError(w) ==
    /\ Fault
    /\ pc[w] = "settle"
    /\ EndIteration(w)
    /\ pc' = [pc EXCEPT ![w] = "items"]
    /\ UNCHANGED <<table, tenants, batch, shutdown, bulk, now, ghosts>>

\* The process dies and is started again; the table survives.
Crash(w) ==
    /\ Fault
    /\ pc[w] \notin {"idle", "stopped"}
    /\ pc' = [pc EXCEPT ![w] = "idle"]
    /\ tenants' = [tenants EXCEPT ![w] = {}]
    /\ batch' = [batch EXCEPT ![w] = <<>>]
    /\ EndIteration(w)
    /\ UNCHANGED <<table, shutdown, bulk, now, ghosts>>

Shutdown(w) ==
    /\ w \in Stoppable /\ ~shutdown[w]
    /\ shutdown' = [shutdown EXCEPT ![w] = TRUE]
    /\ UNCHANGED <<table, locals, bulk, now, faults, ghosts>>

Tick ==
    /\ now < MaxTime
    /\ now' = now + 1
    /\ UNCHANGED <<table, locals, shutdown, bulk, faults, ghosts>>

-----------------------------------------------------------------------------
WorkerStep(w) ==
    \/ StartPass(w) \/ Stop(w) \/ EndPass(w)
    \/ Claim(w) \/ ClaimRefused(w) \/ EndBatch(w) \/ Dispatch(w) \/ Settle(w)
    \/ \E t \in Tenants : NextTenant(w, t)

FaultStep(w) ==
    \/ TenantsError(w) \/ ClaimError(w) \/ SettleError(w) \/ Crash(w)
    \/ \E t \in Tenants : ListError(w, t)

Next ==
    \/ \E r \in Records : Create(r) \/ ReplayDlq(r) \/ BulkReplayStep(r)
                          \/ BulkReplayBound(r)
    \/ \E t \in Tenants : BulkReplayList(t)
    \/ \E w \in Workers : WorkerStep(w) \/ FaultStep(w) \/ Shutdown(w)
    \/ Tick

\* A worker task is polled by the runtime until it blocks: it never stops
\* short of its next await while it can move.
Fairness == \A w \in Workers : WF_vars(WorkerStep(w))

Spec == Init /\ [][Next]_vars
FairSpec == Spec /\ Fairness

-----------------------------------------------------------------------------
(* Properties. *)

\* mark_delivered, mark_failed and reschedule_retry are not guarded by status
\* or owner: what makes them safe is that a worker between its claim and its
\* settling call is the only one on a record that is still claimed.
ClaimIsExclusive ==
    \A w \in Workers : Busy(w) =>
        /\ status[current[w]] = "claimed"
        /\ \A v \in Workers \ {w} : Busy(v) => current[v] # current[w]

\* The endpoint acknowledges a record at most once: nothing sends an
\* acknowledged record again, whatever crashes or fails after the 2xx.
AckedAtMostOnce == \A r \in Records : acks[r] <= 1

\* A record is POSTed at most MaxAttempts times per life in the queue, that is
\* between its creation or replay and its settling (exhausted in process_once).
PostsBounded ==
    \A r \in Records : posts[r] <= MaxAttempts

\* A delivered record was acknowledged, and one that left the queue as failed
\* was not: dead-letter replay never re-sends what the endpoint accepted.
SettledAsAnswered ==
    \A r \in Records : /\ status[r] = "delivered" => acks[r] = 1
                       /\ status[r] = "failed" => acks[r] = 0

\* Shutting workers down never strands a record: without faults every claimed
\* record has a worker that will settle it.
NoStrandedClaim ==
    faults = 0 => \A r \in Records : status[r] = "claimed" =>
                      \E w \in Workers : Busy(w) /\ current[w] = r

\* "Final success" (WebhookOutboxStatus::Delivered) is final, for every
\* interleaving of workers, replays and faults.
DeliveredIsFinal ==
    [][\A r \in Records : status[r] = "delivered" => status'[r] = "delivered"]_vars

\* As long as one worker keeps running and no call fails, every record in the
\* queue is settled: delivered, or failed after its last attempt.
EveryRecordSettles ==
    \A r \in Records :
        status[r] = "pending" ~> status[r] \in {"delivered", "failed"} \/ faults > 0

\* "Webhook delivery is at-least-once" (docs/13-adrs/03-external-api.md): every
\* queued record is POSTed, or ends in the dead-letter list.
AtLeastOnce ==
    \A r \in Records :
        status[r] = "pending" ~> (posts[r] > 0 \/ status[r] = "failed")

\* scheduled_at is the "Next scheduled delivery attempt time" (types.rs): no
\* worker dispatches a record ahead of it.
NotBeforeSchedule ==
    \A w \in Workers : pc[w] = "dispatch" => scheduled_at[current[w]] <= now

=============================================================================
