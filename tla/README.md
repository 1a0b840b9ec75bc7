# Intent Rebase: TLA+ models, checks and proofs

Intent Rebase keeps versioned *intents*, computes what a new version means for
work already under way, and coordinates approvals, runtime signals and the
compensation of side effects. It is a set of Rust crates around one PostgreSQL
database; HTTP handlers, background workers and spawned tasks run concurrently
(tokio tasks, several processes) and meet in that database, in the connection
pool in front of it, and in a NATS JetStream stream. This directory models the
protocols between them and the pure algorithms they rely on, checks them with TLC
and proves the invariants of all the protocols with TLAPS.

## Inventory

| Part (crate) | State | Operations | Meets whom | What is hard | What makes it correct | Module |
|---|---|---|---|---|---|---|
| Webhook outbox (`intent-api`) | table `webhook_outbox`; worker locals; shutdown channel | create, list, claim, settle, reschedule, replay | several worker processes, dead-letter endpoints | claims without a lease, settling statements without a guard, crash between claim and settle, shutdown | one worker per record, at most one acknowledged POST, bounded attempts, the queue drains | `WebhookOutbox` |
| Intents and versions (`intent-service`) | `intents`, `intent_versions` | create_version on the pool or in an RLS transaction | every handler of the intent; approval requests | optimistic lock on two paths, withdrawal of requests outside the transaction | no lost update; requests for an old version are withdrawn | `IntentApprovals` |
| Approval requests (`intent-service`, `intent-api`) | `approval_requests` | create, approve, reject, expire, withdraw, cancel | reviewers, create_version, trigger_reapproval, rebase_apply | races of decisions and cancellations, several statements per request, failing calls | one decision stands, a reapproval supersedes the old approvals, nothing is revived | `IntentApprovals` |
| rebase_apply, replay (`intent-api`, `rebase-orchestrator`) | graph nodes, their row locks, pool connections | evaluate, align, update the graph, signal, replay, audit, block | each other; the pool; the runtime; checkpoints | transactions that wait for a second connection, row locks in opposite orders, counts of rolled-back updates | nothing is left locked, a report is true, every request is answered | `ApplyPipeline` |
| Checkpoints (`intent-service`) | checkpoints and their status | create, set status, expire, select | alignment | selection among rows that change | best effort when none is ready | `ApplyPipeline` |
| Propagation and webhook delivery (`intent-service`, `intent-api`) | `propagation_records`, `webhook_subscriptions` | ingest, signal all, attempt, outcome; create, edit, delete | concurrent applies; edits of subscriptions | unguarded updates, dispatch in the request's own future, ladder of retries | nobody signalled is forgotten, a status was earned, every dispatch ends | `Propagation` |
| Compensation actions (`compensation-service`, `intent-api`) | `compensation_actions`, `side_effect_rollback_records` | plan, approve, waive, execute, reapprove; single, batch and by runs | operators, batch handlers, orchestration runs | gates on a read, write under an optimistic lock, retry budget, best-effort records in a transaction | the life cycle of an action, truthful records and answers | `Compensation`, `ActionLifecycle` |
| Orchestration runs (`compensation-service`) | `orchestration_runs`; the spawned task | create, start, process an item, store, finish | the actions, operators, other runs | a background task that decides on stale reads, dies, or fails half-way | a run is a caller like any other, its items are true, it ends | `OrchestrationRuns` |
| Events (`intent-api`, `intent-service`) | stream `audit_events`, one durable, prefetch buffers, dead letters | publish, poll, handle, dead-letter, replay, peek | adapters that share the durable, replay and metrics workers | at-most-once acknowledgement, a retried publish, dead letters that match the stream's filter | a message in one place, effects bounded by what was stored, each settles | `EventStream` |
| Graph (`graph-service`) | nodes, edges, side effect ledger | ingest on two paths, create by hand | concurrent ingestions; one idempotency key | node and edges one by one, ledger row of another service | a transaction is all or nothing, one row per key, created means wired | `GraphService` |
| Graph traversals (`graph-service`) | the traversal's queue and answer | classify, reachable, path, cycles | ingestions meanwhile | each read is a statement of its own | the answer lies between two graphs | `GraphQueries` |
| Rebase engine (`rebase-engine`) | none | diff, rules, confidence, class, plan, gate | the apply handler | precedence of rules, keys missing or duplicated, thresholds | the diff is complete; widening and doubt are gated | `RebaseEngine` |
| Forensic bundles (`forensic-service`, `intent-api`) | bundle rows, objects, pool connections | create on two paths, download, replay verification | writers of the evidence; the object store | row and object are written separately, torn reads, second connection | Ready means downloadable, evidence bracketed, replay blames what changed | `Forensics` |
| Audit, tenants, quotas, RLS policies | audit log, tenants | append, begin_with_tenant | everyone | SQL policies | - | connection only |
| HTTP surface, CLI, deployment | none | routing, auth, queries | - | wiring | - | - |

Wiring in `src/crates/intent-api/src/main.rs` that matters for reading the models:

- `IntentService` is built without `with_approval_repo` (constant
  `WithApprovalRepo`) and `CompensationActionService` without a side effect or
  rollback record repository (`WithRollbackRepo`). The models cover the wired
  service too, which the builder methods and tests document.
- The forensic create endpoint gets `InMemoryForensicDataCollector`
  (main.rs:495-496), the verification service the real collector (main.rs:484-490):
  constant `Collectors`.
- Dead letters are published only with `INTENT_API_NATS_FULL_CONSUMER`
  (`FullConsumer`).
- In-memory and SQL repositories of the outbox are both wired
  (main.rs:1152-1182); the statements modelled have the same guards in both.
- No caller passes an outbox to the propagation dispatch, and no handler loads a
  rule pack, activates or expires a checkpoint, or calls `revalidate_nodes`,
  `archive_nodes`, `invalidate_artifacts` or `edge_reevaluation`.

## Plan and where it stands

1. *Done.* `WebhookOutbox`, `IntentApprovals`, `Compensation`: the protocols in
   which concurrent writers meet, with their proofs.
2. *Done.* `ActionLifecycle`, the abstract specification of an action, and the
   refinement `Compensation` => `ActionLifecycle`, checked and proved.
3. *Done.* `OrchestrationRuns`, composing `Compensation` with background tasks;
   the composition refines `Compensation`, checked and proved.
4. *Done.* `ApplyPipeline` with the connection pool, row locks and deadlock
   detection; `Propagation`.
5. *Done.* `EventStream`; `GraphService` and `GraphQueries`; `RebaseEngine`;
   `Forensics`.
6. *Done.* The inductive invariants and safety proofs of `ApplyPipeline`,
   `Propagation`, `GraphService`, `EventStream` and `Forensics`, and what was missing
   of the first two modules; for `Forensics` also what the hashed sections tell.
7. *Done.* The proofs about `RebaseEngine` and its joint with `ApplyPipeline`.
8. *Done.* The traversals of `GraphQueries`: their reference definitions and the
   depth-first search as functions that the provers can reason about, and the proofs
   that every answer lies between two graphs.
9. *Perhaps.* Abstract specifications of an approval request (a register that is
   decided once) and of the outbox (a bounded retrying queue).

## How the modules fit together

```
ActionLifecycle <-refines- CompensationLifecycle -extends- Compensation -extends<- OrchestrationRuns
                                                                             (RunsSpec => Spec)
RebaseEngine (gate) ~ ApplyPipeline (Evaluate) -> Propagation (proceeding requests)
IntentApprovals (blocked requests)  ~ ApplyPipeline (their connections)
GraphService -extends<- GraphQueries
```

`A -extends<- B` means that B EXTENDS A and interleaves its own actions with those
of A. `~` joins two modules that model the same handler from two sides: the gate of
`RebaseEngine` is the table `Evaluate` of `ApplyPipeline`, whose inputs (tier and
class) are free there; what a blocked request does to the approvals is in
`IntentApprovals`, while `ApplyPipeline` has the connections it holds meanwhile.

## Modules

Conventions: one action per statement that other processes can see or be blocked
by; `pc` fields are the handler's next `await`; variables marked *history* in the
modules exist for the properties and are read by no guard. Every module names its
bounds among its CONSTANTS, with `\* bound:`. Each `MC*` module gives constants
their small values, each `*Proofs` module holds the inductive invariant, the
lemmas and the theorems (`CompensationProofs` those of `Compensation`,
`CompensationLifecycle` and `OrchestrationRuns`).

### `WebhookOutbox`

Each repository call is one SQL statement and one step. `status`,
`attempt_count`, `scheduled_at`, `replay_count` are columns; `pc`, `tenants`,
`batch`, `current`, `claimed`, `result` are the locals of a worker; `bulk` is the
list a `bulk_replay_dlq` request works through. The loop of
`maybe_start_webhook_outbox_worker` is `StartPass`, `NextTenant`, `EndPass`, `Stop`;
`process_once` is `Claim`, `ClaimRefused`, `Dispatch`, `Settle`, `EndBatch`. Faults:
a failing list, claim (applied or not) or settle call, and a crash that loses the
locals. `posts` and `acks` are history. The settling statements have no guard, in
the model as in the code: that no two workers settle one record is a theorem, not
a precondition. The column `lock_version` of this table is written and never
compared, and left out.

### `IntentApprovals`

One intent and its approval requests. A handler is on the `pool` path (each
statement commits) or the `tx` path (RLS transaction, READ COMMITTED: its writes
show at the commit and hold row locks until then). `create_version` is
`ReadIntent`, `CreateVersionWithOcc` or `CreateVersionWithTx`,
`CancelPendingByIntent` (on the pool on both paths, as in the code),
`CommitVersion`. `trigger_reapproval` and a blocked `rebase_apply` are
`AskApproval`, `CreateApprovalRequest`, `ListByIntent`, `CancelApprovedByIds`,
`CancelApprovedByIntent`, `Commit`. approve, reject and expire are `Decide`: one
guarded UPDATE. Each call can fail; `rebase_apply` logs and goes on, a failed
statement leaves its transaction aborted, a COMMIT of an aborted transaction rolls
back and is answered as a success, and after a failed COMMIT the handler falls back
to the pool with the same request id. `classify_approvals` is abstracted to the set
of ids it returns: the ones the graph names (High tier) or all (Critical).

### `Compensation`, `ActionLifecycle`, `CompensationLifecycle`

Actions planned from side effects, and callers that approve, waive, execute and
reapprove them on three paths (`service`, `tx`, `batch_tx`). A caller reads the row
and applies its gates (`Check`), runs the executor (`RunExecutor`), and writes with
`UPDATE ... WHERE lock_version = n` (`WriteService`, `WriteTx`, `Conflict`). The
version compared is the client's, except for execute and the batch handlers, which
use the one they read. Rollback records are inserted after the update
(`InsertRecord`), in the transaction on the transactional paths. `log` and `acked`
are history. Strategy and feasibility are functions of the class of the side
effect, as the planner computes them; all error codes are one of two classes.

`ActionLifecycle` is what the service promises of an action: no callers, no
versions, no faults. `CompensationLifecycle` maps the committed rows to it
(`attempts <- attempt_count`, `permanent <-` the rows whose code is permanent) and
states `ImplementsLifecycle == Life!Spec`.

### `OrchestrationRuns`

`POST /compensation-actions/runs`: `CreateRun` stores the row and spawns the task;
`StartRun`, `Decide`, `Call`, `Returned`/`Refused`, `StoreItem`, `FinishRun` are
`execute_existing_run`, item by item. A run is a caller of `Compensation` on the
`service` path: `Call` and what follows conjoin the actions of that module, and
operators (`OtherStep`) interleave with every one of them. `Decide` is
`process_single_action` up to the call of the service, on a read that may be
overtaken. Faults: `ReadFailed` (counted as a failed item), `Abandon` (a call of the
run repository fails or the process dies; nothing takes the run up again).
`skipped_count` is never incremented by the code and left out. `version` of an item
is history: the row version the service answered with.

### `ApplyPipeline`

Concurrent `rebase-apply` and `replay` requests. `req[r]` is a request with its
path (`rls`: transactions of the handler; `plain`: a statement at a time), the
nodes it still has to update, what it has counted per node, and whether it holds a
connection; `row` are the row locks of uncommitted updates; `pool` is the number of
connections. `ReceiveApply` evaluates the gate; `Begin`/`BeginTimesOut` acquire a
connection; `Align` selects a checkpoint; `ReadNode`, `WriteNode`, `Commit` are the
loop of `graph_updater.rs`; `WriteFails` is a failing statement or the victim of
PostgreSQL's deadlock detection (`Circle`); `Signal`, `Replay` and their failures
are the runtime adapter. A statement outside a transaction needs a connection of
its own (`CanSend`); `ListApprovals` asks for a second one inside a transaction, and
goes on without it after the acquire timeout. An UPDATE in an aborted transaction
fails, and its COMMIT rolls back. `CheckpointSelection.ready` is never set by the
code, so alignment is always best effort.

### `Propagation`

One intent of one tenant: the record of each downstream system, subscriptions that
are edited meanwhile, and applies that proceed. The signals after an
apply (`create_propagation_signals_after_apply_inner`) are `ListRecords` and one
`SignalRecord` per row; the dispatch is `ListAgain`, `Resolve`, and for each
subscription `RecordAttempt`, `Send` (the whole ladder of attempts against answers of
every kind) and `RecordOutcome`. No statement compares `lock_version`. Faults: each
statement, and `Dropped`, the request's future dropped with the dispatch inside it.
`received`, `posts` and `excused` are history. As in the code, the dispatch looks at
neither the status nor the event types of a subscription, and a PATCH that sets
only a status fails on SQL.

### `EventStream`

`stream` is the sequence of messages, `fate` what became of each, `cursor` what the
durable has handed out. Every adapter names its durable after the stream, so all
pull from one, with `AckPolicy::None`: `OpenPoll`, `Deliver`, `PassOver`, `Consume`,
`ConsumeFailed`, `DeadLetter`, `EndPoll` are the poll loop, which drops what it
prefetched beyond `MAX_MESSAGES_PER_POLL`. `Publish` is one store: a core NATS publish
has no answer to lose, and an attempt that timed out has queued nothing, so the second
attempt of `publish_with_retry` cannot store the message twice. `doubtful` counts the
effects of consumers whose store answered with an error; `Replay` is the replay worker, on its own durable with
`max_deliver` 1; `Peek` the metrics worker. A dead letter goes to
`<subject>.DLQ`, which the stream's own filter `audit.events.v1.>` matches.
RebaseApplied events lack the `intent_id` that the consumer requires
(audit.rs:64-80, event_consumer.rs:168-177): constant `Complete`. `Deliver` is the
server's choice and external.

### `GraphService` and `GraphQueries`

An ingestion is a node, its edges and, with a side effect context, a row of the
compensation service's ledger: one statement each on the `plain` path, one
transaction on the `rls` path (artifacts only). `Receive` draws any request,
including references that do not exist; an invalid edge after valid ones stops the
request half-way. `RecordEffect` is the insert with `ON CONFLICT` on the
idempotency key, which waits for a concurrent uncommitted row of the same key. The
unique external reference of a node (`unique_external_ref`, migration 004) is not
modelled as such: an insert that meets it fails, as an insert may at any time. Hand-made
nodes and edges are `AddNode` and `AddEdge`.

`GraphQueries` adds one traversal at a time (`ask`) that reads the graph a
statement at a time while it grows: `Classify` visits an entry and reads its incoming
edges, `Propagate` its outgoing ones (`ask.half` says which is due). The queue of the breadth-first search is a set
from which any entry of smallest depth is popped. The recursive `dfs` is a function of
the number of steps (`Search`): the path is its call stack, and a step (`DfsStep`) ends
at a gray neighbour, enters a white one or returns. What is left of a node's loops is
not kept, because colours only darken: a neighbour that was passed over is not white
again. The reference definitions are walks of k edges (`ImpactWalks`, `OutWalks`), over
relations stated apart from the operators that the traversals read the graph with.

### `RebaseEngine`

The state is a pair of versions and the plan made of them; `WriteBase` and
`WriteHead` build every pair up to `MaxClauses` clauses, `ComputePlan` runs the
engine. Strings are naturals; every other clause is a key, its priority and a text
that stands for its remaining fields. Only four sections are compared, as in
`diff.rs` (objective, preferences, references and assumptions are not). The stable
sort of `diff_string_lists` is given by the place of each string (`Place`, `Sorted`),
its loop by a recursive function of the two indices (`Merge`). Confidence
is kept as an exact ratio; for up to 40 changes it agrees with the code's `f64`
against every threshold it is compared with.

### `Forensics`

A creation collects versions, audit events and policy snapshots in separate reads
(`Collect`) while `Insert` adds rows, hashes them into a manifest, stores the row
(`CreateRow`), uploads (`Put`, `PutRetry`, `PutFails`) and marks it (`MarkReady`).
On path `rls` the row's writes share a transaction that holds a connection from
before the collection, and the collection asks for another. A hash is what it
hashes. The two tables are partial functions: a request that has stored nothing is not in
their domain. `Download` and `Verify` are the readers; `download` does not look at the
status. The row's own `verify_manifest_integrity` is false for every Ready row
(the hash covers the status it had before), true for the stored bytes, and
`ReadyHasBytes` is about the bytes.

`ReplayTellsTheTruth` has two exceptions, both of the code. Audit events of one intent
and one instant are listed in an order that is the database's choice, and their index
is hashed. And an intent named twice in `intent_ids` is collected twice (nothing removes
it): the two reads may differ, and the section holds both. A bundle whose
first read of the intent found no row and whose second found one, and a verification
whose reads both found it, are of the same rows and differ in their hashes. The proof
attempt found this; TLC shows it in the run
`forensics` when the exception is left out.

## Runs

All twelve runs pass. Each property has a mutant in `PROJECT.json`: a plausible
bug of the code that makes TLC refute it under the same configuration.

| Run | States | Properties | What it shows |
|---|---|---|---|
| `webhookoutbox_safety` | 376 k | `TypeOK` `ClaimIsExclusive` `AckedAtMostOnce` `SettledAsAnswered` | two workers of two tenants, replays single and bulk, one fault: no record has two workers, two acknowledgements, or an outcome its endpoint did not give; attempts stay in the budget (a part of `TypeOK`) |
| `webhookoutbox_progress` | 155 k | `NoStrandedClaim` `EveryRecordSettles` | without faults the queue drains, even if one of two workers is shut down |
| `intentapprovals_safety` | 2.4 M | `NoLostUpdate` `DecisionStands` `AtomicSupersede` `PoolWithdraws` | all handlers on both paths, decisions at any time, one fault |
| `compensation_safety` | 1.3 M | `RecordsAccurate` `ImplementsLifecycle` | two callers on the service and transactional paths, effects of every class, rollback records, one fault: committed rows implement `ActionLifecycle` |
| `orchestrationruns` | 70 k | `ItemsTruthful` `AnsweredIsStored` `RunsAreCallers` `EveryRunEnds` | a run that lists one action three times races an operator, with failing storage and the death of its task |
| `eventstream` | 85 k | `EffectsBounded` `OneHolder` `EveryMessageSettles` | two adapters, a prefetch beyond the poll's budget, dead letters that come back, a replay, one fault |
| `applypipeline` | 260 k | `NothingLeftBehind` `FalseReportShows` `RuntimeReportTrue` `EveryRequestAnswered` | two requests update two nodes in opposite orders over one or two connections |
| `propagation` | 304 k | `NotForgotten` `StatusEarned` `EveryDispatchEnds` | two applies, of an older and a newer version or the same, while subscriptions are edited |
| `graph_ingest` | 725 k | `AllOrNothing` `OneRowPerKey` `CreatedIsWired` | two ingestions with one idempotency key, in one scope or two, on both paths |
| `graph_queries` | 2.9 M | `TraversalsBracketed` `PathShortest` `CycleReported` | every graph of three nodes and up to three edges, one of which may appear meanwhile |
| `engine` | 209 k | `DiffReplays` `NoOpMeansSame` `WideningIsGated` `DoubtIsCareful` | every pair of versions with up to four clauses between them |
| `forensics` | 267 k | `ReadyHasBytes` `EvidenceBracketed` `ReplayTellsTheTruth` `EveryCreateAnswered` | a creation on either path over one or two connections while its evidence is written and read; its intent may be named twice |

**Bounds.** Two workers, handlers, callers, requests or adapters suffice for every
pairwise race; symmetry is used where no constant tells the elements apart. One
fault at every possible point covers each error path; the proofs cover any number.

- *Outbox*: two records, two attempts, one replay, so that the budget is reached,
  reset and reached again.
- *Approvals*: two requests (an old approval and the new request, in either role
  for each handler); three versions, so that two creators that read the first one both
  find room for theirs. A creator whose expectation is overtaken is stopped by
  the comparison (`Conflict`), never by the bound, which only ends what comes after.
- *Compensation*: one row (rows are independent; callers meet on one),
  `MaxRetries = 2` so that there is a legal retry and an exhausted budget, `MaxLock`
  beyond the versions a correct run can reach, so that the bound never hides a step.
- *Runs*: one list that repeats an action, so that a run meets its own earlier
  effects; the second actor is an operator. More runs are covered by the proof.
- *Stream*: a prefetch of three with a budget of two per poll, so that messages are
  dropped; four messages, so that an event, its dead letter, that letter's own dead
  letter and a replay fit. Payloads are complete there, so that both outcomes of a
  consumer occur. With `Complete = {e2}` - RebaseApplied events as the service builds
  them - dead letters circulate until `MaxStream` stops them: the two invariants still
  hold, and liveness would only be about the bound.
- *Apply*: two nodes in opposite orders is the smallest deadlock; a pool of one
  makes the second connection unobtainable, a pool of two makes it contended.
- *Graph*: three nodes hold every shape of cycle up to a triangle and two paths of
  different length to one node; depths one and two are below and at the longest path.
- *Engine*: one list of every kind of comparison; two clauses on each side reach
  keys that are missing, duplicated on one side, and duplicated on both.
- *Forensics*: two audit events so that they can share an instant, and one snapshot;
  versions, which enter a manifest as snapshots do, are read and have no rows (with a
  row of each kind the run takes more than five minutes); an intent named twice, so that
  its reads may disagree; a foreign intent; a range upside down. Several intents, whose
  entries are run together in one list per section, are covered by the proof.

`CHECK_DEADLOCK FALSE` wherever a drained, bounded environment rests.

**Fairness.** Each is weak fairness of one task's own steps, which the tokio runtime
gives: a spawned task or a request's future is polled until its next `await`
completes, and the calls it awaits return or time out.

- `WorkerStep(w)`: an outbox worker's loop (the poll interval always ends).
- `RunStep(r)`, `UnderWay(c)`: a run's task; a service call already begun.
- `AdapterStep(a)`: a consumer's poll loop.
- `Step(r)` of `ApplyPipeline` and `Forensics`: a request; the pool's acquire
  timeout and the deadlock detection of PostgreSQL are steps of it.
- `DispatchStep(a)`: an apply's dispatch.

Nothing is assumed fair about new requests, faults, replays, shutdowns, edits, the
runtime, the broker's operators or the clock. Where liveness has an exception it is
in the property: `EveryRunEnds` excepts failed storage and dead processes,
`EveryMessageSettles` a shutdown.

**Refinement.** `ImplementsLifecycle` checks `Life!Spec`, the abstract life cycle of
an action, as a property of the detailed model. `RunsAreCallers` checks the whole
specification of `Compensation` as a property of its composition with runs. Both are
also proved.

## Documented claims the code does not meet

Met while modelling. Each is a definition of the named module and in no
configuration; TLC refutes it when it is added as a property of the configuration
in the third column. (One row is of a comment that warns of what cannot happen.)

| Definition | What is claimed, where | Configuration | What the code does |
|---|---|---|---|
| `WebhookOutbox!NotBeforeSchedule` | the back-off of `webhook_outbox_worker.rs` | `WebhookOutbox_safety` | `list_pending` orders by `scheduled_at` and does not compare it |
| `WebhookOutbox!AtLeastOnce` | a record is delivered or dead-lettered | `WebhookOutbox_progress`, `MaxFaults = 1` | a crash between claim and settle leaves the record claimed for ever |
| `IntentApprovals!ReplacementStands` | the new request of a reapproval is pending | `IntentApprovals_safety` | on the pool, a reviewer's approval of it can be cancelled with the old ones |
| `IntentApprovals!StaleRequestsWithdrawn`, `WithdrawnForRealVersion` | a version withdraws the requests for older ones | `IntentApprovals_safety` | the withdrawal is on another connection, before the commit |
| `Compensation!DlqIsFinal` | "DLQ candidates cannot be reapproved" | `Compensation_safety`, `batch_tx` among the paths | the transactional batch handler reapproves without the gate |
| `Compensation!AnsweredIsStored` | rollback records are best-effort | `Compensation_safety` | a failed insert aborts the transaction, which is answered as done |
| `OrchestrationRuns!CompletedMeansSucceeded` | openapi.yaml:1322 | `OrchestrationRuns` | a failed execution is answered with Ok and counted as succeeded (orchestration_runtime.rs:246-253) |
| `ApplyPipeline!SignalAfterCommit` | docs/13-adrs/09-rebase-apply-rls-transaction-boundary.md, Verification Plan item 4 | `ApplyPipeline` | a failed COMMIT is reported as a warning and the runtime signalled all the same (graph_updater.rs:257-275) |
| `Propagation!AcknowledgedVersionReceived` | propagation_record.rs:18, :41 | `Propagation` | the outcome of an older apply settles the record a newer one has just reset |
| `EventStream!HandledThrice` | consumer.rs:30-31 | `EventStream`, `Complete = {e2}` | a dead letter matches the stream's filter and is delivered again |
| `GraphService!EveryArtifactTraces` | ingestion.rs:14 | `GraphService` | on the plain path a node stays when its first edge fails |
| (none) | bundle_service.rs:496-499: if the storage fails after the commit "the bundle record is Ready but storage may be missing" | `Forensics` | the upload precedes `update_status_with_tx` and the caller's commit: a Ready row always has its bytes, which is `ReadyHasBytes`, checked and proved |
| `Forensics!RealDataCollected` | bundle_service.rs:348 | `Forensics` | as wired, the create endpoint collects from an empty in-memory collector |

Smaller facts that follow from the models: as `main.rs` wires `IntentService`, a new
version withdraws nothing. A client that sends a `lock_version` one ahead of the row
(`ClientsGuess = TRUE`) can approve an action that another caller waives between its
gate and its UPDATE. Planning twice creates two actions for one side effect. A
change of class D at Medium severity proceeds alone; adding well-matched changes to
a plan can lower its class. A bundle whose upload or marking fails stays Generating
for ever on the plain path and leaves an object without a row on the other. The
replay and metrics workers derive another stream name than the consumers.

## Proofs

All theorems hold for every value of the constants that satisfies the module's
assumption, hence for any number of handlers, workers, rows, messages and faults;
further hypotheses are stated in the theorem. Eight modules hold them, one per
component (that of the rebase engine is with that of the apply pipeline). Each has an
inductive invariant, `Inductive`, which was checked by TLC before it was proved (not so
that of the traversals, which says that some set of entries exists; TLC checks the
answers that follow from it), a lemma per group of actions, and the theorems at its end.
What follows is why the properties alone are not inductive.

`WebhookOutboxProofs`. `Inductive` conjoins `TypeOK`, `ClaimIsExclusive` and two
history invariants: `PostsFollow` (the POSTs of a record are at most its attempt
count, plus one while it is being settled or once it is settled) and `AcksFollow` (a
record has an acknowledgement iff it is delivered or claimed by its acknowledger).
Exclusiveness is what the rest needs: settling has no guard, so only because nobody
else can be working on a claimed record does an unguarded UPDATE never overwrite a
settled one. Theorems: `TypeCorrect`, `ClaimsExclusive`, `AtMostOneAck`, `Settled`,
`BoundedPosts`, `DeliveredFinal`. `NothingStranded` is inductive once the claims are
exclusive: a claim takes its worker along, and the worker that settles a record is
the only one that had it. It is about states in which no fault has happened yet.

`IntentApprovalsProofs`. `Structure` says what the stage of a handler implies (who
holds the intent row, whose request is whose, which rows a transaction may have
written and that those are still approved); on top of it come the properties and, for
supersession, which approvals are already dealt with at each stage. Theorems:
`TypeCorrect`, `VersionsExtendExpected`, `DecisionsStand`, `ReapprovalSupersedes`,
`ReapprovalAtomic`, `RequestLifeCycle`, `StaleWithdrawn`. The last one rests on
`OpenRequests` (what a handler remembers as pending exists already, so by `NotRevived`
no decision, reapproval or version can make it pending again) and has the hypothesis
`WithApprovalRepo`, which is how the service has to be built for the withdrawal to be
wired at all.

`CompensationProofs` has three parts.
*Callers.* The argument of optimistic locking, made explicit: a caller
past its gates either finds its version overtaken or the row exactly as the gates saw
it (`Fresh`), because every write raises the version (`RowsStep`). Lemma `OthersKnow`
is the non-interference half, `OwnKnows` the local half. From there:
`RowsFollowMatrix` (hypothesis: clients send versions they have read),
`DeadLettersFinal` and `AttemptsBounded` (and the transactional batch path is off),
`RecordsTellTheTruth` (no hypothesis), `AnswersTrue` (without rollback records). Each
hypothesis is necessary: the table above has the counterexamples of the last two, and
`ClientsGuess = TRUE` in `Compensation_safety.cfg` that of the first.
*The life cycle.* `LifecycleImplemented`: with clients that send versions
they have read and without the transactional batch path, `Spec` implements
`ActionLifecycle`. The refinement needs the invariant: the UPDATE of a caller is an
abstract step because its version matched, so by `Fresh` what its gate saw still holds
of the row; and an action that is pending or approved has attempts left (`Budget`).
*Orchestration runs.* `TaskOf` ties a run's task to its caller: it is inside the
service exactly while the task is in its call, on the `service` path, and what it will
report is of that call. With it every step of a run is a step of a caller
(`OwnStepIsStep`), so the composition refines `Compensation` (`RunsRefineCallers`) and
inherits what is proved of it (`RunsKeepLifecycle`, `RunsAnswersTrue`).
`ItemsTrue` is about the reports: `ReportsInductive` says that every stored result,
and the one at hand, is true of the log, and that no two of the tasks that can *claim*
a version of a row (they have written it, or are about to report it) and of the items
that report one are for the same version. It is kept because a new claim is of the
version just written, above everything claimed before (`ClaimsMove`, `ClaimsBelow`),
and a stored item was a claim of its task a step earlier (`ReportsMove`).

`PropagationProofs`. `StatusEarned` bounds the requests a system is sent by the attempts
its record counts. That needs the requests the attempts under way may *still* send:
`Allowed(s)` is that set, and `Paid` says that what was sent plus its size is within the
budget, so that counting an attempt adds what it may send and each request takes one
away. `Knows` (what a dispatch listed exists) and `AnswerReal` (the answer it is about
to store was given) are what the unguarded UPDATE of the outcome relies on.
`NotForgotten` is inductive with `OffExcused`: without a dispatcher every signalled
system has its excuse. Theorems: `PropagationTypeCorrect`, `StatusAlwaysEarned`,
`NobodyForgotten`.

`ApplyPipelineProofs`. For each request, `Connection` says exactly where it holds a
connection, `Report` that what it counts as applied is `Stale`, was rolled back with an
aborted transaction that also reports a failure, or is still in its open transaction,
and `Told` what the runtime has been told at each place. `Locks` ties a row lock to an
open transaction that is not aborted and wrote the row: the failing statement, the
victim of deadlock detection and the rollback by COMMIT all have to release it.
Theorems: `PipelineTypeCorrect`, `NothingIsLeftBehind`, `FalseReportsShow`,
`RuntimeReportsTrue`.

The second half of that module is about `RebaseEngine`, which it extends beside
`ApplyPipeline`; its state machine has names of its own for that (`EngineSpec`). The
invariant is small (`EngineOK`: the versions are versions, and a plan is
the plan of the two); the work is in what diff, analysis and planning compute.
*The diff replays* (`DiffReplayed`). Lists by key: an injection of places gives that a
clause is kept, modified, removed or added once (`PairsAre`, `KeyedReplay`). Scope
lists: sorting permutes (`SortedIs`, the places are a bijection), the recursive function
of the merge is well defined (`RestIs`) and what it finds from a point on balances the
rest of both lists (`MergeStep`). Both inductions, on the number of clauses left, are
by `AllNaturals`, which says of a *set* of naturals what the library's induction
theorems say of a predicate, and so needs no operator parameter. From it follows
`NoOpIsOfTheSame`. *The gate*: `WideningGated` needs no induction, only that no change
of a list is missed (`EmptyMeansSame`, `RemovedOrKept`) and the floors of the analysis;
`DoubtCareful` needs in addition that diffs are finite, so that the confidence can be
compared with its threshold. It says exactly when doubt makes a plan careful, so the
comparison is needed in both directions (`DoubtIsLow`), with the severity and the class that such a
change has otherwise (`ChangeIsMedium`, `MediumIsD`). `PlansAreInputs` joins the two modules:
whatever plan the engine makes, `Evaluate` decides of its tier and class what `Gate`
decided.

`GraphServiceProofs`. `Written` relates what a request has done to what is visible, per
path; `Traces` keeps an artifact's reference to an intent version through the loop
over its wires; `Ledger` and `Tables` are about keys. Two points had to be
strengthened beyond the properties: as long as a request's node is not stored no row of
the ledger is its own, *on either path* (else a plain request could be taken for the
winner of its key), and no two open transactions insert one key, which is the waiting of
`ON CONFLICT`. Theorems about `Spec`: `GraphTypeCorrect`, `RlsIsAllOrNothing`,
`KeyHasOneRow`, `CreatedMeansWired`, `EdgesInOneScope`.

The rest of that module is about `QSpec` of `GraphQueries`, whose traversals leave all
variables of `GraphService` alone (`TraversalsOnlyRead`: `QSpec` implements `Spec`).
`QueryInductive` has a part for each kind of traversal, and all rest on one fact about
the graph, `GraphGrows`: edges are only added and a node stays what it was.
*Breadth-first search.* There is a set E of entries that have been expanded; with the
entries Q that wait in the queue it covers every walk of the graph the traversal began
with (`Seeded`, `Covered`): the walks' first nodes are among E and Q, and whatever the
graph had behind an expanded entry is among them one deeper. E is in no variable, so
the invariant says that it exists. When Q is empty, E alone covers: by induction
on the length of a walk its end has an entry of no greater depth (`WalksCovered`).
That the smallest depth is popped first (nothing in Q is nearer than anything in E) is
what makes the depth recorded for a node its smallest, so that skipping a node already
visited loses no walk (`Expand`). The other half, that nothing is made up, is that an
entry of depth d lies at the end of a walk of d edges of the graph *now*, which growing
preserves (`WalksGrow`).
*Paths.* An entry has a parent, which was expanded and is one less deep (`Traced`):
so following parents from the target reaches the source after as many steps as the
target is deep, fewer than there are nodes, and the loop of `reconstruct_path` ends
(`PathToIs`); no walk there was is shorter (`NoShorter`).
*Cycles.* The gray nodes are the path, each with an edge to the next, so that a gray
neighbour closes a walk (`Coherent`). A black node has a rank above those of its
neighbours (`Ranked`): it is left when all of them are black, and can be ranked above
them then. If the search ends without a cycle all listed nodes are black, ranks
fall along every edge and no walk returns (`NoReturn`). `Search` stops after
`SearchLimit` steps; that this is always the end of it is the potential of `Searching`:
each step darkens a node, and a node darkens twice. Nodes that appear after
the list was read have no colour and no rank; that no cycle there was could lead through
one needs `EdgesInOneScope`.
Theorems: `TraversalsAreBracketed`, `PathIsShortest`, `CyclesAreReported`.

`EventStreamProofs`. The durable splits the stream at its cursor: all that lies ahead is
pending; what lies behind and is pending is with exactly one adapter, once, in its
buffer or in its hand (`Holders`, and `Places` for where an adapter may have what). That
is `OneHolder`, from which a message is settled at most once. `Counted` is the potential
behind `EffectsBounded`: effects of an event, plus its messages still pending, plus one
if it is unpublished, never exceed one plus its doubtful stores and replays; a dead
letter replaces the message it is made of. Theorems: `StreamTypeCorrect`,
`MessageHasOneHolder`, `EffectsAreBounded`.

`ForensicsProofs`. `Placed` says that row and object of a request are those of the
collection it has made and come after it, `Progress` what has been stored at each stage
of either path, `Saw` that a reader who saw a bundle Ready will find it so. `Bracket`
is the loop of the collector: each row that was there at the start is in a read still to
be made or was read, and what was read is still there, because evidence is only added.
For these what the hashed entries are made of (`Prepared`) does not matter: any function
of the collection would do. *Replay* is about exactly that. A flattened sequence is the
joining of its parts (`FlattenIs`), what it holds is what its parts hold
(`FlattenHolds`), and entries tell the intent and number of their row
(`EntriesTell`), which is the row (`Numbered`): equal sections are sections of equal
rows. The other way a sequence without repetition in a strict order is the only one
of its set (`OneOrder`), so that equal rows are listed equally (`SameReads`,
`SameEntries`) if no two events tie and no intent repeats. `Whole` is the invariant of
the collector this needs: what a request has read and has still to read are the reads
of its intents, in their order, each a listing of rows of its table.
Theorems: `ReadyAlwaysHasBytes`, `EvidenceIsBracketed`, `ReplayAlwaysTellsTheTruth`.

Proved and not run: `PostsBounded`, `DeliveredIsFinal`, `LegalTransitions`,
`Superseded`, the attempt budget of `Compensation`, and the type invariants of all these
modules (`StreamTypeOK`, `PipelineTypeOK`, `PropagationTypeOK`, `GraphTypeOK` are in no
configuration).

Only model-checked: every liveness property (fairness and ENABLED are out of the
prover's reach). Every invariant and every action property of a run is also a theorem.

## Not modelled

- Authentication, routing, parsing, metrics, formatting and messages; read-only
  queries other than the graph traversals and the forensic readers.
- Row-level security policies (SQL): the models are of one tenant's data, except
  that outbox workers visit tenants in turn, orchestration runs and forensic bundles
  name rows of other tenants, and graph ingestions have scopes.
- The compensation simulator (a read-only what-if computation), the messages of the
  executors, the Temporal client itself, object store clients beyond their retry.
- Code no handler reaches: rule packs, `revalidate_nodes`, `archive_nodes`,
  `invalidate_artifacts`, `edge_reevaluation.rs`, `delete_edge`,
  `BundleGenerationService`, the export scaffold. `chain_hash` and
  `POST /forensic/verify` recompute what they are given and keep no state.
- Checkpoint contents and policy snapshot contents: they are opaque to the protocols.
- Audit rows in the modelled handlers: best-effort writes nothing reads there, except
  as evidence in `Forensics` and as events in `EventStream`.
- The CLI and deployment files, which have no protocol of their own. The migrations
  were read for constraints.
