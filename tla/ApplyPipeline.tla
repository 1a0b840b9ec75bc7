---------------------------- MODULE ApplyPipeline ----------------------------
(***************************************************************************)
(* Concurrent POST /intents/{id}/rebase-apply and /replay requests: the    *)
(* apply decision, checkpoint alignment, the graph updates with their      *)
(* transactions and row locks, the runtime signal, the audit, and the pool *)
(* the connections come from.                                              *)
(*                                                                         *)
(* Path "rls" (pool and JWT claims present) reads checkpoints and writes   *)
(* the graph in transactions of the handler; path "plain" does every       *)
(* statement on its own.  What a blocked request does to the approvals is  *)
(* module IntentApprovals; here it is the connections it holds.  A request *)
(* whose outcome is a proceed goes on to module Propagation.               *)
(***************************************************************************)
EXTENDS Naturals, Sequences, FiniteSets

CONSTANTS
    Requests,       \* requests in flight
    Nodes,          \* graph nodes
    ItemLists,      \* affected items a plan may list, in the order of the graph
    PoolSizes,      \* numbers of connections the pool may be given
    MaxCheckpoints, \* bound: checkpoints created
    MaxFaults       \* bound: failed statements, commits and calls

None == "none"

ASSUME PipelineAssumption ==
    /\ None \notin Requests /\ ItemLists \subseteq Seq(Nodes)
    /\ PoolSizes \subseteq Nat \ {0} /\ {MaxCheckpoints, MaxFaults} \subseteq Nat

VARIABLES
    node,        \* committed state of each node
    row,         \* the transaction that has each node's row locked, or None
    checkpoints, \* the workflow's checkpoints, oldest first: is it Active?
    req,         \* the requests
    runtime,     \* what the runtime received of each request
    pool,        \* connections of the pool, fixed when the service starts
    faults

vars == <<node, row, checkpoints, req, runtime, pool, faults>>

NodeStates == {"Active", "Stale", "Invalid", "Archived"}
Paths == {"rls", "plain"}
Decisions == {"none", "no_op", "proceed", "blocked"}
PCs == {"idle", "begin_read", "align", "begin_write", "read", "write", "commit",
        "signal", "replay", "audit", "begin_block", "list", "cancel",
        "begin_replay", "only_align", "only_replay", "end_replay", "answered", "error"}

Idle == [pc |-> "idle", path |-> "plain", decision |-> "none", todo |-> <<>>,
         result |-> [n \in Nodes |-> None], wrote |-> {}, aborted |-> FALSE,
         conns |-> 0, aligned |-> 0, signalSent |-> FALSE, replayed |-> FALSE]

PipelineTypeOK ==
    /\ node \in [Nodes -> NodeStates] /\ row \in [Nodes -> Requests \union {None}]
    /\ checkpoints \in Seq(BOOLEAN) /\ Len(checkpoints) <= MaxCheckpoints
    /\ \A r \in Requests :
        /\ req[r].pc \in PCs /\ req[r].path \in Paths /\ req[r].decision \in Decisions
        /\ req[r].todo \in Seq(Nodes) /\ req[r].wrote \subseteq Nodes
        /\ req[r].result \in [Nodes -> {None, "applied", "failed"}]
        /\ req[r].conns \in 0..1 /\ req[r].aligned \in 0..Len(checkpoints)
        /\ {req[r].aborted, req[r].signalSent, req[r].replayed} \subseteq BOOLEAN
        /\ req[r].aborted => req[r].path = "rls"
    /\ runtime \in [Requests -> SUBSET {"signal", "replay"}]
    /\ pool \in PoolSizes /\ faults \in 0..MaxFaults

Init ==
    /\ node = [n \in Nodes |-> "Active"] /\ row = [n \in Nodes |-> None]
    /\ checkpoints = <<>>
    /\ req = [r \in Requests |-> Idle]
    /\ runtime = [r \in Requests |-> {}]
    /\ pool \in PoolSizes /\ faults = 0

Fault == faults < MaxFaults /\ faults' = faults + 1

At(r, pc) == req[r].pc = pc

Rls(r) == req[r].path = "rls"

\* acquire(): sqlx hands out a connection, or gives up after its timeout.
Free == Cardinality({r \in Requests : req[r].conns = 1}) < pool

\* A statement of r can be sent: on its transaction, or on a free connection.
CanSend(r) == req[r].conns = 1 \/ Free

Goto(r, pc) == req' = [req EXCEPT ![r].pc = pc]

\* The request fails; the transaction it drops rolls back and is returned.
Fail(r) ==
    /\ req' = [req EXCEPT ![r].pc = "error", ![r].conns = 0]
    /\ row' = [n \in Nodes |-> IF row[n] = r THEN None ELSE row[n]]

-----------------------------------------------------------------------------
(* The request, up to its decision. *)

RiskTiers == {"Low", "Medium", "High", "Critical"}
DecisionClasses == {"A", "B", "C", "D", "E"}

\* RiskTierGuard: the tier decides, class A is a no-op whatever the tier.
Evaluate(tier, class) ==
    CASE class = "A" -> "no_op"
      [] class # "A" /\ tier \in {"Low", "Medium"} -> "proceed"
      [] OTHER -> "blocked"

\* Head, versions and plan are read on connections of the pool.
ReceiveApply(r) ==
    /\ At(r, "idle") /\ Free
    /\ \E path \in Paths, tier \in RiskTiers, class \in DecisionClasses, items \in ItemLists :
        LET decision == Evaluate(tier, class)
        IN  req' = [req EXCEPT ![r].path = path, ![r].decision = decision,
                               ![r].todo = IF decision = "proceed" THEN items ELSE <<>>,
                               ![r].pc = IF decision # "proceed" THEN "audit"
                                         ELSE IF path = "rls" THEN "begin_read" ELSE "align"]
    /\ UNCHANGED <<node, row, checkpoints, runtime, faults>>

ReceiveReplay(r) ==
    /\ At(r, "idle") /\ Free
    /\ \E path \in Paths :
        req' = [req EXCEPT ![r].path = path,
                           ![r].pc = IF path = "rls" THEN "begin_replay" ELSE "only_align"]
    /\ UNCHANGED <<node, row, checkpoints, runtime, faults>>

Begins == {"begin_read", "begin_write", "begin_block", "begin_replay"}

\* begin_with_tenant; a blocked request also inserts its approval request.
Begin(r) ==
    /\ req[r].pc \in Begins /\ Free
    /\ req' = [req EXCEPT ![r].conns = 1,
                          ![r].pc = CASE @ = "begin_read" -> "align"
                                      [] @ = "begin_write" -> "read"
                                      [] @ = "begin_block" -> "list"
                                      [] @ = "begin_replay" -> "only_align"]
    /\ UNCHANGED <<node, row, checkpoints, runtime, faults>>

\* No connection in time.  A blocked request goes on without a transaction.
BeginTimesOut(r) ==
    /\ req[r].pc \in Begins /\ ~Free
    /\ Goto(r, IF At(r, "begin_block") THEN "answered" ELSE "error")
    /\ UNCHANGED <<node, row, checkpoints, runtime, faults>>

-----------------------------------------------------------------------------
(* Checkpoint alignment.  The planner's selection is never ready, so it is  *)
(* always align_best_effort: the newest Active, else the newest.            *)

\* The first of ORDER BY created_at DESC; 0 when there is none.
Newest(C) == IF C = {} THEN 0 ELSE CHOOSE c \in C : \A d \in C : d <= c

BestEffort ==
    LET active == {c \in DOMAIN checkpoints : checkpoints[c]}
    IN  IF active # {} THEN Newest(active) ELSE Newest(DOMAIN checkpoints)

\* The read-only transaction ends here, before the write transaction.
Align(r) ==
    /\ At(r, "align") /\ CanSend(r)
    /\ req' = [req EXCEPT ![r].aligned = BestEffort, ![r].conns = 0,
                          ![r].pc = IF Rls(r) THEN "begin_write" ELSE "read"]
    /\ UNCHANGED <<node, row, checkpoints, runtime, faults>>

AlignFails(r) ==
    /\ At(r, "align")
    /\ (~CanSend(r) /\ UNCHANGED faults) \/ Fault
    /\ Fail(r)
    /\ UNCHANGED <<node, checkpoints, runtime>>

-----------------------------------------------------------------------------
(* Graph updates: each node is read, checked and set to Stale. *)

\* Is to reachable from from?  Staying is allowed and writes nothing.
ValidTransition(from, to) ==
    \/ from = to
    \/ from = "Active" /\ to \in {"Stale", "Invalid"}
    \/ from = "Stale" /\ to \in {"Active", "Archived", "Invalid"}

Reported(r, result) ==
    LET n == Head(req[r].todo)
    IN  [req EXCEPT ![r].result[n] = result, ![r].todo = Tail(@), ![r].pc = "read"]

\* In an aborted transaction every statement fails, and so does the node.
ReadNode(r) ==
    /\ At(r, "read") /\ req[r].todo # <<>>
    /\ LET n == Head(req[r].todo)
           seen == IF n \in req[r].wrote THEN "Stale" ELSE node[n]
           missing == req[r].aborted \/ ~CanSend(r)
       IN  req' = IF missing \/ ~ValidTransition(seen, "Stale") THEN Reported(r, "failed")
                  ELSE IF seen = "Stale" THEN Reported(r, "applied")
                  ELSE [req EXCEPT ![r].pc = "write"]
    /\ UNCHANGED <<node, row, checkpoints, runtime, faults>>

\* The node is gone or the tenant does not see it.
NodeNotFound(r) ==
    /\ At(r, "read") /\ req[r].todo # <<>> /\ Fault
    /\ req' = Reported(r, "failed")
    /\ UNCHANGED <<node, row, checkpoints, runtime>>

NodesDone(r) ==
    /\ At(r, "read") /\ req[r].todo = <<>>
    /\ Goto(r, IF Rls(r) THEN "commit" ELSE "signal")
    /\ UNCHANGED <<node, row, checkpoints, runtime, faults>>

\* Mutant: the result is counted before the statement's error is known.
WriteNodeCounted(r) ==
    /\ At(r, "write") /\ CanSend(r)
    /\ req' = Reported(r, "applied")
    /\ UNCHANGED <<node, row, checkpoints, runtime, faults>>

\* UPDATE ... WHERE node_id = $3: waits for the row, checks no state again.
WriteNode(r) ==
    /\ At(r, "write") /\ CanSend(r)
    /\ LET n == Head(req[r].todo) IN
        /\ row[n] \in {None, r}
        /\ IF Rls(r)
           THEN /\ row' = [row EXCEPT ![n] = r]
                /\ req' = [Reported(r, "applied") EXCEPT ![r].wrote = @ \union {n}]
                /\ UNCHANGED node
           ELSE /\ node' = [node EXCEPT ![n] = "Stale"]
                /\ req' = Reported(r, "applied")
                /\ UNCHANGED row
    /\ UNCHANGED <<checkpoints, runtime, faults>>

\* The row r waits for is locked by this transaction.
Holder(r) == row[Head(req[r].todo)]
Waits(r) == At(r, "write") /\ Holder(r) \notin {None, r}

\* The requests of S wait for one another in a circle.
Circle(S) == (\A r \in S : Waits(r)) /\ S # {} /\ {Holder(r) : r \in S} = S

\* A statement error: PostgreSQL aborts the transaction, gives its locks up,
\* and the handler takes it for the failure of one node.
Aborted(r) ==
    /\ req' = [Reported(r, "failed") EXCEPT ![r].aborted = Rls(r), ![r].wrote = {}]
    /\ row' = [n \in Nodes |-> IF row[n] = r THEN None ELSE row[n]]

WriteFails(r) ==
    /\ At(r, "write")
    /\ \/ \E S \in SUBSET Requests : r \in S /\ Circle(S) /\ UNCHANGED faults
       \/ ~CanSend(r) /\ UNCHANGED faults
       \/ CanSend(r) /\ Fault
    /\ Aborted(r)
    /\ UNCHANGED <<node, checkpoints, runtime>>

\* What a commit makes of the nodes: of an aborted transaction, nothing.
Committed(r) == [n \in Nodes |-> IF n \in req[r].wrote THEN "Stale" ELSE node[n]]

Unlocked(r) == [n \in Nodes |-> IF row[n] = r THEN None ELSE row[n]]

\* Mutant: the connection is not given back.
CommitLeaks(r) ==
    /\ At(r, "commit")
    /\ node' = Committed(r) /\ row' = Unlocked(r)
    /\ req' = [req EXCEPT ![r].pc = "signal"]
    /\ UNCHANGED <<checkpoints, runtime, faults>>

\* COMMIT of an aborted transaction rolls back and is no error for sqlx.
Commit(r) ==
    /\ At(r, "commit")
    /\ node' = Committed(r) /\ row' = Unlocked(r)
    /\ req' = [req EXCEPT ![r].pc = "signal", ![r].conns = 0]
    /\ UNCHANGED <<checkpoints, runtime, faults>>

\* The answer to COMMIT does not arrive, whether or not it took effect.
CommitFails(r) ==
    /\ At(r, "commit") /\ Fault
    /\ node' \in {node, Committed(r)}
    /\ Fail(r)
    /\ UNCHANGED <<checkpoints, runtime>>

-----------------------------------------------------------------------------
(* The runtime, after the commit. *)

NotReady(r) ==
    /\ At(r, "signal") /\ Goto(r, "audit")
    /\ UNCHANGED <<node, row, checkpoints, runtime, faults>>

\* Mutant: the signal is taken for sent once it is built.
SignalUnsent(r) ==
    /\ At(r, "signal")
    /\ req' = [req EXCEPT ![r].signalSent = TRUE, ![r].pc = "audit"]
    /\ UNCHANGED <<node, row, checkpoints, runtime, faults>>

\* A checkpoint was aligned: replay from it.
Signal(r) ==
    /\ At(r, "signal")
    /\ runtime' = [runtime EXCEPT ![r] = @ \union {"signal"}]
    /\ req' = [req EXCEPT ![r].signalSent = TRUE,
                          ![r].pc = IF req[r].aligned = 0 THEN "audit" ELSE "replay"]
    /\ UNCHANGED <<node, row, checkpoints, faults>>

\* The adapter answers with an error, whether or not the runtime got it:
\* RuntimeExecutionResult::degraded, and the request goes on.
SignalFails(r) ==
    /\ At(r, "signal") /\ Fault
    /\ runtime' \in {runtime, [runtime EXCEPT ![r] = @ \union {"signal"}]}
    /\ Goto(r, "audit")
    /\ UNCHANGED <<node, row, checkpoints>>

AfterReplay(r) ==
    IF At(r, "replay") THEN "audit" ELSE IF Rls(r) THEN "end_replay" ELSE "answered"

\* replay_from_checkpoint; POST /replay calls it with its transaction open.
Replay(r) ==
    /\ At(r, "replay") \/ At(r, "only_replay")
    /\ runtime' = [runtime EXCEPT ![r] = @ \union {"replay"}]
    /\ req' = [req EXCEPT ![r].replayed = TRUE, ![r].pc = AfterReplay(r)]
    /\ UNCHANGED <<node, row, checkpoints, faults>>

ReplayFails(r) ==
    /\ At(r, "replay") \/ At(r, "only_replay")
    /\ \/ Fault /\ runtime' \in {runtime, [runtime EXCEPT ![r] = @ \union {"replay"}]}
       \/ At(r, "only_replay") /\ UNCHANGED <<faults, runtime>>
    /\ Goto(r, AfterReplay(r))
    /\ UNCHANGED <<node, row, checkpoints>>

\* POST /replay: the checkpoint asked for, or align as above; without any
\* the runtime is not called.
AlignReplay(r) ==
    /\ At(r, "only_align") /\ CanSend(r)
    /\ \E c \in DOMAIN checkpoints \union {BestEffort} :
        req' = [req EXCEPT ![r].aligned = c,
                           ![r].pc = IF c # 0 THEN "only_replay"
                                     ELSE IF Rls(r) THEN "end_replay" ELSE "answered"]
    /\ UNCHANGED <<node, row, checkpoints, runtime, faults>>

\* The checkpoint asked for does not exist, or the statement failed.
AlignReplayFails(r) ==
    /\ At(r, "only_align") /\ Fail(r)
    /\ UNCHANGED <<node, checkpoints, runtime, faults>>

EndReplay(r) ==
    /\ At(r, "end_replay")
    /\ \/ UNCHANGED faults /\ req' = [req EXCEPT ![r].pc = "answered", ![r].conns = 0]
       \/ Fault /\ req' = [req EXCEPT ![r].pc = "error", ![r].conns = 0]
    /\ UNCHANGED <<node, row, checkpoints, runtime>>

-----------------------------------------------------------------------------
(* The audit, and the approval request of a blocked rebase. *)

\* Best effort: stored or not, the request goes on.
Audit(r) ==
    /\ At(r, "audit")
    /\ Goto(r, IF req[r].decision = "blocked" /\ Rls(r) THEN "begin_block" ELSE "answered")
    /\ UNCHANGED <<node, row, checkpoints, runtime, faults>>

\* Mutant: the second connection is waited for without end.
ListApprovalsWaits(r) ==
    /\ At(r, "list") /\ Free
    /\ Goto(r, "cancel")
    /\ UNCHANGED <<node, row, checkpoints, runtime, faults>>

\* list_by_intent asks the POOL for a connection while r holds one.  With
\* none in time the handler cancels all approvals instead of the stale ones.
ListApprovals(r) ==
    /\ At(r, "list")
    /\ Goto(r, "cancel")
    /\ UNCHANGED <<node, row, checkpoints, runtime, faults>>

\* The cancellation and the commit; on an error the non-RLS path follows.
CancelApprovals(r) ==
    /\ At(r, "cancel")
    /\ req' = [req EXCEPT ![r].pc = "answered", ![r].conns = 0]
    /\ UNCHANGED <<node, row, checkpoints, runtime, faults>>

-----------------------------------------------------------------------------
(* Checkpoints of the workflow. *)

\* A new one is Pending.
CreateCheckpoint ==
    /\ Len(checkpoints) < MaxCheckpoints
    /\ checkpoints' = Append(checkpoints, FALSE)
    /\ UNCHANGED <<node, row, req, runtime, faults>>

\* activate, supersede and invalidate: update_status looks at no status.
SetStatus(c) ==
    /\ \E active \in BOOLEAN : checkpoints' = [checkpoints EXCEPT ![c] = active]
    /\ UNCHANGED <<node, row, req, runtime, faults>>

\* Those past their time.
ExpireCheckpoints ==
    /\ \E C \in SUBSET DOMAIN checkpoints :
        checkpoints' = [c \in DOMAIN checkpoints |-> checkpoints[c] /\ c \notin C]
    /\ UNCHANGED <<node, row, req, runtime, faults>>

-----------------------------------------------------------------------------
Step(r) ==
    \/ Begin(r) \/ BeginTimesOut(r)
    \/ Align(r) \/ AlignFails(r)
    \/ ReadNode(r) \/ NodeNotFound(r) \/ NodesDone(r) \/ WriteNode(r) \/ WriteFails(r)
    \/ Commit(r) \/ CommitFails(r)
    \/ NotReady(r) \/ Signal(r) \/ SignalFails(r) \/ Replay(r) \/ ReplayFails(r)
    \/ AlignReplay(r) \/ AlignReplayFails(r) \/ EndReplay(r)
    \/ Audit(r) \/ ListApprovals(r) \/ CancelApprovals(r)

CheckpointStep ==
    CreateCheckpoint \/ ExpireCheckpoints \/ \E c \in DOMAIN checkpoints : SetStatus(c)

Next ==
    /\ \/ \E r \in Requests : ReceiveApply(r) \/ ReceiveReplay(r) \/ Step(r)
       \/ CheckpointStep
    /\ UNCHANGED pool

\* Requests are futures of the server: each goes on while its calls return.
Fairness == \A r \in Requests : WF_vars(Step(r) /\ UNCHANGED pool)

Spec == Init /\ [][Next]_vars /\ Fairness

-----------------------------------------------------------------------------
Ended(r) == req[r].pc \in {"idle", "answered", "error"}

\* A request that has been answered, or has failed on any of its paths,
\* leaves nothing behind: no connection of the pool and no row lock; and a
\* row is locked only by a transaction that can still commit its write.
NothingLeftBehind ==
    /\ \A r \in Requests : Ended(r) => req[r].conns = 0
    /\ \A n \in Nodes : row[n] # None =>
        /\ req[row[n]].conns = 1 /\ ~req[row[n]].aborted
        /\ n \in req[row[n]].wrote

\* graph_updates_applied may be wrong - the transaction of the updates it
\* counts was rolled back - but only in an answer that also reports
\* graph_updates_failed.  So a caller that sees no failed update can rely on
\* every applied one.
FalseReportShows ==
    \A r \in Requests : req[r].pc = "answered" =>
        \A n \in Nodes : req[r].result[n] = "applied" =>
            \/ node[n] = "Stale"
            \/ \E m \in Nodes : req[r].result[m] = "failed"

\* What the answer says of the runtime happened there, and a replay that
\* rebase_apply asked for never reached the runtime ahead of its signal.
RuntimeReportTrue ==
    \A r \in Requests :
        /\ req[r].signalSent => "signal" \in runtime[r]
        /\ req[r].replayed => "replay" \in runtime[r]
        /\ ("replay" \in runtime[r] /\ req[r].decision = "proceed") =>
            "signal" \in runtime[r]

\* The wait for a second connection under an open transaction, and the row
\* locks two requests take in opposite orders, hold no request up for ever:
\* the pool's timeout and the deadlock detection let it go on.
EveryRequestAnswered ==
    \A r \in Requests : ~At(r, "idle") ~> req[r].pc \in {"answered", "error"}

\* ADR-09: the runtime is signalled only after the write transaction
\* committed, that is, once every node reported as updated is Stale.
SignalAfterCommit ==
    \A r \in Requests : (Rls(r) /\ "signal" \in runtime[r]) =>
        \A n \in Nodes : req[r].result[n] = "applied" => node[n] = "Stale"
=============================================================================
