-------------------------- MODULE OrchestrationRuns --------------------------
(***************************************************************************)
(* Orchestration runs: POST /compensation-actions/runs stores a run over a *)
(* list of action ids, answers 202 and leaves the work to a spawned task.  *)
(* The task takes one pass over the list.  For each id it reads the        *)
(* action, decides from what it read (approve, execute, reapprove, skip)   *)
(* and calls the CompensationActionService, in which it is a caller like   *)
(* any other: its steps there are those of Compensation, on the "service"  *)
(* path, in a race with operators and with the tasks of other runs.  After *)
(* each item the whole row of the run is stored; nothing but its own task  *)
(* writes it.                                                              *)
(***************************************************************************)
EXTENDS Compensation, Sequences

CONSTANTS
    Runs,       \* runs; the task of a run is a caller of the service
    ActionLists,\* the lists of ids clients ask for
    Foreign,    \* actions of another tenant
    MaxRunFaults\* bound: failed storage calls and deaths of a run's task

ASSUME RunsAssumption ==
    /\ Runs \subseteq Callers /\ Foreign \subseteq Actions
    /\ ActionLists \subseteq Seq(Actions) /\ MaxRunFaults \in Nat

VARIABLES
    run,    \* orchestration_runs
    task,   \* where the background task is
    next,   \* its position in the list
    item,   \* the result of the item at hand, not yet stored
    run_faults

runvars == <<run, task, next, item, run_faults>>
allvars == <<vars, runvars>>

RunStatuses == {"none", "pending", "running", "completed", "completed_with_errors", "failed"}
Decisions == {"approve", "execute", "reapprove", "skip", "not_found"}
Ended == {"completed", "completed_with_errors", "failed"}

NoItem == [action |-> NoAction, decision |-> "skip", success |-> FALSE, status |-> "absent",
           version |-> 0]

\* version (history): the row version the service answered with, 0 if none.
RunItem == [action : Actions \union {NoAction}, decision : Decisions, success : BOOLEAN,
            status : Statuses, version : Nat]

RunRow == [status : RunStatuses, action_ids : Seq(Actions), succeeded : Nat, failed : Nat,
           not_found : Nat, items : Seq(RunItem)]

RunsTypeOK ==
    /\ run \in [Runs -> RunRow]
    /\ task \in [Runs -> {"none", "spawned", "decide", "call", "store", "ended"}]
    /\ next \in [Runs -> Nat]
    /\ item \in [Runs -> RunItem]
    /\ run_faults \in Nat

RunsInit ==
    /\ Init
    /\ run = [r \in Runs |-> [status |-> "none", action_ids |-> <<>>, succeeded |-> 0,
                              failed |-> 0, not_found |-> 0, items |-> <<>>]]
    /\ task = [r \in Runs |-> "none"]
    /\ next = [r \in Runs |-> 0]
    /\ item = [r \in Runs |-> NoItem]
    /\ run_faults = 0

GotoTask(r, where) == task' = [task EXCEPT ![r] = where]

Total(r) == Len(run[r].action_ids)

-----------------------------------------------------------------------------
(* The handler and the pass over the list. *)

\* create_orchestration_run: the row is committed in its own transaction or
\* statement, the task spawned, the handle returned.
CreateRun(r) ==
    /\ task[r] = "none"
    /\ \E ids \in ActionLists :
        run' = [run EXCEPT ![r].status = "pending", ![r].action_ids = ids]
    /\ GotoTask(r, "spawned")
    /\ UNCHANGED <<vars, next, item, run_faults>>

\* get, mark_started, update.
StartRun(r) ==
    /\ task[r] = "spawned"
    /\ run' = [run EXCEPT ![r].status = "running"]
    /\ next' = [next EXCEPT ![r] = 1]
    /\ GotoTask(r, "decide")
    /\ UNCHANGED <<vars, item, run_faults>>

\* What is done about an action in the state it was read in.
Decision(a) ==
    IF status[a] = "pending" THEN "approve"
    ELSE IF status[a] = "approved" /\ IsServiceExecutable(EffectClass[effect[a]])
    THEN "execute"
    ELSE IF CanBeReapproved(a) THEN "reapprove" ELSE "skip"

\* Mutant: the repository is written without the gates of the service.
DecideUngated(r) ==
    /\ task[r] = "decide" /\ next[r] <= Total(r)
    /\ LET a == run[r].action_ids[next[r]]
           d == IF a \in Existing \ Foreign THEN Decision(a) ELSE "not_found"
           calls == d \in Ops
       IN  /\ calls => lock_version[a] < MaxLock
           /\ item' = [item EXCEPT ![r] =
                [action |-> a, decision |-> d, success |-> d = "skip",
                 status |-> status[a], version |-> 0]]
           /\ GotoTask(r, IF calls THEN "call" ELSE "store")
           /\ IF calls
              THEN /\ act' = [act EXCEPT ![r] = a]
                   /\ op' = [op EXCEPT ![r] = d]
                   /\ lv' = [lv EXCEPT ![r] = lock_version[a]]
                   /\ Goto(r, IF d = "execute" THEN "execute" ELSE "write")
              ELSE UNCHANGED <<pc, op, act, lv>>
    /\ UNCHANGED <<rowvars, holder, records, path, result, todo, recorded, aborted,
                   faults, acked, run, next, run_faults>>

\* process_single_action up to the call of the service: approve and reapprove
\* pass the lock_version just read.
Decide(r) ==
    /\ task[r] = "decide" /\ next[r] <= Total(r)
    /\ LET a == run[r].action_ids[next[r]]
           d == IF a \in Existing \ Foreign THEN Decision(a) ELSE "not_found"
           calls == d \in Ops
       IN  /\ calls => lock_version[a] < MaxLock
           /\ item' = [item EXCEPT ![r] =
                [action |-> a, decision |-> d, success |-> d = "skip",
                 status |-> status[a], version |-> 0]]
           /\ GotoTask(r, IF calls THEN "call" ELSE "store")
           /\ IF calls
              THEN /\ act' = [act EXCEPT ![r] = a]
                   /\ op' = [op EXCEPT ![r] = d]
                   /\ lv' = [lv EXCEPT ![r] = lock_version[a]]
                   /\ Goto(r, "check")
              ELSE UNCHANGED <<pc, op, act, lv>>
    /\ UNCHANGED <<rowvars, holder, records, path, result, todo, recorded, aborted,
                   faults, acked, run, next, run_faults>>

\* Inside approve_action, execute_action or reapprove_action.
Call(r) ==
    /\ task[r] = "call"
    /\ Check(r) \/ RunExecutor(r) \/ WriteService(r) \/ InsertRecord(r) \/ InsertRecordError(r)
    /\ UNCHANGED runvars

\* Ok(updated): also the answer to an execution that failed.
Returned(r) ==
    /\ task[r] = "call"
    /\ Respond(r)
    /\ item' = [item EXCEPT ![r].success = TRUE, ![r].status = NewStatus(r),
                            ![r].version = lv[r] + 1]
    /\ GotoTask(r, "store")
    /\ UNCHANGED <<run, next, run_faults>>

\* Mutant: a lost race is taken for done.
RefusedAsDone(r) ==
    /\ task[r] = "call"
    /\ Refuse(r) \/ Conflict(r) \/ Dropped(r)
    /\ item' = [item EXCEPT ![r].success = TRUE, ![r].version = lv[r] + 1,
                            ![r].status = IF pc[r] = "write" THEN NewStatus(r) ELSE @]
    /\ GotoTask(r, "store")
    /\ UNCHANGED <<run, next, run_faults>>

\* Mutant: the error is propagated with ?.
RefusedEnds(r) ==
    /\ task[r] = "call"
    /\ Refuse(r) \/ Conflict(r) \/ Dropped(r)
    /\ GotoTask(r, "ended")
    /\ UNCHANGED <<run, next, item, run_faults>>

\* Err: the gate refused, the row had changed, or a call failed.
Refused(r) ==
    /\ task[r] = "call"
    /\ Refuse(r) \/ Conflict(r) \/ Dropped(r)
    /\ GotoTask(r, "store")
    /\ UNCHANGED <<run, next, item, run_faults>>

\* record_success (skips too), record_failure, record_not_found.
Recorded(row, i) ==
    [row EXCEPT !.items = Append(@, i),
                !.not_found = IF i.decision = "not_found" THEN @ + 1 ELSE @,
                !.succeeded = IF i.success THEN @ + 1 ELSE @,
                !.failed = IF ~i.success /\ i.decision # "not_found" THEN @ + 1 ELSE @]

\* run_repo.update after the item.
StoreItem(r) ==
    /\ task[r] = "store"
    /\ run' = [run EXCEPT ![r] = Recorded(@, item[r])]
    /\ next' = [next EXCEPT ![r] = @ + 1]
    /\ item' = [item EXCEPT ![r] = NoItem]
    /\ GotoTask(r, "decide")
    /\ UNCHANGED <<vars, run_faults>>

\* mark_completed.
FinalStatus(row) ==
    IF row.failed = 0 /\ row.not_found = 0 THEN "completed"
    ELSE IF row.succeeded = 0 THEN "failed" ELSE "completed_with_errors"

FinishRun(r) ==
    /\ task[r] = "decide" /\ next[r] > Total(r)
    /\ run' = [run EXCEPT ![r].status = FinalStatus(run[r])]
    /\ GotoTask(r, "ended")
    /\ UNCHANGED <<vars, next, item, run_faults>>

-----------------------------------------------------------------------------
(* Faults. *)

\* get_action fails: recorded as a failure, the pass goes on.
ReadFailed(r) ==
    /\ task[r] = "decide" /\ next[r] <= Total(r)
    /\ run_faults < MaxRunFaults /\ run_faults' = run_faults + 1
    /\ item' = [item EXCEPT ![r] = [NoItem EXCEPT !.action = run[r].action_ids[next[r]]]]
    /\ GotoTask(r, "store")
    /\ UNCHANGED <<vars, run, next>>

\* A call of run_repo fails (the error is logged and the task ends), or the
\* process dies.  Nothing takes the run up again.
Abandon(r) ==
    /\ task[r] \notin {"none", "ended"}
    /\ run_faults < MaxRunFaults /\ run_faults' = run_faults + 1
    /\ IF task[r] = "call" THEN Dropped(r) ELSE UNCHANGED vars
    /\ GotoTask(r, "ended")
    /\ UNCHANGED <<run, next, item>>

-----------------------------------------------------------------------------
RunStep(r) ==
    \/ StartRun(r) \/ Decide(r) \/ Call(r) \/ Returned(r) \/ Refused(r)
    \/ StoreItem(r) \/ FinishRun(r)

\* Operators, batches: everyone else who calls the service.
OtherStep == (\E c \in Callers \ Runs : Step(c)) /\ UNCHANGED runvars

RunsNext ==
    \/ OtherStep
    \/ \E r \in Runs : CreateRun(r) \/ RunStep(r) \/ ReadFailed(r) \/ Abandon(r)

\* A request under way is polled to its end, and so is a spawned task.
UnderWay(c) == pc[c] # "idle" /\ Step(c) /\ UNCHANGED runvars

RunsFairness ==
    /\ \A r \in Runs : WF_allvars(RunStep(r))
    /\ \A c \in Callers \ Runs : WF_allvars(UnderWay(c))

RunsSpec == RunsInit /\ [][RunsNext]_allvars /\ RunsFairness

-----------------------------------------------------------------------------
(* Properties. *)

\* The composition adds no power: whatever runs do to the actions, a client of
\* the service could do.  What is proved of Compensation holds with runs.
RunsAreCallers == Spec

Items == UNION {{<<r, k>> : k \in DOMAIN run[r].items} : r \in Runs}

ItemOf(x) == run[x[1]].items[x[2]]

Credited(i) == i.success /\ i.decision \in Ops

\* A stored item that claims to have moved an action is true, and exclusive:
\* that version of the row has the reported status, and no other item, of this
\* run or another, claims the same move - although every task acts on a read
\* that others may have overtaken.
ItemsTruthful ==
    /\ \A x \in Items :
        LET i == ItemOf(x) IN
        Credited(i) => /\ i.version <= lock_version[i.action]
                       /\ log[i.action][i.version] = i.status
    /\ \A x, y \in Items :
        /\ Credited(ItemOf(x)) /\ Credited(ItemOf(y))
        /\ ItemOf(x).action = ItemOf(y).action /\ ItemOf(x).version = ItemOf(y).version
        => x = y

\* A run that was accepted ends, whoever else works on its actions, unless a
\* storage call fails or the process dies.
EveryRunEnds ==
    \A r \in Runs : run[r].status = "pending" ~> (run[r].status \in Ended \/ run_faults > 0)

\* "completed -> all actions succeeded" (openapi.yaml): not so when an execution
\* failed, which execute_action answers with Ok.
CompletedMeansSucceeded ==
    \A r \in Runs : run[r].status = "completed" =>
        \A k \in DOMAIN run[r].items : run[r].items[k].status # "failed"

=============================================================================
