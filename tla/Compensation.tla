----------------------------- MODULE Compensation -----------------------------
(***************************************************************************)
(* Compensation actions: planned from the side effects of an intent,       *)
(* approved or waived, executed, and after a failure put back to Pending.  *)
(* Any number of callers (HTTP handlers, their batch forms, orchestration  *)
(* runs) work on the same rows; nothing but the lock_version of a row      *)
(* keeps them apart: a caller reads the row, applies its gates to what it  *)
(* read, and writes with UPDATE ... WHERE lock_version = its version.      *)
(*                                                                         *)
(* A caller takes one of three paths: "service", the methods of            *)
(* CompensationActionService (autocommit); "tx", a handler of              *)
(* compensation_mutation_handlers with an RLS transaction; "batch_tx", one *)
(* item of a batch handler with its RLS transaction.  The service is built *)
(* with a side_effect_repo.  Audit events are best-effort: left out.       *)
(***************************************************************************)
EXTENDS Integers

CONSTANTS
    Actions,      \* ids of compensation actions
    NoAction,
    Effects,      \* the side effects recorded for the intent
    NoEffect,
    EffectClass,  \* their class, S0 to S4
    Callers,
    NoCaller,
    Paths,        \* the paths callers may take
    FailureCodes, \* classes of the error codes executors fail with
    WithRollbackRepo,  \* with_rollback_record_repo was called
    ClientsGuess, \* a client may send a lock_version it has not read
    MaxRetries,   \* max_retries of every action
    MaxLock,      \* bound: lock_version
    MaxFaults     \* bound: failed calls and dropped callers

Classes == {"S0", "S1", "S2", "S3", "S4"}

ASSUME ConstantsAssumption ==
    /\ NoAction \notin Actions /\ NoEffect \notin Effects /\ NoCaller \notin Callers
    /\ EffectClass \in [Effects -> Classes]
    /\ Paths \subseteq {"service", "tx", "batch_tx"}
    /\ FailureCodes \subseteq {"transient", "permanent"}
    /\ WithRollbackRepo \in BOOLEAN /\ ClientsGuess \in BOOLEAN
    /\ MaxRetries \in Nat \ {0} /\ MaxLock \in Nat /\ MaxFaults \in Nat

VARIABLES
    status, lock_version, attempt_count, code, effect,  \* compensation_actions
    holder,      \* the transaction that wrote the row and is still open
    records,     \* side_effect_rollback_records
    pc, op, path, act, lv,  \* a caller: its operation, its lock_version
    result,      \* what the executor answered
    todo,        \* a planner: side effects without an action yet
    recorded,    \* the transaction inserted its rollback record
    aborted,     \* the transaction is in the failed state
    faults,
    \* History, for the properties:
    log,         \* the status each lock_version of a row had
    acked        \* row versions callers were given as the result of a success

rowvars    == <<status, lock_version, attempt_count, code, effect, log>>
callervars == <<pc, op, path, act, lv, result, todo, recorded, aborted>>
vars == <<rowvars, holder, records, callervars, faults, acked>>

Statuses == {"absent", "pending", "approved", "executed", "failed", "waived"}
Ops == {"approve", "waive", "execute", "reapprove"}
Results == {"none", "ok", "transient", "permanent"}
LockVersions == 0 .. MaxLock
RowVersion == [action : Actions, version : Nat, status : Statuses]

TypeOK ==
    /\ status \in [Actions -> Statuses]
    /\ lock_version \in [Actions -> LockVersions]
    /\ attempt_count \in [Actions -> Nat]
    /\ code \in [Actions -> Results]
    /\ effect \in [Actions -> Effects \union {NoEffect}]
    /\ holder \in [Actions -> Callers \union {NoCaller}]
    /\ records \subseteq RowVersion
    /\ pc \in [Callers -> {"idle", "create", "check", "execute", "write", "record",
                           "commit", "respond"}]
    /\ op \in [Callers -> Ops \union {"plan"}]
    /\ path \in [Callers -> {"service", "tx", "batch_tx"}]
    /\ act \in [Callers -> Actions \union {NoAction}]
    /\ lv \in [Callers -> LockVersions]
    /\ result \in [Callers -> Results]
    /\ todo \in [Callers -> SUBSET Effects]
    /\ recorded \in [Callers -> BOOLEAN] /\ aborted \in [Callers -> BOOLEAN]
    /\ faults \in Nat
    /\ log \in [Actions -> [LockVersions -> Statuses]]
    /\ acked \subseteq RowVersion

Init ==
    /\ status = [a \in Actions |-> "absent"]
    /\ lock_version = [a \in Actions |-> 0]
    /\ attempt_count = [a \in Actions |-> 0]
    /\ code = [a \in Actions |-> "none"]
    /\ effect = [a \in Actions |-> NoEffect]
    /\ holder = [a \in Actions |-> NoCaller]
    /\ records = {}
    /\ pc = [c \in Callers |-> "idle"]
    /\ op = [c \in Callers |-> "plan"]
    /\ path = [c \in Callers |-> "service"]
    /\ act = [c \in Callers |-> NoAction]
    /\ lv = [c \in Callers |-> 0]
    /\ result = [c \in Callers |-> "none"]
    /\ todo = [c \in Callers |-> {}]
    /\ recorded = [c \in Callers |-> FALSE]
    /\ aborted = [c \in Callers |-> FALSE]
    /\ faults = 0
    /\ log = [a \in Actions |-> [v \in LockVersions |-> "absent"]]
    /\ acked = {}

Existing == {a \in Actions : status[a] # "absent"}

\* The caller's future ends; an open transaction rolls back.
Finish(c) ==
    /\ pc' = [pc EXCEPT ![c] = "idle"]
    /\ op' = [op EXCEPT ![c] = "plan"]
    /\ path' = [path EXCEPT ![c] = "service"]
    /\ act' = [act EXCEPT ![c] = NoAction]
    /\ lv' = [lv EXCEPT ![c] = 0]
    /\ result' = [result EXCEPT ![c] = "none"]
    /\ todo' = [todo EXCEPT ![c] = {}]
    /\ recorded' = [recorded EXCEPT ![c] = FALSE]
    /\ aborted' = [aborted EXCEPT ![c] = FALSE]
    /\ holder' = [a \in Actions |-> IF holder[a] = c THEN NoCaller ELSE holder[a]]

Goto(c, where) == pc' = [pc EXCEPT ![c] = where]

-----------------------------------------------------------------------------
(* Planning. *)

StrategyType(class) ==
    CASE class = "S1" -> "Rollback"        [] class = "S2" -> "CounterAction"
      [] class = "S3" -> "FollowupNotice"  [] class = "S4" -> "Escalation"

Feasibility(class) ==
    CASE class = "S1" -> "Automatic"   [] class = "S2" -> "SemiAutomatic"
      [] class = "S3" -> "ManualOnly"  [] OTHER -> "NotPossible"

IsServiceExecutable(class) ==
    <<StrategyType(class), Feasibility(class)>> \in
        {<<"Rollback", "Automatic">>, <<"CounterAction", "SemiAutomatic">>,
         <<"FollowupNotice", "ManualOnly">>, <<"Escalation", "NotPossible">>}

\* plan_compensation_actions: every side effect of the intent but pure reads,
\* whether an earlier plan already covered it or not.
Plan(c) ==
    /\ pc[c] = "idle"
    /\ todo' = [todo EXCEPT ![c] = {e \in Effects : EffectClass[e] # "S0"}]
    /\ Goto(c, "create")
    /\ UNCHANGED <<rowvars, holder, records, op, path, act, lv, result, recorded,
                   aborted, faults, acked>>

\* create_action, one insert after the other.
CreateAction(c) ==
    /\ pc[c] = "create"
    /\ \E e \in todo[c], a \in Actions \ Existing :
        /\ status' = [status EXCEPT ![a] = "pending"]
        /\ effect' = [effect EXCEPT ![a] = e]
        /\ log' = [log EXCEPT ![a][0] = "pending"]
        /\ todo' = [todo EXCEPT ![c] = @ \ {e}]
    /\ UNCHANGED <<lock_version, attempt_count, code, holder, records, pc, op, path,
                   act, lv, result, recorded, aborted, faults, acked>>

\* Done (or no id left to the model).
Planned(c) ==
    /\ pc[c] = "create"
    /\ todo[c] = {} \/ Existing = Actions
    /\ Finish(c)
    /\ UNCHANGED <<rowvars, records, faults, acked>>

-----------------------------------------------------------------------------
(* approve, waive, execute, reapprove. *)

\* A request comes in.  The client sends the lock_version of some earlier read;
\* a batch or an orchestration run has just read it.
Start(c) ==
    /\ pc[c] = "idle"
    /\ \E a \in Existing, o \in Ops, p \in Paths, v \in LockVersions \ {MaxLock} :
        /\ p = "batch_tx" => o # "waive"
        /\ ClientsGuess \/ v <= lock_version[a]
        /\ act' = [act EXCEPT ![c] = a]
        /\ op' = [op EXCEPT ![c] = o]
        /\ path' = [path EXCEPT ![c] = p]
        /\ lv' = [lv EXCEPT ![c] = v]
    /\ Goto(c, "check")
    /\ UNCHANGED <<rowvars, holder, records, result, todo, recorded, aborted, faults,
                   acked>>

\* can_transition_to, for the targets these operations ask for.
CanTransitionTo(s, target) ==
    <<s, target>> \in {<<"pending", "approved">>, <<"pending", "waived">>,
                       <<"approved", "executed">>, <<"failed", "pending">>}

\* Mutant: the error is not classified.
CanBeReapprovedUnclassified(a) == status[a] = "failed" /\ attempt_count[a] < MaxRetries

\* reapproval_denial_reason is None.
CanBeReapproved(a) ==
    /\ status[a] = "failed"
    /\ attempt_count[a] < MaxRetries
    /\ code[a] # "permanent"

\* The batch handler's RLS path checks the status and nothing else.
ReapproveGate(a, p) == IF p = "batch_tx" THEN status[a] = "failed" ELSE CanBeReapproved(a)

Allowed(a, o, p) ==
    \/ o = "approve" /\ CanTransitionTo(status[a], "approved")
    \/ o = "waive" /\ CanTransitionTo(status[a], "waived")
    \/ /\ o = "execute"
       /\ status[a] = "approved" /\ IsServiceExecutable(EffectClass[effect[a]])
    \/ o = "reapprove" /\ ReapproveGate(a, p)

\* execute and the batch handlers use the version they read here, the others
\* the one they were given.
Captured(c) ==
    IF op[c] = "execute" \/ path[c] = "batch_tx" THEN lock_version[act[c]] ELSE lv[c]

\* get, and the gates.
Check(c) ==
    /\ pc[c] = "check"
    /\ Allowed(act[c], op[c], path[c]) /\ lock_version[act[c]] < MaxLock
    /\ lv' = [lv EXCEPT ![c] = Captured(c)]
    /\ Goto(c, IF op[c] = "execute" THEN "execute" ELSE "write")
    /\ UNCHANGED <<rowvars, holder, records, op, path, act, result, todo, recorded,
                   aborted, faults, acked>>

\* InvalidCompensationActionTransition, NotExecutable, NotReapprovable.  (The
\* bound on versions also ends a request.)
Refuse(c) ==
    /\ pc[c] = "check"
    /\ ~Allowed(act[c], op[c], path[c]) \/ lock_version[act[c]] = MaxLock
    /\ Finish(c)
    /\ UNCHANGED <<rowvars, records, faults, acked>>

\* The executor reads the side effect and acknowledges, or fails with a code.
RunExecutor(c) ==
    /\ pc[c] = "execute"
    /\ \E r \in {"ok"} \union FailureCodes : result' = [result EXCEPT ![c] = r]
    /\ Goto(c, "write")
    /\ UNCHANGED <<rowvars, holder, records, op, path, act, lv, todo, recorded,
                   aborted, faults, acked>>

\* WHERE id = $1 AND lock_version = $n; only reapprove looks at the status too.
CasHolds(c) ==
    /\ lock_version[act[c]] = lv[c]
    /\ op[c] = "reapprove" => status[act[c]] = "failed"

\* The status the operation asks the UPDATE to write.
NewStatus(c) ==
    IF op[c] = "approve" THEN "approved"
    ELSE IF op[c] = "waive" THEN "waived"
    ELSE IF op[c] = "reapprove" THEN "pending"
    ELSE IF result[c] = "ok" THEN "executed" ELSE "failed"

\* update_status, record_result, reapprove: the row as the UPDATE leaves it.
UpdateRow(c) ==
    LET a == act[c] IN
    /\ status' = [status EXCEPT ![a] = NewStatus(c)]
    /\ lock_version' = [lock_version EXCEPT ![a] = @ + 1]
    /\ attempt_count' = [attempt_count EXCEPT ![a] = IF op[c] = "execute" THEN @ + 1 ELSE @]
    /\ code' = [code EXCEPT ![a] = IF op[c] = "execute" THEN result[c] ELSE @]
    /\ log' = [log EXCEPT ![a][lock_version[a] + 1] = NewStatus(c)]
    /\ UNCHANGED effect

\* The row version the UPDATE returns, which the handler answers with.
Updated(c) == [action |-> act[c], version |-> lv[c] + 1, status |-> NewStatus(c)]

KeepsRecord(c) == WithRollbackRepo /\ op[c] \in {"waive", "execute"}

\* The autocommitted UPDATE.
WriteService(c) ==
    /\ pc[c] = "write" /\ path[c] = "service" /\ holder[act[c]] = NoCaller
    /\ CasHolds(c)
    /\ UpdateRow(c)
    /\ Goto(c, IF KeepsRecord(c) THEN "record" ELSE "respond")
    /\ UNCHANGED <<holder, records, op, path, act, lv, result, todo, recorded, aborted,
                   faults, acked>>

\* The UPDATE in a transaction: the row stays locked until the commit.
WriteTx(c) ==
    /\ pc[c] = "write" /\ path[c] # "service" /\ holder[act[c]] = NoCaller
    /\ CasHolds(c)
    /\ holder' = [holder EXCEPT ![act[c]] = c]
    /\ Goto(c, IF KeepsRecord(c) THEN "record" ELSE "commit")
    /\ UNCHANGED <<rowvars, records, op, path, act, lv, result, todo, recorded, aborted,
                   faults, acked>>

\* Mutant: execute() instead of fetch_optional(), the row count not looked at.
ConflictUnnoticed(c) ==
    /\ pc[c] = "write" /\ holder[act[c]] = NoCaller
    /\ ~CasHolds(c)
    /\ Goto(c, "respond")
    /\ UNCHANGED <<rowvars, holder, records, op, path, act, lv, result, todo, recorded,
                   aborted, faults, acked>>

\* ConcurrencyConflict: no row matched.
Conflict(c) ==
    /\ pc[c] = "write" /\ holder[act[c]] = NoCaller
    /\ ~CasHolds(c)
    /\ Finish(c)
    /\ UNCHANGED <<rowvars, records, faults, acked>>

\* Mutant: create instead of create_with_tx, on another connection.
InsertRecordOutside(c) ==
    /\ pc[c] = "record"
    /\ records' = records \union {Updated(c)}
    /\ Goto(c, IF path[c] = "service" THEN "respond" ELSE "commit")
    /\ UNCHANGED <<rowvars, holder, op, path, act, lv, result, todo, recorded, aborted,
                   faults, acked>>

\* SideEffectRollbackRecord, after the update.
InsertRecord(c) ==
    /\ pc[c] = "record"
    /\ \/ /\ path[c] = "service"
          /\ records' = records \union {Updated(c)}
          /\ Goto(c, "respond")
          /\ UNCHANGED recorded
       \/ /\ path[c] # "service"
          /\ recorded' = [recorded EXCEPT ![c] = TRUE]
          /\ Goto(c, "commit")
          /\ UNCHANGED records
    /\ UNCHANGED <<rowvars, holder, op, path, act, lv, result, todo, aborted, faults, acked>>

\* What the transaction wrote becomes visible.
Applied(c) ==
    /\ UpdateRow(c)
    /\ records' = IF recorded[c] THEN records \union {Updated(c)} ELSE records

\* A COMMIT of a failed transaction is answered as a success and rolls back.
Commit(c) ==
    /\ pc[c] = "commit"
    /\ \/ ~aborted[c] /\ Applied(c)
       \/ aborted[c] /\ UNCHANGED <<rowvars, records>>
    /\ holder' = [holder EXCEPT ![act[c]] = NoCaller]
    /\ Goto(c, "respond")
    /\ UNCHANGED <<op, path, act, lv, result, todo, recorded, aborted, faults, acked>>

Respond(c) ==
    /\ pc[c] = "respond"
    /\ acked' = acked \union {Updated(c)}
    /\ Finish(c)
    /\ UNCHANGED <<rowvars, records, faults>>

-----------------------------------------------------------------------------
(* Faults. *)

\* The insert of the rollback record fails: logged, nothing else.
InsertRecordError(c) ==
    /\ faults < MaxFaults /\ faults' = faults + 1
    /\ pc[c] = "record"
    /\ aborted' = [aborted EXCEPT ![c] = (path[c] # "service")]
    /\ Goto(c, IF path[c] = "service" THEN "respond" ELSE "commit")
    /\ UNCHANGED <<rowvars, holder, records, op, path, act, lv, result, todo, recorded,
                   acked>>

\* A call fails or the caller is dropped; its UPDATE or its COMMIT may have
\* gone through.
Dropped(c) ==
    /\ faults < MaxFaults /\ faults' = faults + 1
    /\ pc[c] # "idle"
    /\ \/ UNCHANGED <<rowvars, records>>
       \/ /\ pc[c] = "write" /\ path[c] = "service" /\ holder[act[c]] = NoCaller
          /\ CasHolds(c)
          /\ UpdateRow(c) /\ UNCHANGED records
       \/ pc[c] = "commit" /\ ~aborted[c] /\ Applied(c)
    /\ Finish(c)
    /\ UNCHANGED acked

-----------------------------------------------------------------------------
Step(c) ==
    \/ Plan(c) \/ CreateAction(c) \/ Planned(c)
    \/ Start(c) \/ Check(c) \/ Refuse(c) \/ RunExecutor(c)
    \/ WriteService(c) \/ WriteTx(c) \/ Conflict(c)
    \/ InsertRecord(c) \/ Commit(c) \/ Respond(c)
    \/ InsertRecordError(c) \/ Dropped(c)

Next == \E c \in Callers : Step(c)

Spec == Init /\ [][Next]_vars

-----------------------------------------------------------------------------
(* Properties. *)

Legal == {<<"absent", "pending">>, <<"pending", "approved">>, <<"pending", "waived">>,
          <<"approved", "executed">>, <<"approved", "failed">>, <<"failed", "pending">>}

\* The transition matrix of CompensationStatus, for every pair of callers: the
\* UPDATEs compare the lock_version and not the status, so what a gate saw must
\* still be true when the write lands.  Executed and Waived are final, nothing
\* is executed twice, and every attempt has its own approval.
LegalTransitions ==
    [][\A a \in Actions :
        status'[a] # status[a] => <<status[a], status'[a]>> \in Legal]_vars

\* A dead-letter candidate stays one: no failure leaves Failed once its budget
\* is spent or its error is permanent ("DLQ candidates cannot be reapproved").
DlqIsFinal ==
    [][\A a \in Actions :
        status[a] = "failed" /\ (attempt_count[a] >= MaxRetries \/ code[a] = "permanent")
            => status'[a] = "failed"]_vars

\* No sequence of approvals, failures and reapprovals attempts an action more
\* than max_retries times.
AttemptsWithinBudget == \A a \in Actions : attempt_count[a] <= MaxRetries

\* A rollback record tells what happened: the version it was written for has
\* the outcome it reports, and no two records report on one version.
RecordsAccurate ==
    /\ \A r \in records : r.version <= lock_version[r.action]
                          /\ log[r.action][r.version] = r.status
    /\ \A r, q \in records : r.action = q.action /\ r.version = q.version => r = q

\* A caller that was answered with the updated action was told the truth: that
\* version of the row exists and has that status.
AnsweredIsStored ==
    \A r \in acked : r.version <= lock_version[r.action]
                     /\ log[r.action][r.version] = r.status

=============================================================================
