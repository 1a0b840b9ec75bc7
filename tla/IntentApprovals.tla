--------------------------- MODULE IntentApprovals ---------------------------
(***************************************************************************)
(* One intent and its approval requests.  Three families of HTTP handlers  *)
(* work on them concurrently: create_version (intent-service), the two     *)
(* handlers that ask for a new approval (trigger_reapproval, and           *)
(* rebase_apply when the risk guard blocks it), and the decisions approve, *)
(* reject and expire.                                                      *)
(*                                                                         *)
(* Each handler runs on one of two paths: "pool", one autocommitted        *)
(* statement after the other, or "tx", an RLS transaction (READ COMMITTED).*)
(* A statement of a transaction takes effect when it commits; the rows it  *)
(* wrote are locked until then, and a statement of another handler that    *)
(* wants them waits.  Audit records and event publishing are best-effort   *)
(* and read by none of these handlers: left out.                           *)
(***************************************************************************)
EXTENDS Integers, FiniteSets

CONSTANTS
    Handlers,         \* requests being served at the same time
    NoHandler,
    Requests,         \* ids (UUIDs) of approval requests
    NoRequest,
    Paths,            \* the paths handlers may take, of {"pool", "tx"}
    WithApprovalRepo, \* IntentService built with an approval_repo
    MaxVersions,      \* bound: versions of the intent
    MaxFaults         \* bound: failed calls and dropped handlers

ASSUME ConstantsAssumption ==
    /\ NoHandler \notin Handlers /\ NoRequest \notin Requests
    /\ Paths \subseteq {"pool", "tx"}
    /\ WithApprovalRepo \in BOOLEAN
    /\ MaxVersions \in Nat \ {0} /\ MaxFaults \in Nat
    /\ IsFiniteSet(Requests)

VARIABLES
    current_version, row_version,  \* the row of table intents
    intent_lock,                   \* the transaction holding that row
    status,                        \* table approval_requests
    pc, path, kind,                \* a handler: where it is, which one it is
    expected,                      \* expected_version, expected_row_version
    req, plan, affected, stale,    \* the request it creates, what it cancels
    rows,                          \* the rows its transaction set to cancelled
    aborted,                       \* its transaction is in the failed state
    faults,
    \* History, for the properties:
    base,          \* the version the creator of each version expected
    open,          \* pending requests when a handler's version became current
    withdrawn_for, \* the version a request was cancelled for
    must,          \* approvals a request had to supersede when it was asked for
    atomic,        \* requests whose creating transaction committed
    failed,        \* a call of this handler failed
    answers,       \* the decisions on a request that were answered with 200
    superseder     \* the new request a cancelled request was cancelled for

intent   == <<current_version, row_version, intent_lock>>
locals   == <<path, kind, expected, req, plan, affected, stale, rows, aborted>>
history  == <<base, open, withdrawn_for, must, atomic, failed, answers, superseder>>
vars     == <<intent, status, pc, locals, faults, history>>

Versions == 1 .. MaxVersions
Statuses == {"absent", "pending", "approved", "rejected", "expired", "cancelled"}
Decisions == {"approved", "rejected", "expired"}
PCs == {"idle", "occ", "withdraw", "commit_version",
        "create", "list", "targeted", "flat", "commit", "respond"}
Plans == {"flat", "partial", "critical"}

TypeOK ==
    /\ current_version \in Versions /\ row_version \in Versions
    /\ intent_lock \in Handlers \union {NoHandler}
    /\ status \in [Requests -> Statuses]
    /\ pc \in [Handlers -> PCs]
    /\ path \in [Handlers -> {"pool", "tx"}]
    /\ kind \in [Handlers -> {"trigger", "apply", "version"}]
    /\ expected \in [Handlers -> [version : Nat, row : Nat]]
    /\ req \in [Handlers -> Requests \union {NoRequest}]
    /\ plan \in [Handlers -> Plans]
    /\ affected \in [Handlers -> SUBSET Requests]
    /\ stale \in [Handlers -> SUBSET Requests]
    /\ rows \in [Handlers -> SUBSET Requests]
    /\ aborted \in [Handlers -> BOOLEAN]
    /\ faults \in Nat
    /\ base \in [Versions -> Nat]
    /\ open \in [Handlers -> SUBSET Requests]
    /\ withdrawn_for \in [Requests -> Nat]
    /\ must \in [Requests -> SUBSET Requests]
    /\ atomic \subseteq Requests
    /\ failed \in [Handlers -> BOOLEAN]
    /\ answers \in [Requests -> SUBSET Decisions]
    /\ superseder \in [Requests -> Requests \union {NoRequest}]

\* create_intent: version 1, row_version 1 (the column's default).
Init ==
    /\ current_version = 1 /\ row_version = 1 /\ intent_lock = NoHandler
    /\ status = [r \in Requests |-> "absent"]
    /\ pc = [h \in Handlers |-> "idle"]
    /\ path = [h \in Handlers |-> "pool"]
    /\ kind = [h \in Handlers |-> "version"]
    /\ expected = [h \in Handlers |-> [version |-> 0, row |-> 0]]
    /\ req = [h \in Handlers |-> NoRequest]
    /\ plan = [h \in Handlers |-> "flat"]
    /\ affected = [h \in Handlers |-> {}]
    /\ stale = [h \in Handlers |-> {}]
    /\ rows = [h \in Handlers |-> {}]
    /\ aborted = [h \in Handlers |-> FALSE]
    /\ faults = 0
    /\ base = [v \in Versions |-> 0]
    /\ open = [h \in Handlers |-> {}]
    /\ withdrawn_for = [r \in Requests |-> 0]
    /\ must = [r \in Requests |-> {}]
    /\ atomic = {}
    /\ failed = [h \in Handlers |-> FALSE]
    /\ answers = [r \in Requests |-> {}]
    /\ superseder = [r \in Requests |-> NoRequest]

WithStatus(s) == {r \in Requests : status[r] = s}
Existing == {r \in Requests : status[r] # "absent"}

\* Rows another handler's open transaction has written.
LockedFor(h) == UNION {rows[g] : g \in Handlers \ {h}}

\* The handler's future ends: its locals are dropped, and with them an open
\* transaction, which rolls back.
Finish(h) ==
    /\ pc' = [pc EXCEPT ![h] = "idle"]
    /\ path' = [path EXCEPT ![h] = "pool"]
    /\ kind' = [kind EXCEPT ![h] = "version"]
    /\ expected' = [expected EXCEPT ![h] = [version |-> 0, row |-> 0]]
    /\ req' = [req EXCEPT ![h] = NoRequest]
    /\ plan' = [plan EXCEPT ![h] = "flat"]
    /\ affected' = [affected EXCEPT ![h] = {}]
    /\ stale' = [stale EXCEPT ![h] = {}]
    /\ rows' = [rows EXCEPT ![h] = {}]
    /\ aborted' = [aborted EXCEPT ![h] = FALSE]
    /\ intent_lock' = IF intent_lock = h THEN NoHandler ELSE intent_lock
    /\ open' = [open EXCEPT ![h] = {}]
    /\ failed' = [failed EXCEPT ![h] = FALSE]

-----------------------------------------------------------------------------
(* create_version and create_version_with_rls. *)

\* get_intent_for_update is a plain read.  Expected values the client does not
\* send default to the values read.
ReadIntent(h) ==
    /\ pc[h] = "idle"
    /\ \E p \in Paths, v \in Versions \union {current_version},
          n \in Versions \union {row_version} :
        /\ path' = [path EXCEPT ![h] = p]
        /\ expected' = [expected EXCEPT ![h] = [version |-> v, row |-> n]]
    /\ pc' = [pc EXCEPT ![h] = "occ"]
    /\ UNCHANGED <<intent, status, kind, req, plan, affected, stale, rows,
                   aborted, faults, history>>

\* Mutant: a caller whose expectation was overtaken is let through.
OccOvertaken(h) ==
    /\ current_version >= expected[h].version
    /\ row_version >= expected[h].row

OccHolds(h) ==
    /\ current_version = expected[h].version
    /\ row_version = expected[h].row

\* The version row and the intents row of one transaction become visible.
InstallVersion(h) ==
    /\ current_version' = current_version + 1
    /\ row_version' = row_version + 1
    /\ base' = [base EXCEPT ![current_version + 1] = expected[h].version]

\* Mutant: the builder's with_approval_repo is lost on the way.
AfterVersionUnwired == "respond"

AfterVersion == IF WithApprovalRepo THEN "withdraw" ELSE "respond"

\* create_version_with_occ: SELECT FOR UPDATE, the checks, the two writes and
\* the commit; the row lock makes them one step.
CreateVersionWithOcc(h) ==
    /\ pc[h] = "occ" /\ path[h] = "pool" /\ intent_lock = NoHandler
    /\ current_version < MaxVersions
    /\ OccHolds(h)
    /\ InstallVersion(h)
    /\ open' = [open EXCEPT ![h] = WithStatus("pending")]
    /\ pc' = [pc EXCEPT ![h] = AfterVersion]
    /\ UNCHANGED <<intent_lock, status, locals, faults, withdrawn_for, must, atomic,
                   failed, answers, superseder>>

\* create_version_with_tx: the same checks and writes, kept open.
CreateVersionWithTx(h) ==
    /\ pc[h] = "occ" /\ path[h] = "tx" /\ intent_lock = NoHandler
    /\ current_version < MaxVersions
    /\ OccHolds(h)
    /\ intent_lock' = h
    /\ pc' = [pc EXCEPT ![h] = IF WithApprovalRepo THEN "withdraw" ELSE "commit_version"]
    /\ UNCHANGED <<current_version, row_version, status, locals, faults, history>>

\* ConcurrencyConflict, an error for the client.
Conflict(h) ==
    /\ pc[h] = "occ" /\ intent_lock = NoHandler
    /\ ~OccHolds(h)
    /\ Finish(h)
    /\ UNCHANGED <<current_version, row_version, status, faults, base,
                   withdrawn_for, must, atomic, answers, superseder>>

AfterWithdraw(h) == IF path[h] = "tx" THEN "commit_version" ELSE "respond"

WithdrawPending == WithStatus("pending")

\* cancel_pending_by_intent, on the pool on both paths: it commits by itself.
\* The rows an open transaction holds are approved ones: nothing to wait for.
CancelPendingByIntent(h) ==
    /\ pc[h] = "withdraw"
    /\ status' = [r \in Requests |->
                    IF r \in WithdrawPending THEN "cancelled" ELSE status[r]]
    /\ withdrawn_for' = [r \in Requests |->
                    IF r \in WithdrawPending THEN expected[h].version + 1
                    ELSE withdrawn_for[r]]
    /\ pc' = [pc EXCEPT ![h] = AfterWithdraw(h)]
    /\ UNCHANGED <<intent, locals, faults, base, open, must, atomic, failed,
                   answers, superseder>>

CommitVersion(h) ==
    /\ pc[h] = "commit_version"
    /\ InstallVersion(h)
    /\ open' = [open EXCEPT ![h] = WithStatus("pending")]
    /\ intent_lock' = NoHandler
    /\ pc' = [pc EXCEPT ![h] = "respond"]
    /\ UNCHANGED <<status, locals, faults, withdrawn_for, must, atomic, failed, answers,
                   superseder>>

-----------------------------------------------------------------------------
(* trigger_reapproval, and rebase_apply with outcome BlockedManualReview.     *)

\* What the handler must invalidate: the approvals its plan names, or all of
\* them when the plan names none it can match.
Supersedes(p, aff) ==
    IF p = "partial" /\ aff # {} THEN aff \intersect WithStatus("approved")
                                 ELSE WithStatus("approved")

\* The checks, and for rebase_apply the plan: "flat" when the classifier is
\* not used or defers (class E, graph unavailable, nothing affected), else the
\* approvals of the intent the graph refers to, for a High or a Critical risk
\* tier.  new_pending draws the id.
Ask(h, r, p, k, pl, aff) ==
    /\ \A g \in Handlers : req[g] # r
    /\ k = "trigger" => pl = "flat"
    /\ pl = "flat" => aff = {}
    /\ req' = [req EXCEPT ![h] = r]
    /\ path' = [path EXCEPT ![h] = p]
    /\ kind' = [kind EXCEPT ![h] = k]
    /\ plan' = [plan EXCEPT ![h] = pl]
    /\ affected' = [affected EXCEPT ![h] = aff]
    /\ must' = [must EXCEPT ![r] = Supersedes(pl, aff)]

AskApproval(h) ==
    /\ pc[h] = "idle"
    /\ \E r \in Requests \ Existing, p \in Paths, k \in {"trigger", "apply"},
          pl \in Plans, aff \in SUBSET Existing : Ask(h, r, p, k, pl, aff)
    /\ pc' = [pc EXCEPT ![h] = "create"]
    /\ UNCHANGED <<intent, status, expected, stale, rows, aborted, faults, base,
                   open, withdrawn_for, atomic, failed, answers, superseder>>

AfterCreate(h) == IF plan[h] = "flat" THEN "flat" ELSE "list"
AfterCancel(h) == IF path[h] = "tx" THEN "commit" ELSE "respond"

\* create_approval_request inserts the row; in a transaction nobody sees it yet.
CreateApprovalRequest(h) ==
    /\ pc[h] = "create" /\ status[req[h]] = "absent"
    /\ status' = IF path[h] = "tx" THEN status
                 ELSE [status EXCEPT ![req[h]] = "pending"]
    /\ pc' = [pc EXCEPT ![h] = AfterCreate(h)]
    /\ UNCHANGED <<intent, locals, faults, history>>

\* classify_approvals on list_by_intent, which runs on the pool.
StaleIds(h) ==
    IF plan[h] = "critical" THEN Existing ELSE affected[h] \intersect Existing

\* Mutant: nothing stale, nothing cancelled.
AfterListDone(h, ids) == IF ids = {} THEN AfterCancel(h) ELSE "targeted"

AfterList(h, ids) == IF ids = {} THEN "flat" ELSE "targeted"

ListByIntent(h) ==
    /\ pc[h] = "list"
    /\ stale' = [stale EXCEPT ![h] = StaleIds(h)]
    /\ pc' = [pc EXCEPT ![h] = AfterList(h, StaleIds(h))]
    /\ UNCHANGED <<intent, status, path, kind, expected, req, plan, affected, rows,
                   aborted, faults, history>>

\* UPDATE ... SET status = 'cancelled' WHERE status = 'approved' AND id \in ids:
\* the rows it hits, and what becomes of them.
Hit(h, ids) == (ids \intersect WithStatus("approved")) \ rows[h]

CancelApproved(h, ids) ==
    /\ ~aborted[h]
    /\ Hit(h, ids) \intersect LockedFor(h) = {}
    /\ \/ /\ path[h] = "tx"
          /\ rows' = [rows EXCEPT ![h] = rows[h] \union Hit(h, ids)]
          /\ UNCHANGED <<status, superseder>>
       \/ /\ path[h] = "pool"
          /\ status' = [r \in Requests |->
                           IF r \in Hit(h, ids) THEN "cancelled" ELSE status[r]]
          /\ superseder' = [r \in Requests |->
                           IF r \in Hit(h, ids) THEN req[h] ELSE superseder[r]]
          /\ UNCHANGED rows

\* cancel_approved_by_ids.  Fewer rows than ids leads to the flat fallback; so
\* do two graph nodes that name the same approval.
CancelApprovedByIds(h) ==
    /\ pc[h] = "targeted"
    /\ CancelApproved(h, stale[h])
    /\ \/ /\ stale[h] = Hit(h, stale[h])
          /\ pc' = [pc EXCEPT ![h] = AfterCancel(h)]
       \/ /\ stale[h] # Hit(h, stale[h]) \/ plan[h] = "partial"
          /\ pc' = [pc EXCEPT ![h] = "flat"]
    /\ UNCHANGED <<intent, path, kind, expected, req, plan, affected, stale,
                   aborted, faults, base, open, withdrawn_for, must, atomic, failed,
                   answers>>

\* cancel_approved_by_intent.
CancelApprovedByIntent(h) ==
    /\ pc[h] = "flat"
    /\ CancelApproved(h, Requests)
    /\ pc' = [pc EXCEPT ![h] = AfterCancel(h)]
    /\ UNCHANGED <<intent, path, kind, expected, req, plan, affected, stale,
                   aborted, faults, base, open, withdrawn_for, must, atomic, failed,
                   answers>>

\* What the transaction wrote becomes visible, the new row with it.
Applied(h) ==
    /\ status' = [r \in Requests |-> IF r = req[h] THEN "pending"
                                     ELSE IF r \in rows[h] THEN "cancelled"
                                     ELSE status[r]]
    /\ superseder' = [r \in Requests |-> IF r \in rows[h] THEN req[h] ELSE superseder[r]]
    /\ atomic' = atomic \union {req[h]}

\* A COMMIT of a failed transaction is answered as a success and rolls back.
Commit(h) ==
    /\ pc[h] = "commit"
    /\ \/ ~aborted[h] /\ Applied(h)
       \/ aborted[h] /\ UNCHANGED <<status, superseder, atomic>>
    /\ rows' = [rows EXCEPT ![h] = {}]
    /\ pc' = [pc EXCEPT ![h] = "respond"]
    /\ UNCHANGED <<intent, path, kind, expected, req, plan, affected, stale,
                   aborted, faults, base, open, withdrawn_for, must, failed, answers>>

\* The response of any handler that got this far.
Respond(h) ==
    /\ pc[h] = "respond"
    /\ Finish(h)
    /\ UNCHANGED <<current_version, row_version, status, faults, base,
                   withdrawn_for, must, atomic, answers, superseder>>

-----------------------------------------------------------------------------
(* approve, reject and expire. *)

\* Mutant: the UPDATE lost its AND status = 'pending'.
DecidableAny(r) == status[r] # "absent"

Decidable(r) == status[r] = "pending"

\* The handler reads the request for its tenant and its audit record; whether
\* it may decide is up to the guarded UPDATE alone, committed at once or as
\* the one statement of a transaction.
Decide(r, d) ==
    /\ Decidable(r)
    /\ status' = [status EXCEPT ![r] = d]
    /\ answers' = [answers EXCEPT ![r] = @ \union {d}]
    /\ UNCHANGED <<intent, pc, locals, faults, base, open, withdrawn_for, must,
                   atomic, failed, superseder>>

-----------------------------------------------------------------------------
(* Faults: a call that returns an error, or a handler dropped at an await     *)
(* (the client disconnects, the process dies).                                *)

Fault(h) == /\ faults < MaxFaults /\ faults' = faults + 1
            /\ failed' = [failed EXCEPT ![h] = TRUE]

\* The row was updated, the answer got lost.
DecideUnanswered(r, d) ==
    /\ faults < MaxFaults /\ faults' = faults + 1
    /\ Decidable(r)
    /\ status' = [status EXCEPT ![r] = d]
    /\ UNCHANGED <<intent, pc, locals, history>>

\* .unwrap_or(0): the error is swallowed and the version stands.
WithdrawError(h) ==
    /\ Fault(h)
    /\ pc[h] = "withdraw"
    /\ pc' = [pc EXCEPT ![h] = AfterWithdraw(h)]
    /\ UNCHANGED <<intent, status, locals, base, open, withdrawn_for, must, atomic,
                   answers, superseder>>

\* rebase_apply gives up its transaction for the pool, and on the pool goes on
\* without a request; trigger_reapproval returns the error.
CreateError(h) ==
    /\ Fault(h)
    /\ pc[h] = "create" /\ kind[h] = "apply"
    /\ path' = [path EXCEPT ![h] = "pool"]
    /\ \/ path[h] = "tx" /\ UNCHANGED <<pc, status>>
       \/ /\ path[h] = "pool"
          /\ pc' = [pc EXCEPT ![h] = "respond"]
          /\ \/ UNCHANGED status
             \/ /\ status[req[h]] = "absent"
                /\ status' = [status EXCEPT ![req[h]] = "pending"]
    /\ UNCHANGED <<intent, kind, expected, req, plan, affected, stale, rows, aborted,
                   base, open, withdrawn_for, must, atomic, answers, superseder>>

\* The row is there already: the commit before the fallback went through.
CreateDuplicate(h) ==
    /\ pc[h] = "create" /\ status[req[h]] # "absent"
    /\ pc' = [pc EXCEPT ![h] = "respond"]
    /\ UNCHANGED <<intent, status, locals, faults, history>>

ListError(h) ==
    /\ Fault(h)
    /\ pc[h] = "list"
    /\ pc' = [pc EXCEPT ![h] = "flat"]
    /\ UNCHANGED <<intent, status, locals, base, open, withdrawn_for, must, atomic,
                   answers, superseder>>

\* The error is logged; a transaction of rebase_apply stays open, failed.
CancelError(h) ==
    /\ Fault(h)
    /\ pc[h] \in {"targeted", "flat"} /\ ~(kind[h] = "trigger" /\ path[h] = "tx")
    /\ aborted' = [aborted EXCEPT ![h] = (path[h] = "tx")]
    /\ pc' = [pc EXCEPT ![h] = IF pc[h] = "targeted" THEN "flat" ELSE AfterCancel(h)]
    /\ UNCHANGED <<intent, status, path, kind, expected, req, plan, affected, stale,
                   rows, base, open, withdrawn_for, must, atomic, answers, superseder>>

\* The flat fallback in a failed transaction fails too.
CancelInAborted(h) ==
    /\ pc[h] = "flat" /\ aborted[h]
    /\ pc' = [pc EXCEPT ![h] = "commit"]
    /\ UNCHANGED <<intent, status, locals, faults, history>>

\* rebase_apply: the commit fails, with or without effect, and the fallback
\* creates the same request again on the pool.
CommitError(h) ==
    /\ Fault(h)
    /\ pc[h] = "commit" /\ kind[h] = "apply"
    /\ \/ UNCHANGED <<status, superseder, atomic>>
       \/ ~aborted[h] /\ Applied(h)
    /\ rows' = [rows EXCEPT ![h] = {}]
    /\ aborted' = [aborted EXCEPT ![h] = FALSE]
    /\ path' = [path EXCEPT ![h] = "pool"]
    /\ pc' = [pc EXCEPT ![h] = "create"]
    /\ UNCHANGED <<intent, kind, expected, req, plan, affected, stale, base, open,
                   withdrawn_for, must, answers>>

\* The handler ends with an error or is dropped; a transaction rolls back,
\* unless its COMMIT was under way.
Dropped(h) ==
    /\ faults < MaxFaults /\ faults' = faults + 1
    /\ pc[h] # "idle"
    /\ \/ UNCHANGED <<status, superseder, atomic>>
       \/ pc[h] = "commit" /\ ~aborted[h] /\ Applied(h)
    /\ Finish(h)
    /\ UNCHANGED <<current_version, row_version, base, withdrawn_for, must, answers>>

\* The COMMIT of a version goes through, its answer is lost.
CommitVersionUnanswered(h) ==
    /\ faults < MaxFaults /\ faults' = faults + 1
    /\ pc[h] = "commit_version"
    /\ InstallVersion(h)
    /\ Finish(h)
    /\ UNCHANGED <<status, withdrawn_for, must, atomic, answers, superseder>>

-----------------------------------------------------------------------------
VersionStep(h) ==
    \/ ReadIntent(h) \/ CreateVersionWithOcc(h) \/ CreateVersionWithTx(h)
    \/ Conflict(h) \/ CancelPendingByIntent(h) \/ CommitVersion(h)

ReapprovalStep(h) ==
    \/ AskApproval(h) \/ CreateApprovalRequest(h) \/ ListByIntent(h)
    \/ CancelApprovedByIds(h) \/ CancelApprovedByIntent(h) \/ Commit(h)
    \/ CreateDuplicate(h) \/ CancelInAborted(h)

FaultStep(h) ==
    \/ WithdrawError(h) \/ CreateError(h) \/ ListError(h) \/ CancelError(h)
    \/ CommitError(h) \/ Dropped(h) \/ CommitVersionUnanswered(h)

Next ==
    \/ \E h \in Handlers :
         VersionStep(h) \/ ReapprovalStep(h) \/ Respond(h) \/ FaultStep(h)
    \/ \E r \in Requests, d \in Decisions : Decide(r, d) \/ DecideUnanswered(r, d)

Spec == Init /\ [][Next]_vars

-----------------------------------------------------------------------------
(* Properties. *)

\* create_version: nobody's version is built on a version its author did not
\* expect, whatever path the concurrent creators take, and the two counters of
\* the row never drift apart.
NoLostUpdate ==
    /\ row_version = current_version
    /\ \A v \in 2 .. current_version : base[v] = v - 1

\* A decision answered with success is the one the row shows, unless a later
\* reapproval cancelled an approval: two reviewers, or a reviewer and a
\* withdrawal, never both succeed on one request.
DecisionStands ==
    \A r \in Requests : \A d \in answers[r] :
        status[r] = d \/ (d = "approved" /\ status[r] = "cancelled")

\* The life cycle of an approval request: no path revives a resolved one.
LegalTransitions ==
    [][\A r \in Requests :
        \/ status'[r] = status[r]
        \/ status[r] = "absent" /\ status'[r] = "pending"
        \/ status[r] = "pending" /\ status'[r] \in Decisions \union {"cancelled"}
        \/ status[r] = "approved" /\ status'[r] = "cancelled"]_vars

\* A reapproval none of whose calls failed leaves no approval it had to
\* supersede approved ("no approvals remain valid due to missing
\* graph/classifier data", rebase_apply_handlers.rs).
Superseded ==
    \A h \in Handlers :
        pc[h] = "respond" /\ req[h] # NoRequest /\ ~failed[h] =>
            \A q \in must[req[h]] : status[q] = "cancelled"

\* On the RLS path creation and cancellation are one: a request that became
\* visible through a commit has superseded its approvals, whatever failed.
AtomicSupersede == \A r \in atomic : \A q \in must[r] : status[q] = "cancelled"

\* No request that was pending when the handler's version became current is
\* still pending.
Withdrawn(h) == \A r \in open[h] : status[r] # "pending"

\* cancel_pending_by_intent is "Called when a new intent version is created to
\* invalidate stale approval requests" (approval_request_repo.rs): when
\* create_version answers, on whatever path, the stale requests are gone.
StaleRequestsWithdrawn ==
    \A h \in Handlers : pc[h] = "respond" /\ ~failed[h] => Withdrawn(h)

\* The same for create_version on the pool, which withdraws after its commit:
\* concurrent decisions, reapprovals and versions do not bring a request back.
PoolWithdraws ==
    \A h \in Handlers :
        pc[h] = "respond" /\ path[h] = "pool" /\ ~failed[h] => Withdrawn(h)

\* Requests are withdrawn for versions that exist: once no version transaction
\* is open, the version a request was cancelled for has been created.
WithdrawnForRealVersion ==
    intent_lock = NoHandler =>
        \A r \in Requests : withdrawn_for[r] <= current_version

\* "New `Pending` replacement remains `Pending`" (ADR 07): the reapproval that
\* created a request never cancels it itself.
ReplacementStands == \A r \in Requests : superseder[r] # r

=============================================================================
