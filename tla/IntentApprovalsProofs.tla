------------------------ MODULE IntentApprovalsProofs ------------------------
(***************************************************************************)
(* Proofs about IntentApprovals for any handlers, requests, paths and      *)
(* bounds.  Inductive adds to the properties what an open transaction      *)
(* holds and what a handler in the middle of a reapproval has still to     *)
(* cancel.                                                                 *)
(***************************************************************************)
EXTENDS IntentApprovals, TLAPS

InVersion(h) == pc[h] \in {"idle", "occ", "withdraw", "commit_version"}
InReapproval(h) == pc[h] \in {"create", "list", "targeted", "flat", "commit"}

\* From its checks to its commit a version transaction holds the intents row,
\* so that what it checked stays true.
VersionTx ==
    \A h \in Handlers :
        pc[h] = "commit_version" \/ (pc[h] = "withdraw" /\ path[h] = "tx") =>
            /\ intent_lock = h
            /\ OccHolds(h)
            /\ current_version < MaxVersions

\* The id a handler drew is its own, and on the RLS path nobody sees the row
\* before the commit.
OwnRequest ==
    \A h \in Handlers :
        /\ InVersion(h) => req[h] = NoRequest
        /\ InReapproval(h) => req[h] # NoRequest
        /\ \A g \in Handlers : req[h] = req[g] /\ req[h] # NoRequest => g = h
        /\ InReapproval(h) /\ path[h] = "tx" => status[req[h]] = "absent"
        /\ pc[h] = "commit" => path[h] = "tx"
        /\ pc[h] = "create" /\ ~failed[h] => status[req[h]] = "absent"

\* The rows of an open transaction are approved, and its own.
OwnRows ==
    \A h \in Handlers :
        /\ rows[h] # {} => path[h] = "tx" /\ pc[h] \in {"flat", "commit"}
        /\ \A r \in rows[h] : status[r] = "approved"
        /\ \A g \in Handlers : g # h => rows[g] \intersect rows[h] = {}
        /\ aborted[h] => /\ failed[h] /\ path[h] = "tx"
                         /\ pc[h] \in {"flat", "commit", "respond"}

\* Approvals to be superseded were approved, and only get cancelled.
MustApproved ==
    /\ \A r \in Requests : \A q \in must[r] : status[q] \in {"approved", "cancelled"}
    /\ \A r \in atomic : status[r] # "absent"

\* What remains to be done at each stage of a reapproval.
RemainingOf(h) ==
    /\ InReapproval(h) /\ plan[h] # "critical" /\ affected[h] # {} =>
          must[req[h]] \subseteq affected[h]
    /\ pc[h] = "targeted" =>
          \A q \in must[req[h]] : status[q] = "approved" => q \in stale[h]
    /\ pc[h] = "commit" /\ ~aborted[h] =>
          \A q \in must[req[h]] : status[q] = "cancelled" \/ q \in rows[h]

Remaining == \A h \in Handlers : RemainingOf(h)

Structure == TypeOK /\ VersionTx /\ OwnRequest /\ OwnRows

Inductive ==
    /\ Structure /\ NoLostUpdate /\ DecisionStands
    /\ MustApproved /\ Remaining /\ Superseded /\ AtomicSupersede

\* Superseded, for one handler.
SupersededOf(h) ==
    pc[h] = "respond" /\ req[h] # NoRequest /\ ~failed[h] =>
        \A q \in must[req[h]] : status[q] = "cancelled"

\* The change of a request's status in one step.
Legal(q) ==
    \/ status'[q] = status[q]
    \/ status[q] = "absent" /\ status'[q] = "pending"
    \/ status[q] = "pending" /\ status'[q] \in Decisions \union {"cancelled"}
    \/ status[q] = "approved" /\ status'[q] = "cancelled"

\* What a step may do to the history of a request.
MustKept(q) ==
    \/ must'[q] = must[q]
    \/ /\ status' = status /\ status[q] = "absent"
       /\ \A g \in Handlers : req[g] # q
       /\ must'[q] \subseteq WithStatus("approved")

AtomicKept ==
    \/ atomic' = atomic
    \/ \E h \in Handlers : pc[h] = "commit" /\ ~aborted[h] /\ Applied(h)

AnswersKept(q) ==
    \/ answers'[q] = answers[q]
    \/ status[q] = "pending" /\ answers'[q] = answers[q] \union {status'[q]}

\* The duties of handler h in the new state.
Duties(h) == RemainingOf(h)' /\ SupersededOf(h)'

\* A step that leaves the locals of handler g alone.
Bystander(g) ==
    /\ pc'[g] = pc[g] /\ req'[g] = req[g] /\ plan'[g] = plan[g]
    /\ affected'[g] = affected[g] /\ stale'[g] = stale[g] /\ rows'[g] = rows[g]
    /\ aborted'[g] = aborted[g] /\ failed'[g] = failed[g]
    /\ path'[g] = path[g] /\ open'[g] = open[g]

-----------------------------------------------------------------------------
(* Lemmas: each part of Inductive is kept by every step. *)

\* The cancelling UPDATE keeps the types.
LEMMA CancelApprovedType ==
    ASSUME TypeOK, NEW h \in Handlers, NEW ids \in SUBSET Requests,
           CancelApproved(h, ids)
    PROVE  /\ status' \in [Requests -> Statuses]
           /\ superseder' \in [Requests -> Requests \union {NoRequest}]
           /\ rows' \in [Handlers -> SUBSET Requests]
<1>1. Hit(h, ids) \in SUBSET Requests
  BY DEF Hit
<1>2. /\ status \in [Requests -> Statuses] /\ req[h] \in Requests \union {NoRequest}
      /\ superseder \in [Requests -> Requests \union {NoRequest}]
      /\ rows \in [Handlers -> SUBSET Requests] /\ rows[h] \in SUBSET Requests
  BY DEF TypeOK
<1>3. CASE path[h] = "tx"
  <2>1. rows' = [rows EXCEPT ![h] = rows[h] \union Hit(h, ids)]
        /\ UNCHANGED <<status, superseder>>
    BY <1>3 DEF CancelApproved
  <2>2. rows[h] \union Hit(h, ids) \in SUBSET Requests
    BY <1>1, <1>2
  <2>3. QED
    BY <1>2, <2>1, <2>2
<1>4. CASE path[h] = "pool"
  BY <1>1, <1>2, <1>4 DEF CancelApproved, Statuses
<1>5. QED
  BY <1>3, <1>4 DEF CancelApproved

\* Every step keeps the types; CommitVersion stays in range because of VersionTx.
LEMMA TypeStep ==
    ASSUME Structure, NoLostUpdate, [Next]_vars
    PROVE  TypeOK'
<1> USE ConstantsAssumption DEF Structure, TypeOK, VersionTx, OwnRequest, InReapproval, InVersion, Versions, Statuses, Decisions, PCs, Plans, Existing, WithStatus, intent, locals, history
<1>1. ASSUME NEW h \in Handlers, ReadIntent(h) PROVE TypeOK'
  <2>1. PICK p \in Paths, v \in Versions \union {current_version},
             n \in Versions \union {row_version} :
           /\ path' = [path EXCEPT ![h] = p]
           /\ expected' = [expected EXCEPT ![h] = [version |-> v, row |-> n]]
    BY <1>1 DEF ReadIntent
  <2>2. p \in {"pool", "tx"} /\ v \in Nat /\ n \in Nat
    OBVIOUS
  <2>3. expected' \in [Handlers -> [version : Nat, row : Nat]]
    BY <2>1, <2>2
  <2>4. QED
    BY <1>1, <2>1, <2>2, <2>3 DEF ReadIntent
<1>2. ASSUME NEW h \in Handlers, CreateVersionWithOcc(h) PROVE TypeOK'
  <2>1. current_version + 1 \in Versions /\ row_version + 1 \in Versions
    BY <1>2 DEF CreateVersionWithOcc, InstallVersion, AfterVersion, OccHolds, NoLostUpdate
  <2>2. base' \in [Versions -> Nat]
    BY <1>2 DEF CreateVersionWithOcc, InstallVersion, AfterVersion, OccHolds
  <2>3. QED
    BY <1>2, <2>1, <2>2 DEF CreateVersionWithOcc, InstallVersion, AfterVersion, OccHolds
<1>3. ASSUME NEW h \in Handlers, CreateVersionWithTx(h) PROVE TypeOK'
  BY <1>3 DEF CreateVersionWithTx, OccHolds
<1>4. ASSUME NEW h \in Handlers, Conflict(h) PROVE TypeOK'
  BY <1>4 DEF Conflict, Finish
<1>5. ASSUME NEW h \in Handlers, CancelPendingByIntent(h) PROVE TypeOK'
  BY <1>5 DEF CancelPendingByIntent, WithdrawPending, AfterWithdraw
<1>6. ASSUME NEW h \in Handlers, CommitVersion(h) PROVE TypeOK'
  <2>1. current_version + 1 \in Versions /\ row_version + 1 \in Versions
    BY <1>6 DEF CommitVersion, InstallVersion, OccHolds, NoLostUpdate
  <2>2. base' \in [Versions -> Nat]
    BY <1>6 DEF CommitVersion, InstallVersion, OccHolds
  <2>3. QED
    BY <1>6, <2>1, <2>2 DEF CommitVersion, InstallVersion, OccHolds
<1>7. ASSUME NEW h \in Handlers, AskApproval(h) PROVE TypeOK'
  <2>1. PICK r \in Requests \ Existing, p \in Paths, k \in {"trigger", "apply"},
             pl \in Plans, aff \in SUBSET Existing : Ask(h, r, p, k, pl, aff)
    <3> HIDE DEF Structure, TypeOK, VersionTx, OwnRequest, Existing, Plans
    <3>1. QED
      BY <1>7, Zenon DEF AskApproval
  <2>2. Supersedes(pl, aff) \in SUBSET Requests
    BY DEF Supersedes
  <2>3. /\ req' \in [Handlers -> Requests \union {NoRequest}]
        /\ path' \in [Handlers -> {"pool", "tx"}]
        /\ kind' \in [Handlers -> {"trigger", "apply", "version"}]
        /\ plan' \in [Handlers -> Plans]
        /\ affected' \in [Handlers -> SUBSET Requests]
        /\ must' \in [Requests -> SUBSET Requests]
    BY <2>1, <2>2 DEF Ask
  <2>4. QED
    BY <1>7, <2>3 DEF AskApproval
<1>8. ASSUME NEW h \in Handlers, CreateApprovalRequest(h) PROVE TypeOK'
  BY <1>8 DEF CreateApprovalRequest, AfterCreate
<1>9. ASSUME NEW h \in Handlers, ListByIntent(h) PROVE TypeOK'
  BY <1>9 DEF ListByIntent, AfterList, StaleIds
<1>10. ASSUME NEW h \in Handlers, CancelApprovedByIds(h) PROVE TypeOK'
  <2>1. stale[h] \in SUBSET Requests /\ CancelApproved(h, stale[h])
    BY <1>10 DEF CancelApprovedByIds
  <2>2. /\ status' \in [Requests -> Statuses]
        /\ superseder' \in [Requests -> Requests \union {NoRequest}]
        /\ rows' \in [Handlers -> SUBSET Requests]
    BY <2>1, CancelApprovedType
  <2>3. pc' \in [Handlers -> PCs]
    BY <1>10 DEF CancelApprovedByIds, AfterCancel
  <2>4. QED
    BY <1>10, <2>2, <2>3 DEF CancelApprovedByIds
<1>11. ASSUME NEW h \in Handlers, CancelApprovedByIntent(h) PROVE TypeOK'
  <2>1. Requests \in SUBSET Requests /\ CancelApproved(h, Requests)
    BY <1>11 DEF CancelApprovedByIntent
  <2>2. /\ status' \in [Requests -> Statuses]
        /\ superseder' \in [Requests -> Requests \union {NoRequest}]
        /\ rows' \in [Handlers -> SUBSET Requests]
    BY <2>1, CancelApprovedType
  <2>3. pc' \in [Handlers -> PCs]
    BY <1>11 DEF CancelApprovedByIntent, AfterCancel
  <2>4. QED
    BY <1>11, <2>2, <2>3 DEF CancelApprovedByIntent
<1>12. ASSUME NEW h \in Handlers, Commit(h) PROVE TypeOK'
  <2>1. /\ status' \in [Requests -> Statuses] /\ atomic' \subseteq Requests
        /\ superseder' \in [Requests -> Requests \union {NoRequest}]
    <3>1. CASE pc[h] = "commit" /\ Applied(h)
      <4>1. req[h] \in Requests
        BY <3>1
      <4>2. QED
        BY <3>1, <4>1 DEF Applied
    <3>2. CASE UNCHANGED <<status, superseder, atomic>>
      BY <3>2
    <3>3. QED
      BY <1>12, <3>1, <3>2 DEF Commit
  <2>2. QED
    BY <1>12, <2>1 DEF Commit
<1>13. ASSUME NEW h \in Handlers, CreateDuplicate(h) PROVE TypeOK'
  BY <1>13 DEF CreateDuplicate
<1>14. ASSUME NEW h \in Handlers, CancelInAborted(h) PROVE TypeOK'
  BY <1>14 DEF CancelInAborted
<1>15. ASSUME NEW h \in Handlers, Respond(h) PROVE TypeOK'
  BY <1>15 DEF Respond, Finish
<1>16. ASSUME NEW h \in Handlers, WithdrawError(h) PROVE TypeOK'
  BY <1>16 DEF WithdrawError, Fault, AfterWithdraw
<1>17. ASSUME NEW h \in Handlers, CreateError(h) PROVE TypeOK'
  <2>1. req[h] \in Requests
    BY <1>17 DEF CreateError
  <2>2. status' \in [Requests -> Statuses] /\ pc' \in [Handlers -> PCs]
    <3>1. CASE UNCHANGED <<pc, status>>
      BY <3>1
    <3>2. CASE pc' = [pc EXCEPT ![h] = "respond"] /\ UNCHANGED status
      BY <3>2
    <3>3. CASE /\ pc' = [pc EXCEPT ![h] = "respond"]
               /\ status' = [status EXCEPT ![req[h]] = "pending"]
      BY <2>1, <3>3
    <3>4. QED
      BY <1>17, <3>1, <3>2, <3>3 DEF CreateError
  <2>3. /\ path' \in [Handlers -> {"pool", "tx"}] /\ faults' \in Nat
        /\ failed' \in [Handlers -> BOOLEAN]
    BY <1>17 DEF CreateError, Fault
  <2>4. UNCHANGED <<intent, kind, expected, req, plan, affected, stale, rows, aborted,
                    base, open, withdrawn_for, must, atomic, answers, superseder>>
    BY <1>17 DEF CreateError
  <2>5. QED
    BY <2>2, <2>3, <2>4
<1>18. ASSUME NEW h \in Handlers, ListError(h) PROVE TypeOK'
  BY <1>18 DEF ListError, Fault
<1>19. ASSUME NEW h \in Handlers, CancelError(h) PROVE TypeOK'
  BY <1>19 DEF CancelError, Fault, AfterCancel
<1>20. ASSUME NEW h \in Handlers, CommitError(h) PROVE TypeOK'
  <2>1. /\ status' \in [Requests -> Statuses] /\ atomic' \subseteq Requests
        /\ superseder' \in [Requests -> Requests \union {NoRequest}]
    <3>1. CASE pc[h] = "commit" /\ Applied(h)
      <4>1. req[h] \in Requests
        BY <3>1
      <4>2. QED
        BY <3>1, <4>1 DEF Applied
    <3>2. CASE UNCHANGED <<status, superseder, atomic>>
      BY <3>2
    <3>3. QED
      BY <1>20, <3>1, <3>2 DEF CommitError
  <2>2. QED
    BY <1>20, <2>1 DEF CommitError, Fault
<1>21. ASSUME NEW h \in Handlers, Dropped(h) PROVE TypeOK'
  <2>1. /\ status' \in [Requests -> Statuses] /\ atomic' \subseteq Requests
        /\ superseder' \in [Requests -> Requests \union {NoRequest}]
    <3>1. CASE pc[h] = "commit" /\ Applied(h)
      <4>1. req[h] \in Requests
        BY <3>1
      <4>2. QED
        BY <3>1, <4>1 DEF Applied
    <3>2. CASE UNCHANGED <<status, superseder, atomic>>
      BY <3>2
    <3>3. QED
      BY <1>21, <3>1, <3>2 DEF Dropped
  <2>2. QED
    BY <1>21, <2>1 DEF Dropped, Finish
<1>22. ASSUME NEW h \in Handlers, CommitVersionUnanswered(h) PROVE TypeOK'
  <2>1. current_version + 1 \in Versions /\ row_version + 1 \in Versions
    BY <1>22 DEF CommitVersionUnanswered, InstallVersion, Finish, OccHolds, NoLostUpdate
  <2>2. base' \in [Versions -> Nat]
    BY <1>22 DEF CommitVersionUnanswered, InstallVersion, Finish, OccHolds
  <2>3. QED
    BY <1>22, <2>1, <2>2 DEF CommitVersionUnanswered, InstallVersion, Finish, OccHolds
<1>23. ASSUME NEW r \in Requests, NEW d \in Decisions, Decide(r, d) PROVE TypeOK'
  BY <1>23 DEF Decide, Decidable
<1>24. ASSUME NEW r \in Requests, NEW d \in Decisions, DecideUnanswered(r, d) PROVE TypeOK'
  BY <1>24 DEF DecideUnanswered, Decidable
<1>25. CASE UNCHANGED vars
  BY <1>25 DEF vars, intent, locals, history
<1> HIDE DEF Structure, TypeOK, VersionTx, OwnRequest
<1>. QED
  BY <1>1, <1>2, <1>3, <1>4, <1>5, <1>6, <1>7, <1>8, <1>9, <1>10, <1>11, <1>12, <1>13, <1>14, <1>15, <1>16, <1>17, <1>18, <1>19, <1>20, <1>21, <1>22, <1>23, <1>24, <1>25
     DEF Next, VersionStep, ReapprovalStep, FaultStep

\* No step takes a request outside its life cycle.
LEMMA LegalStep ==
    ASSUME Structure, [Next]_vars, NEW q \in Requests
    PROVE  Legal(q)
<1> USE DEF Structure, TypeOK, OwnRequest, OwnRows, InReapproval, Statuses, Legal, WithStatus, LockedFor, Hit, intent, locals, history
<1>1. ASSUME NEW h \in Handlers, ReadIntent(h) PROVE Legal(q)
  BY <1>1 DEF ReadIntent
<1>2. ASSUME NEW h \in Handlers, CreateVersionWithOcc(h) PROVE Legal(q)
  BY <1>2 DEF CreateVersionWithOcc, InstallVersion, AfterVersion, OccHolds
<1>3. ASSUME NEW h \in Handlers, CreateVersionWithTx(h) PROVE Legal(q)
  BY <1>3 DEF CreateVersionWithTx, OccHolds
<1>4. ASSUME NEW h \in Handlers, Conflict(h) PROVE Legal(q)
  BY <1>4 DEF Conflict, Finish
<1>5. ASSUME NEW h \in Handlers, CancelPendingByIntent(h) PROVE Legal(q)
  BY <1>5 DEF CancelPendingByIntent, WithdrawPending, AfterWithdraw
<1>6. ASSUME NEW h \in Handlers, CommitVersion(h) PROVE Legal(q)
  BY <1>6 DEF CommitVersion, InstallVersion, OccHolds
<1>7. ASSUME NEW h \in Handlers, AskApproval(h) PROVE Legal(q)
  BY <1>7 DEF AskApproval
<1>8. ASSUME NEW h \in Handlers, CreateApprovalRequest(h) PROVE Legal(q)
  BY <1>8 DEF CreateApprovalRequest, AfterCreate
<1>9. ASSUME NEW h \in Handlers, ListByIntent(h) PROVE Legal(q)
  BY <1>9 DEF ListByIntent, AfterList, StaleIds
<1>10. ASSUME NEW h \in Handlers, CancelApprovedByIds(h) PROVE Legal(q)
  BY <1>10 DEF CancelApprovedByIds, CancelApproved, AfterCancel
<1>11. ASSUME NEW h \in Handlers, CancelApprovedByIntent(h) PROVE Legal(q)
  BY <1>11 DEF CancelApprovedByIntent, CancelApproved, AfterCancel
<1>12. ASSUME NEW h \in Handlers, Commit(h) PROVE Legal(q)
  <2>1. CASE pc[h] = "commit" /\ Applied(h)
    <3>1. req[h] \in Requests /\ status[req[h]] = "absent"
      BY <2>1 DEF OwnRequest
    <3>2. \A r \in rows[h] : status[r] = "approved"
      BY DEF OwnRows
    <3>3. QED
      BY <2>1, <3>1, <3>2 DEF Applied, Legal
  <2>2. CASE UNCHANGED <<status, superseder, atomic>>
    BY <2>2 DEF Legal
  <2>3. QED
    BY <1>12, <2>1, <2>2 DEF Commit
<1>13. ASSUME NEW h \in Handlers, CreateDuplicate(h) PROVE Legal(q)
  BY <1>13 DEF CreateDuplicate
<1>14. ASSUME NEW h \in Handlers, CancelInAborted(h) PROVE Legal(q)
  BY <1>14 DEF CancelInAborted
<1>15. ASSUME NEW h \in Handlers, Respond(h) PROVE Legal(q)
  BY <1>15 DEF Respond, Finish
<1>16. ASSUME NEW h \in Handlers, WithdrawError(h) PROVE Legal(q)
  BY <1>16 DEF WithdrawError, Fault, AfterWithdraw
<1>17. ASSUME NEW h \in Handlers, CreateError(h) PROVE Legal(q)
  BY <1>17 DEF CreateError, Fault
<1>18. ASSUME NEW h \in Handlers, ListError(h) PROVE Legal(q)
  BY <1>18 DEF ListError, Fault
<1>19. ASSUME NEW h \in Handlers, CancelError(h) PROVE Legal(q)
  BY <1>19 DEF CancelError, Fault, AfterCancel
<1>20. ASSUME NEW h \in Handlers, CommitError(h) PROVE Legal(q)
  <2>1. CASE pc[h] = "commit" /\ Applied(h)
    <3>1. req[h] \in Requests /\ status[req[h]] = "absent"
      BY <2>1 DEF OwnRequest
    <3>2. \A r \in rows[h] : status[r] = "approved"
      BY DEF OwnRows
    <3>3. QED
      BY <2>1, <3>1, <3>2 DEF Applied, Legal
  <2>2. CASE UNCHANGED <<status, superseder, atomic>>
    BY <2>2 DEF Legal
  <2>3. QED
    BY <1>20, <2>1, <2>2 DEF CommitError
<1>21. ASSUME NEW h \in Handlers, Dropped(h) PROVE Legal(q)
  <2>1. CASE pc[h] = "commit" /\ Applied(h)
    <3>1. req[h] \in Requests /\ status[req[h]] = "absent"
      BY <2>1 DEF OwnRequest
    <3>2. \A r \in rows[h] : status[r] = "approved"
      BY DEF OwnRows
    <3>3. QED
      BY <2>1, <3>1, <3>2 DEF Applied, Legal
  <2>2. CASE UNCHANGED <<status, superseder, atomic>>
    BY <2>2 DEF Legal
  <2>3. QED
    BY <1>21, <2>1, <2>2 DEF Dropped
<1>22. ASSUME NEW h \in Handlers, CommitVersionUnanswered(h) PROVE Legal(q)
  BY <1>22 DEF CommitVersionUnanswered, InstallVersion, Finish, OccHolds
<1>23. ASSUME NEW r \in Requests, NEW d \in Decisions, Decide(r, d) PROVE Legal(q)
  BY <1>23 DEF Decide, Decidable
<1>24. ASSUME NEW r \in Requests, NEW d \in Decisions, DecideUnanswered(r, d) PROVE Legal(q)
  BY <1>24 DEF DecideUnanswered, Decidable
<1>25. CASE UNCHANGED vars
  BY <1>25 DEF vars, intent, locals, history
<1>. QED
  BY <1>1, <1>2, <1>3, <1>4, <1>5, <1>6, <1>7, <1>8, <1>9, <1>10, <1>11, <1>12, <1>13, <1>14, <1>15, <1>16, <1>17, <1>18, <1>19, <1>20, <1>21, <1>22, <1>23, <1>24, <1>25
     DEF Next, VersionStep, ReapprovalStep, FaultStep

\* The optimistic check a version transaction made stays true until its commit,
\* so every version extends the one its author expected.
LEMMA VersionTxStep ==
    ASSUME Structure, NoLostUpdate, [Next]_vars
    PROVE  VersionTx' /\ NoLostUpdate'
<1> USE ConstantsAssumption DEF Structure, TypeOK, VersionTx, NoLostUpdate, OccHolds, Versions, PCs, intent, locals, history
<1>1. ASSUME NEW h \in Handlers, ReadIntent(h) PROVE VersionTx' /\ NoLostUpdate'
  BY <1>1 DEF ReadIntent
<1>2. ASSUME NEW h \in Handlers, CreateVersionWithOcc(h) PROVE VersionTx' /\ NoLostUpdate'
  <2>1. VersionTx'
    <3>1. \A g \in Handlers : ~(pc[g] = "commit_version" \/ (pc[g] = "withdraw" /\ path[g] = "tx"))
      BY <1>2 DEF CreateVersionWithOcc
    <3>2. path' = path /\ pc' = [pc EXCEPT ![h] = AfterVersion] /\ path[h] = "pool"
      BY <1>2 DEF CreateVersionWithOcc
    <3>3. QED
      BY <3>1, <3>2 DEF AfterVersion
  <2>2. NoLostUpdate'
    <3>1. /\ current_version' = current_version + 1 /\ row_version' = row_version + 1
          /\ base' = [base EXCEPT ![current_version + 1] = current_version]
          /\ current_version + 1 \in Versions
      BY <1>2 DEF CreateVersionWithOcc, InstallVersion
    <3>2. \A v \in Versions : base'[v] = IF v = current_version + 1 THEN current_version ELSE base[v]
      BY <3>1
    <3> HIDE DEF VersionTx, OccHolds
    <3>3. QED
      BY <3>1, <3>2
  <2>3. QED
    BY <2>1, <2>2
<1>3. ASSUME NEW h \in Handlers, CreateVersionWithTx(h) PROVE VersionTx' /\ NoLostUpdate'
  BY <1>3 DEF CreateVersionWithTx, OccHolds
<1>4. ASSUME NEW h \in Handlers, Conflict(h) PROVE VersionTx' /\ NoLostUpdate'
  BY <1>4 DEF Conflict, Finish
<1>5. ASSUME NEW h \in Handlers, CancelPendingByIntent(h) PROVE VersionTx' /\ NoLostUpdate'
  BY <1>5 DEF CancelPendingByIntent, WithdrawPending, AfterWithdraw
<1>6. ASSUME NEW h \in Handlers, CommitVersion(h) PROVE VersionTx' /\ NoLostUpdate'
  BY <1>6 DEF CommitVersion, InstallVersion, OccHolds
<1>7. ASSUME NEW h \in Handlers, AskApproval(h) PROVE VersionTx' /\ NoLostUpdate'
  <2>1. PICK r \in Requests \ Existing, p \in Paths, k \in {"trigger", "apply"},
             pl \in Plans, aff \in SUBSET Existing : Ask(h, r, p, k, pl, aff)
    <3> HIDE DEF Structure, TypeOK, VersionTx, NoLostUpdate
    <3>1. QED
      BY <1>7, Zenon DEF AskApproval
  <2>2. QED
    BY <1>7, <2>1 DEF AskApproval, Ask
<1>8. ASSUME NEW h \in Handlers, CreateApprovalRequest(h) PROVE VersionTx' /\ NoLostUpdate'
  BY <1>8 DEF CreateApprovalRequest, AfterCreate
<1>9. ASSUME NEW h \in Handlers, ListByIntent(h) PROVE VersionTx' /\ NoLostUpdate'
  BY <1>9 DEF ListByIntent, AfterList, StaleIds
<1>10. ASSUME NEW h \in Handlers, CancelApprovedByIds(h) PROVE VersionTx' /\ NoLostUpdate'
  BY <1>10 DEF CancelApprovedByIds, CancelApproved, AfterCancel
<1>11. ASSUME NEW h \in Handlers, CancelApprovedByIntent(h) PROVE VersionTx' /\ NoLostUpdate'
  BY <1>11 DEF CancelApprovedByIntent, CancelApproved, AfterCancel
<1>12. ASSUME NEW h \in Handlers, Commit(h) PROVE VersionTx' /\ NoLostUpdate'
  BY <1>12 DEF Commit, Applied
<1>13. ASSUME NEW h \in Handlers, CreateDuplicate(h) PROVE VersionTx' /\ NoLostUpdate'
  BY <1>13 DEF CreateDuplicate
<1>14. ASSUME NEW h \in Handlers, CancelInAborted(h) PROVE VersionTx' /\ NoLostUpdate'
  BY <1>14 DEF CancelInAborted
<1>15. ASSUME NEW h \in Handlers, Respond(h) PROVE VersionTx' /\ NoLostUpdate'
  BY <1>15 DEF Respond, Finish
<1>16. ASSUME NEW h \in Handlers, WithdrawError(h) PROVE VersionTx' /\ NoLostUpdate'
  BY <1>16 DEF WithdrawError, Fault, AfterWithdraw
<1>17. ASSUME NEW h \in Handlers, CreateError(h) PROVE VersionTx' /\ NoLostUpdate'
  BY <1>17 DEF CreateError, Fault
<1>18. ASSUME NEW h \in Handlers, ListError(h) PROVE VersionTx' /\ NoLostUpdate'
  BY <1>18 DEF ListError, Fault
<1>19. ASSUME NEW h \in Handlers, CancelError(h) PROVE VersionTx' /\ NoLostUpdate'
  BY <1>19 DEF CancelError, Fault, AfterCancel
<1>20. ASSUME NEW h \in Handlers, CommitError(h) PROVE VersionTx' /\ NoLostUpdate'
  BY <1>20 DEF CommitError, Fault, Applied
<1>21. ASSUME NEW h \in Handlers, Dropped(h) PROVE VersionTx' /\ NoLostUpdate'
  BY <1>21 DEF Dropped, Finish, Applied
<1>22. ASSUME NEW h \in Handlers, CommitVersionUnanswered(h) PROVE VersionTx' /\ NoLostUpdate'
  BY <1>22 DEF CommitVersionUnanswered, InstallVersion, Finish, OccHolds
<1>23. ASSUME NEW r \in Requests, NEW d \in Decisions, Decide(r, d) PROVE VersionTx' /\ NoLostUpdate'
  BY <1>23 DEF Decide, Decidable
<1>24. ASSUME NEW r \in Requests, NEW d \in Decisions, DecideUnanswered(r, d) PROVE VersionTx' /\ NoLostUpdate'
  BY <1>24 DEF DecideUnanswered, Decidable
<1>25. CASE UNCHANGED vars
  BY <1>25 DEF vars, intent, locals, history
<1> HIDE DEF Structure, TypeOK, VersionTx, NoLostUpdate
<1>. QED
  BY <1>1, <1>2, <1>3, <1>4, <1>5, <1>6, <1>7, <1>8, <1>9, <1>10, <1>11, <1>12, <1>13, <1>14, <1>15, <1>16, <1>17, <1>18, <1>19, <1>20, <1>21, <1>22, <1>23, <1>24, <1>25
     DEF Next, VersionStep, ReapprovalStep, FaultStep

\* Ids stay distinct, and a transaction's row unseen until its commit.
LEMMA OwnRequestStep ==
    ASSUME Structure, [Next]_vars
    PROVE  OwnRequest'
<1> USE ConstantsAssumption DEF Structure, TypeOK, OwnRequest, OwnRows, InReapproval, InVersion, PCs, Existing, WithStatus, intent, locals, history
<1>1. ASSUME NEW h \in Handlers, ReadIntent(h) PROVE OwnRequest'
  BY <1>1 DEF ReadIntent
<1>2. ASSUME NEW h \in Handlers, CreateVersionWithOcc(h) PROVE OwnRequest'
  BY <1>2 DEF CreateVersionWithOcc, InstallVersion, AfterVersion, OccHolds
<1>3. ASSUME NEW h \in Handlers, CreateVersionWithTx(h) PROVE OwnRequest'
  BY <1>3 DEF CreateVersionWithTx, OccHolds
<1>4. ASSUME NEW h \in Handlers, Conflict(h) PROVE OwnRequest'
  BY <1>4 DEF Conflict, Finish
<1>5. ASSUME NEW h \in Handlers, CancelPendingByIntent(h) PROVE OwnRequest'
  BY <1>5 DEF CancelPendingByIntent, WithdrawPending, AfterWithdraw
<1>6. ASSUME NEW h \in Handlers, CommitVersion(h) PROVE OwnRequest'
  BY <1>6 DEF CommitVersion, InstallVersion, OccHolds
<1>7. ASSUME NEW h \in Handlers, AskApproval(h) PROVE OwnRequest'
  <2>1. PICK r \in Requests \ Existing, p \in Paths, k \in {"trigger", "apply"},
             pl \in Plans, aff \in SUBSET Existing : Ask(h, r, p, k, pl, aff)
    <3> HIDE DEF Structure, TypeOK, OwnRequest, OwnRows, Existing
    <3>1. QED
      BY <1>7, Zenon DEF AskApproval
  <2>2. QED
    BY <1>7, <2>1 DEF AskApproval, Ask
<1>8. ASSUME NEW h \in Handlers, CreateApprovalRequest(h) PROVE OwnRequest'
  BY <1>8 DEF CreateApprovalRequest, AfterCreate
<1>9. ASSUME NEW h \in Handlers, ListByIntent(h) PROVE OwnRequest'
  BY <1>9 DEF ListByIntent, AfterList, StaleIds
<1>10. ASSUME NEW h \in Handlers, CancelApprovedByIds(h) PROVE OwnRequest'
  <2>1. \A q \in Requests : status[q] = "absent" => status'[q] = "absent"
    <3>1. CASE path[h] = "tx"
      BY <1>10, <3>1 DEF CancelApprovedByIds, CancelApproved
    <3>2. CASE path[h] = "pool"
      BY <1>10, <3>2 DEF CancelApprovedByIds, CancelApproved, Hit
    <3>3. QED
      BY <3>1, <3>2
  <2>2. \A g \in Handlers : req'[g] = req[g] /\ path'[g] = path[g] /\ failed'[g] = failed[g]
    BY <1>10 DEF CancelApprovedByIds
  <2>3. /\ pc[h] \in {"targeted", "flat"} /\ pc'[h] \in {"flat", AfterCancel(h)}
        /\ \A g \in Handlers \ {h} : pc'[g] = pc[g]
    BY <1>10 DEF CancelApprovedByIds
  <2>4. QED
    BY <2>1, <2>2, <2>3 DEF AfterCancel
<1>11. ASSUME NEW h \in Handlers, CancelApprovedByIntent(h) PROVE OwnRequest'
  <2>1. \A q \in Requests : status[q] = "absent" => status'[q] = "absent"
    <3>1. CASE path[h] = "tx"
      BY <1>11, <3>1 DEF CancelApprovedByIntent, CancelApproved
    <3>2. CASE path[h] = "pool"
      BY <1>11, <3>2 DEF CancelApprovedByIntent, CancelApproved, Hit
    <3>3. QED
      BY <3>1, <3>2
  <2>2. \A g \in Handlers : req'[g] = req[g] /\ path'[g] = path[g] /\ failed'[g] = failed[g]
    BY <1>11 DEF CancelApprovedByIntent
  <2>3. /\ pc[h] \in {"targeted", "flat"} /\ pc'[h] \in {"flat", AfterCancel(h)}
        /\ \A g \in Handlers \ {h} : pc'[g] = pc[g]
    BY <1>11 DEF CancelApprovedByIntent
  <2>4. QED
    BY <2>1, <2>2, <2>3 DEF AfterCancel
<1>12. ASSUME NEW h \in Handlers, Commit(h) PROVE OwnRequest'
  BY <1>12 DEF Commit, Applied
<1>13. ASSUME NEW h \in Handlers, CreateDuplicate(h) PROVE OwnRequest'
  BY <1>13 DEF CreateDuplicate
<1>14. ASSUME NEW h \in Handlers, CancelInAborted(h) PROVE OwnRequest'
  BY <1>14 DEF CancelInAborted
<1>15. ASSUME NEW h \in Handlers, Respond(h) PROVE OwnRequest'
  BY <1>15 DEF Respond, Finish
<1>16. ASSUME NEW h \in Handlers, WithdrawError(h) PROVE OwnRequest'
  BY <1>16 DEF WithdrawError, Fault, AfterWithdraw
<1>17. ASSUME NEW h \in Handlers, CreateError(h) PROVE OwnRequest'
  BY <1>17 DEF CreateError, Fault
<1>18. ASSUME NEW h \in Handlers, ListError(h) PROVE OwnRequest'
  BY <1>18 DEF ListError, Fault
<1>19. ASSUME NEW h \in Handlers, CancelError(h) PROVE OwnRequest'
  BY <1>19 DEF CancelError, Fault, AfterCancel
<1>20. ASSUME NEW h \in Handlers, CommitError(h) PROVE OwnRequest'
  BY <1>20 DEF CommitError, Fault, Applied
<1>21. ASSUME NEW h \in Handlers, Dropped(h) PROVE OwnRequest'
  BY <1>21 DEF Dropped, Finish, Applied
<1>22. ASSUME NEW h \in Handlers, CommitVersionUnanswered(h) PROVE OwnRequest'
  BY <1>22 DEF CommitVersionUnanswered, InstallVersion, Finish, OccHolds
<1>23. ASSUME NEW r \in Requests, NEW d \in Decisions, Decide(r, d) PROVE OwnRequest'
  BY <1>23 DEF Decide, Decidable
<1>24. ASSUME NEW r \in Requests, NEW d \in Decisions, DecideUnanswered(r, d) PROVE OwnRequest'
  BY <1>24 DEF DecideUnanswered, Decidable
<1>25. CASE UNCHANGED vars
  BY <1>25 DEF vars, intent, locals, history
<1> HIDE DEF Structure, TypeOK, OwnRequest, OwnRows
<1>. QED
  BY <1>1, <1>2, <1>3, <1>4, <1>5, <1>6, <1>7, <1>8, <1>9, <1>10, <1>11, <1>12, <1>13, <1>14, <1>15, <1>16, <1>17, <1>18, <1>19, <1>20, <1>21, <1>22, <1>23, <1>24, <1>25
     DEF Next, VersionStep, ReapprovalStep, FaultStep

\* Rows of an open transaction stay approved: every other statement that could
\* touch them waits.
LEMMA OwnRowsStep ==
    ASSUME Structure, [Next]_vars
    PROVE  OwnRows'
<1> USE ConstantsAssumption DEF Structure, TypeOK, OwnRequest, OwnRows, InReapproval, InVersion, PCs, WithStatus, LockedFor, Hit, intent, locals, history
<1>1. ASSUME NEW h \in Handlers, ReadIntent(h) PROVE OwnRows'
  BY <1>1 DEF ReadIntent
<1>2. ASSUME NEW h \in Handlers, CreateVersionWithOcc(h) PROVE OwnRows'
  BY <1>2 DEF CreateVersionWithOcc, InstallVersion, AfterVersion, OccHolds
<1>3. ASSUME NEW h \in Handlers, CreateVersionWithTx(h) PROVE OwnRows'
  BY <1>3 DEF CreateVersionWithTx, OccHolds
<1>4. ASSUME NEW h \in Handlers, Conflict(h) PROVE OwnRows'
  BY <1>4 DEF Conflict, Finish
<1>5. ASSUME NEW h \in Handlers, CancelPendingByIntent(h) PROVE OwnRows'
  BY <1>5 DEF CancelPendingByIntent, WithdrawPending, AfterWithdraw
<1>6. ASSUME NEW h \in Handlers, CommitVersion(h) PROVE OwnRows'
  BY <1>6 DEF CommitVersion, InstallVersion, OccHolds
<1>7. ASSUME NEW h \in Handlers, AskApproval(h) PROVE OwnRows'
  <2>1. PICK r \in Requests \ Existing, p \in Paths, k \in {"trigger", "apply"},
             pl \in Plans, aff \in SUBSET Existing : Ask(h, r, p, k, pl, aff)
    <3> HIDE DEF Structure, TypeOK, OwnRequest, OwnRows
    <3>1. QED
      BY <1>7, Zenon DEF AskApproval
  <2>2. QED
    BY <1>7, <2>1 DEF AskApproval, Ask
<1>8. ASSUME NEW h \in Handlers, CreateApprovalRequest(h) PROVE OwnRows'
  BY <1>8 DEF CreateApprovalRequest, AfterCreate
<1>9. ASSUME NEW h \in Handlers, ListByIntent(h) PROVE OwnRows'
  BY <1>9 DEF ListByIntent, AfterList, StaleIds
<1>10. ASSUME NEW h \in Handlers, CancelApprovedByIds(h) PROVE OwnRows'
  <2>1. /\ pc[h] = "targeted" /\ pc'[h] \in {"flat", AfterCancel(h)}
        /\ \A g \in Handlers \ {h} : pc'[g] = pc[g]
        /\ path' = path /\ aborted' = aborted /\ failed' = failed
    BY <1>10 DEF CancelApprovedByIds
  <2>2. rows[h] = {} /\ CancelApproved(h, stale[h])
    BY <1>10 DEF CancelApprovedByIds
  <2>3. CASE path[h] = "tx"
    <3>1. /\ rows' = [rows EXCEPT ![h] = Hit(h, stale[h])] /\ status' = status
          /\ \A g \in Handlers \ {h} : rows[g] \intersect Hit(h, stale[h]) = {}
          /\ ~aborted[h]
      BY <2>2, <2>3 DEF CancelApproved
    <3>2. \A r \in Hit(h, stale[h]) : status[r] = "approved"
      OBVIOUS
    <3> HIDE DEF Hit
    <3>3. QED
      BY <2>1, <2>3, <3>1, <3>2 DEF AfterCancel
  <2>4. CASE path[h] = "pool"
    BY <2>1, <2>2, <2>4 DEF CancelApproved, AfterCancel
  <2>5. QED
    BY <2>3, <2>4
<1>11. ASSUME NEW h \in Handlers, CancelApprovedByIntent(h) PROVE OwnRows'
  BY <1>11 DEF CancelApprovedByIntent, CancelApproved, AfterCancel
<1>12. ASSUME NEW h \in Handlers, Commit(h) PROVE OwnRows'
  BY <1>12 DEF Commit, Applied
<1>13. ASSUME NEW h \in Handlers, CreateDuplicate(h) PROVE OwnRows'
  BY <1>13 DEF CreateDuplicate
<1>14. ASSUME NEW h \in Handlers, CancelInAborted(h) PROVE OwnRows'
  BY <1>14 DEF CancelInAborted
<1>15. ASSUME NEW h \in Handlers, Respond(h) PROVE OwnRows'
  BY <1>15 DEF Respond, Finish
<1>16. ASSUME NEW h \in Handlers, WithdrawError(h) PROVE OwnRows'
  BY <1>16 DEF WithdrawError, Fault, AfterWithdraw
<1>17. ASSUME NEW h \in Handlers, CreateError(h) PROVE OwnRows'
  BY <1>17 DEF CreateError, Fault
<1>18. ASSUME NEW h \in Handlers, ListError(h) PROVE OwnRows'
  BY <1>18 DEF ListError, Fault
<1>19. ASSUME NEW h \in Handlers, CancelError(h) PROVE OwnRows'
  BY <1>19 DEF CancelError, Fault, AfterCancel
<1>20. ASSUME NEW h \in Handlers, CommitError(h) PROVE OwnRows'
  BY <1>20 DEF CommitError, Fault, Applied
<1>21. ASSUME NEW h \in Handlers, Dropped(h) PROVE OwnRows'
  BY <1>21 DEF Dropped, Finish, Applied
<1>22. ASSUME NEW h \in Handlers, CommitVersionUnanswered(h) PROVE OwnRows'
  BY <1>22 DEF CommitVersionUnanswered, InstallVersion, Finish, OccHolds
<1>23. ASSUME NEW r \in Requests, NEW d \in Decisions, Decide(r, d) PROVE OwnRows'
  BY <1>23 DEF Decide, Decidable
<1>24. ASSUME NEW r \in Requests, NEW d \in Decisions, DecideUnanswered(r, d) PROVE OwnRows'
  BY <1>24 DEF DecideUnanswered, Decidable
<1>25. CASE UNCHANGED vars
  BY <1>25 DEF vars, intent, locals, history
<1> HIDE DEF Structure, TypeOK, OwnRequest, OwnRows
<1>. QED
  BY <1>1, <1>2, <1>3, <1>4, <1>5, <1>6, <1>7, <1>8, <1>9, <1>10, <1>11, <1>12, <1>13, <1>14, <1>15, <1>16, <1>17, <1>18, <1>19, <1>20, <1>21, <1>22, <1>23, <1>24, <1>25
     DEF Next, VersionStep, ReapprovalStep, FaultStep

\* Only AskApproval writes must, for a request nobody has drawn yet.
LEMMA MustFrame ==
    ASSUME TypeOK, [Next]_vars, NEW q \in Requests
    PROVE  MustKept(q)
<1> USE DEF TypeOK, MustKept, intent, locals, history
<1>1. ASSUME NEW h \in Handlers, ReadIntent(h) PROVE MustKept(q)
  BY <1>1 DEF ReadIntent
<1>2. ASSUME NEW h \in Handlers, CreateVersionWithOcc(h) PROVE MustKept(q)
  BY <1>2 DEF CreateVersionWithOcc, InstallVersion, AfterVersion, OccHolds
<1>3. ASSUME NEW h \in Handlers, CreateVersionWithTx(h) PROVE MustKept(q)
  BY <1>3 DEF CreateVersionWithTx, OccHolds
<1>4. ASSUME NEW h \in Handlers, Conflict(h) PROVE MustKept(q)
  BY <1>4 DEF Conflict, Finish
<1>5. ASSUME NEW h \in Handlers, CancelPendingByIntent(h) PROVE MustKept(q)
  BY <1>5 DEF CancelPendingByIntent, WithdrawPending, AfterWithdraw
<1>6. ASSUME NEW h \in Handlers, CommitVersion(h) PROVE MustKept(q)
  BY <1>6 DEF CommitVersion, InstallVersion, OccHolds
<1>7. ASSUME NEW h \in Handlers, AskApproval(h) PROVE MustKept(q)
  <2>1. PICK r \in Requests \ Existing, p \in Paths, k \in {"trigger", "apply"},
             pl \in Plans, aff \in SUBSET Existing : Ask(h, r, p, k, pl, aff)
    <3> HIDE DEF TypeOK, MustKept
    <3>1. QED
      BY <1>7, Zenon DEF AskApproval
  <2>2. QED
    BY <1>7, <2>1 DEF AskApproval, Ask, Supersedes, Existing, WithStatus
<1>8. ASSUME NEW h \in Handlers, CreateApprovalRequest(h) PROVE MustKept(q)
  BY <1>8 DEF CreateApprovalRequest, AfterCreate
<1>9. ASSUME NEW h \in Handlers, ListByIntent(h) PROVE MustKept(q)
  BY <1>9 DEF ListByIntent, AfterList, StaleIds
<1>10. ASSUME NEW h \in Handlers, CancelApprovedByIds(h) PROVE MustKept(q)
  BY <1>10 DEF CancelApprovedByIds, CancelApproved, AfterCancel
<1>11. ASSUME NEW h \in Handlers, CancelApprovedByIntent(h) PROVE MustKept(q)
  BY <1>11 DEF CancelApprovedByIntent, CancelApproved, AfterCancel
<1>12. ASSUME NEW h \in Handlers, Commit(h) PROVE MustKept(q)
  BY <1>12 DEF Commit, Applied
<1>13. ASSUME NEW h \in Handlers, CreateDuplicate(h) PROVE MustKept(q)
  BY <1>13 DEF CreateDuplicate
<1>14. ASSUME NEW h \in Handlers, CancelInAborted(h) PROVE MustKept(q)
  BY <1>14 DEF CancelInAborted
<1>15. ASSUME NEW h \in Handlers, Respond(h) PROVE MustKept(q)
  BY <1>15 DEF Respond, Finish
<1>16. ASSUME NEW h \in Handlers, WithdrawError(h) PROVE MustKept(q)
  BY <1>16 DEF WithdrawError, Fault, AfterWithdraw
<1>17. ASSUME NEW h \in Handlers, CreateError(h) PROVE MustKept(q)
  BY <1>17 DEF CreateError, Fault
<1>18. ASSUME NEW h \in Handlers, ListError(h) PROVE MustKept(q)
  BY <1>18 DEF ListError, Fault
<1>19. ASSUME NEW h \in Handlers, CancelError(h) PROVE MustKept(q)
  BY <1>19 DEF CancelError, Fault, AfterCancel
<1>20. ASSUME NEW h \in Handlers, CommitError(h) PROVE MustKept(q)
  BY <1>20 DEF CommitError, Fault, Applied
<1>21. ASSUME NEW h \in Handlers, Dropped(h) PROVE MustKept(q)
  BY <1>21 DEF Dropped, Finish, Applied
<1>22. ASSUME NEW h \in Handlers, CommitVersionUnanswered(h) PROVE MustKept(q)
  BY <1>22 DEF CommitVersionUnanswered, InstallVersion, Finish, OccHolds
<1>23. ASSUME NEW r \in Requests, NEW d \in Decisions, Decide(r, d) PROVE MustKept(q)
  BY <1>23 DEF Decide, Decidable
<1>24. ASSUME NEW r \in Requests, NEW d \in Decisions, DecideUnanswered(r, d) PROVE MustKept(q)
  BY <1>24 DEF DecideUnanswered, Decidable
<1>25. CASE UNCHANGED vars
  BY <1>25 DEF vars, intent, locals, history
<1>. QED
  BY <1>1, <1>2, <1>3, <1>4, <1>5, <1>6, <1>7, <1>8, <1>9, <1>10, <1>11, <1>12, <1>13, <1>14, <1>15, <1>16, <1>17, <1>18, <1>19, <1>20, <1>21, <1>22, <1>23, <1>24, <1>25
     DEF Next, VersionStep, ReapprovalStep, FaultStep

\* Only a commit writes atomic.
LEMMA AtomicFrame ==
    ASSUME [Next]_vars
    PROVE  AtomicKept
<1> USE DEF AtomicKept, intent, locals, history
<1>1. ASSUME NEW h \in Handlers, ReadIntent(h) PROVE AtomicKept
  BY <1>1 DEF ReadIntent
<1>2. ASSUME NEW h \in Handlers, CreateVersionWithOcc(h) PROVE AtomicKept
  BY <1>2 DEF CreateVersionWithOcc, InstallVersion, AfterVersion, OccHolds
<1>3. ASSUME NEW h \in Handlers, CreateVersionWithTx(h) PROVE AtomicKept
  BY <1>3 DEF CreateVersionWithTx, OccHolds
<1>4. ASSUME NEW h \in Handlers, Conflict(h) PROVE AtomicKept
  BY <1>4 DEF Conflict, Finish
<1>5. ASSUME NEW h \in Handlers, CancelPendingByIntent(h) PROVE AtomicKept
  BY <1>5 DEF CancelPendingByIntent, WithdrawPending, AfterWithdraw
<1>6. ASSUME NEW h \in Handlers, CommitVersion(h) PROVE AtomicKept
  BY <1>6 DEF CommitVersion, InstallVersion, OccHolds
<1>7. ASSUME NEW h \in Handlers, AskApproval(h) PROVE AtomicKept
  BY <1>7 DEF AskApproval
<1>8. ASSUME NEW h \in Handlers, CreateApprovalRequest(h) PROVE AtomicKept
  BY <1>8 DEF CreateApprovalRequest, AfterCreate
<1>9. ASSUME NEW h \in Handlers, ListByIntent(h) PROVE AtomicKept
  BY <1>9 DEF ListByIntent, AfterList, StaleIds
<1>10. ASSUME NEW h \in Handlers, CancelApprovedByIds(h) PROVE AtomicKept
  BY <1>10 DEF CancelApprovedByIds, CancelApproved, AfterCancel
<1>11. ASSUME NEW h \in Handlers, CancelApprovedByIntent(h) PROVE AtomicKept
  BY <1>11 DEF CancelApprovedByIntent, CancelApproved, AfterCancel
<1>12. ASSUME NEW h \in Handlers, Commit(h) PROVE AtomicKept
  BY <1>12 DEF Commit
<1>13. ASSUME NEW h \in Handlers, CreateDuplicate(h) PROVE AtomicKept
  BY <1>13 DEF CreateDuplicate
<1>14. ASSUME NEW h \in Handlers, CancelInAborted(h) PROVE AtomicKept
  BY <1>14 DEF CancelInAborted
<1>15. ASSUME NEW h \in Handlers, Respond(h) PROVE AtomicKept
  BY <1>15 DEF Respond, Finish
<1>16. ASSUME NEW h \in Handlers, WithdrawError(h) PROVE AtomicKept
  BY <1>16 DEF WithdrawError, Fault, AfterWithdraw
<1>17. ASSUME NEW h \in Handlers, CreateError(h) PROVE AtomicKept
  BY <1>17 DEF CreateError, Fault
<1>18. ASSUME NEW h \in Handlers, ListError(h) PROVE AtomicKept
  BY <1>18 DEF ListError, Fault
<1>19. ASSUME NEW h \in Handlers, CancelError(h) PROVE AtomicKept
  BY <1>19 DEF CancelError, Fault, AfterCancel
<1>20. ASSUME NEW h \in Handlers, CommitError(h) PROVE AtomicKept
  BY <1>20 DEF CommitError, Fault
<1>21. ASSUME NEW h \in Handlers, Dropped(h) PROVE AtomicKept
  BY <1>21 DEF Dropped, Finish
<1>22. ASSUME NEW h \in Handlers, CommitVersionUnanswered(h) PROVE AtomicKept
  BY <1>22 DEF CommitVersionUnanswered, InstallVersion, Finish, OccHolds
<1>23. ASSUME NEW r \in Requests, NEW d \in Decisions, Decide(r, d) PROVE AtomicKept
  BY <1>23 DEF Decide, Decidable
<1>24. ASSUME NEW r \in Requests, NEW d \in Decisions, DecideUnanswered(r, d) PROVE AtomicKept
  BY <1>24 DEF DecideUnanswered, Decidable
<1>25. CASE UNCHANGED vars
  BY <1>25 DEF vars, intent, locals, history
<1>. QED
  BY <1>1, <1>2, <1>3, <1>4, <1>5, <1>6, <1>7, <1>8, <1>9, <1>10, <1>11, <1>12, <1>13, <1>14, <1>15, <1>16, <1>17, <1>18, <1>19, <1>20, <1>21, <1>22, <1>23, <1>24, <1>25
     DEF Next, VersionStep, ReapprovalStep, FaultStep

\* Only a decision that found its request pending is answered.
LEMMA AnswersFrame ==
    ASSUME TypeOK, [Next]_vars, NEW q \in Requests
    PROVE  AnswersKept(q)
<1> USE DEF TypeOK, AnswersKept, intent, locals, history
<1>1. ASSUME NEW h \in Handlers, ReadIntent(h) PROVE AnswersKept(q)
  BY <1>1 DEF ReadIntent
<1>2. ASSUME NEW h \in Handlers, CreateVersionWithOcc(h) PROVE AnswersKept(q)
  BY <1>2 DEF CreateVersionWithOcc, InstallVersion, AfterVersion, OccHolds
<1>3. ASSUME NEW h \in Handlers, CreateVersionWithTx(h) PROVE AnswersKept(q)
  BY <1>3 DEF CreateVersionWithTx, OccHolds
<1>4. ASSUME NEW h \in Handlers, Conflict(h) PROVE AnswersKept(q)
  BY <1>4 DEF Conflict, Finish
<1>5. ASSUME NEW h \in Handlers, CancelPendingByIntent(h) PROVE AnswersKept(q)
  BY <1>5 DEF CancelPendingByIntent, WithdrawPending, AfterWithdraw
<1>6. ASSUME NEW h \in Handlers, CommitVersion(h) PROVE AnswersKept(q)
  BY <1>6 DEF CommitVersion, InstallVersion, OccHolds
<1>7. ASSUME NEW h \in Handlers, AskApproval(h) PROVE AnswersKept(q)
  BY <1>7 DEF AskApproval
<1>8. ASSUME NEW h \in Handlers, CreateApprovalRequest(h) PROVE AnswersKept(q)
  BY <1>8 DEF CreateApprovalRequest, AfterCreate
<1>9. ASSUME NEW h \in Handlers, ListByIntent(h) PROVE AnswersKept(q)
  BY <1>9 DEF ListByIntent, AfterList, StaleIds
<1>10. ASSUME NEW h \in Handlers, CancelApprovedByIds(h) PROVE AnswersKept(q)
  BY <1>10 DEF CancelApprovedByIds, CancelApproved, AfterCancel
<1>11. ASSUME NEW h \in Handlers, CancelApprovedByIntent(h) PROVE AnswersKept(q)
  BY <1>11 DEF CancelApprovedByIntent, CancelApproved, AfterCancel
<1>12. ASSUME NEW h \in Handlers, Commit(h) PROVE AnswersKept(q)
  BY <1>12 DEF Commit, Applied
<1>13. ASSUME NEW h \in Handlers, CreateDuplicate(h) PROVE AnswersKept(q)
  BY <1>13 DEF CreateDuplicate
<1>14. ASSUME NEW h \in Handlers, CancelInAborted(h) PROVE AnswersKept(q)
  BY <1>14 DEF CancelInAborted
<1>15. ASSUME NEW h \in Handlers, Respond(h) PROVE AnswersKept(q)
  BY <1>15 DEF Respond, Finish
<1>16. ASSUME NEW h \in Handlers, WithdrawError(h) PROVE AnswersKept(q)
  BY <1>16 DEF WithdrawError, Fault, AfterWithdraw
<1>17. ASSUME NEW h \in Handlers, CreateError(h) PROVE AnswersKept(q)
  BY <1>17 DEF CreateError, Fault
<1>18. ASSUME NEW h \in Handlers, ListError(h) PROVE AnswersKept(q)
  BY <1>18 DEF ListError, Fault
<1>19. ASSUME NEW h \in Handlers, CancelError(h) PROVE AnswersKept(q)
  BY <1>19 DEF CancelError, Fault, AfterCancel
<1>20. ASSUME NEW h \in Handlers, CommitError(h) PROVE AnswersKept(q)
  BY <1>20 DEF CommitError, Fault, Applied
<1>21. ASSUME NEW h \in Handlers, Dropped(h) PROVE AnswersKept(q)
  BY <1>21 DEF Dropped, Finish, Applied
<1>22. ASSUME NEW h \in Handlers, CommitVersionUnanswered(h) PROVE AnswersKept(q)
  BY <1>22 DEF CommitVersionUnanswered, InstallVersion, Finish, OccHolds
<1>23. ASSUME NEW r \in Requests, NEW d \in Decisions, Decide(r, d) PROVE AnswersKept(q)
  BY <1>23 DEF Decide, Decidable
<1>24. ASSUME NEW r \in Requests, NEW d \in Decisions, DecideUnanswered(r, d) PROVE AnswersKept(q)
  BY <1>24 DEF DecideUnanswered, Decidable
<1>25. CASE UNCHANGED vars
  BY <1>25 DEF vars, intent, locals, history
<1>. QED
  BY <1>1, <1>2, <1>3, <1>4, <1>5, <1>6, <1>7, <1>8, <1>9, <1>10, <1>11, <1>12, <1>13, <1>14, <1>15, <1>16, <1>17, <1>18, <1>19, <1>20, <1>21, <1>22, <1>23, <1>24, <1>25
     DEF Next, VersionStep, ReapprovalStep, FaultStep

\* Approvals to be superseded stay approved or get cancelled.
LEMMA MustStep ==
    ASSUME Structure, MustApproved, [Next]_vars
    PROVE  MustApproved'
<1>1. ASSUME NEW r \in Requests, NEW q \in must'[r]
      PROVE  status'[q] \in {"approved", "cancelled"}
  <2>1. TypeOK
    BY DEF Structure
  <2>2. MustKept(r)
    BY <2>1, MustFrame
  <2>3. CASE must'[r] = must[r]
    <3>1. q \in Requests /\ status[q] \in {"approved", "cancelled"}
      BY <1>1, <2>1, <2>3 DEF TypeOK, MustApproved
    <3>2. QED
      BY <3>1, LegalStep DEF Legal
  <2>4. CASE status' = status /\ must'[r] \subseteq WithStatus("approved")
    BY <1>1, <2>4 DEF WithStatus
  <2>5. QED
    BY <2>2, <2>3, <2>4 DEF MustKept
<1>2. ASSUME NEW r \in atomic' PROVE status'[r] # "absent"
  <2>1. TypeOK
    BY DEF Structure
  <2>2. CASE atomic' = atomic
    <3>1. r \in Requests /\ status[r] # "absent"
      BY <1>2, <2>1, <2>2 DEF TypeOK, MustApproved
    <3>2. QED
      BY <3>1, LegalStep DEF Legal, Decisions
  <2>3. ASSUME NEW h \in Handlers, pc[h] = "commit", Applied(h)
        PROVE  status'[r] # "absent"
    <3>1. CASE r \in atomic
      <4>1. r \in Requests /\ status[r] # "absent"
        BY <2>1, <3>1 DEF TypeOK, MustApproved
      <4>2. QED
        BY <4>1, LegalStep DEF Legal, Decisions
    <3>2. CASE r = req[h]
      <4>1. req[h] \in Requests
        BY <2>1, <2>3 DEF TypeOK, Structure, OwnRequest, InReapproval
      <4>2. QED
        BY <2>3, <3>2, <4>1 DEF Applied
    <3>3. QED
      BY <1>2, <2>3, <3>1, <3>2 DEF Applied
  <2>4. QED
    BY <2>2, <2>3, AtomicFrame DEF AtomicKept
<1>3. QED
  BY <1>1, <1>2 DEF MustApproved

\* A decision that was answered stays, or is a cancelled approval.
LEMMA DecisionStep ==
    ASSUME Structure, DecisionStands, [Next]_vars
    PROVE  DecisionStands'
<1> SUFFICES ASSUME NEW r \in Requests, NEW d \in answers'[r]
             PROVE  status'[r] = d \/ (d = "approved" /\ status'[r] = "cancelled")
  BY DEF DecisionStands
<1>1. TypeOK
  BY DEF Structure
<1>2. Legal(r) /\ AnswersKept(r)
  BY <1>1, LegalStep, AnswersFrame
<1>3. CASE d \in answers[r]
  <2>1. d \in Decisions /\ (status[r] = d \/ (d = "approved" /\ status[r] = "cancelled"))
    BY <1>1, <1>3 DEF TypeOK, DecisionStands
  <2>2. QED
    BY <1>2, <2>1 DEF Legal, Decisions
<1>4. QED
  BY <1>2, <1>3 DEF AnswersKept

\* A request created by a commit has superseded its approvals.
LEMMA AtomicStep ==
    ASSUME Structure, MustApproved, Remaining, AtomicSupersede, [Next]_vars
    PROVE  AtomicSupersede'
<1> SUFFICES ASSUME NEW r \in atomic', NEW q \in must'[r]
             PROVE  status'[q] = "cancelled"
  BY DEF AtomicSupersede
<1>1. TypeOK
  BY DEF Structure
<1>2. ASSUME r \in atomic PROVE status'[q] = "cancelled"
  <2>1. r \in Requests /\ status[r] # "absent"
    BY <1>1, <1>2 DEF TypeOK, MustApproved
  <2>2. must'[r] = must[r]
    BY <1>1, <2>1, MustFrame DEF MustKept
  <2>3. q \in Requests /\ status[q] = "cancelled"
    BY <1>1, <1>2, <2>1, <2>2 DEF TypeOK, AtomicSupersede
  <2>4. QED
    BY <2>3, LegalStep DEF Legal
<1>3. ASSUME NEW h \in Handlers, pc[h] = "commit", ~aborted[h], Applied(h), r = req[h]
      PROVE  status'[q] = "cancelled"
  <2>1. r \in Requests /\ status[r] = "absent"
    BY <1>1, <1>3 DEF TypeOK, Structure, OwnRequest, InReapproval
  <2>2. must'[r] = must[r]
    BY <1>1, <1>3, <2>1, MustFrame DEF MustKept
  <2>3. q \in Requests /\ status[q] \in {"approved", "cancelled"}
    BY <1>1, <2>1, <2>2 DEF TypeOK, MustApproved
  <2>4. status[q] = "cancelled" \/ q \in rows[h]
    BY <1>3, <2>2 DEF Remaining, RemainingOf
  <2>5. QED
    BY <1>3, <2>1, <2>3, <2>4 DEF Applied
<1>4. QED
  BY <1>2, <1>3, AtomicFrame DEF AtomicKept, Applied

\* What a handler drew is not redefined by anybody's step.
LEMMA OwnMust ==
    ASSUME Structure, MustApproved, [Next]_vars,
           NEW g \in Handlers, req[g] # NoRequest
    PROVE  /\ req[g] \in Requests
           /\ must'[req[g]] = must[req[g]]
           /\ must[req[g]] \subseteq Requests
           /\ \A q \in must[req[g]] :
                 /\ status[q] \in {"approved", "cancelled"}
                 /\ status[q] = "cancelled" => status'[q] = "cancelled"
                 /\ status'[q] \in {"approved", "cancelled"}
<1>1. TypeOK
  BY DEF Structure
<1>2. req[g] \in Requests
  BY <1>1 DEF TypeOK
<1>3. must'[req[g]] = must[req[g]]
  BY <1>1, <1>2, MustFrame DEF MustKept
<1>4. must[req[g]] \subseteq Requests
  BY <1>1, <1>2 DEF TypeOK
<1>5. \A q \in must[req[g]] : status[q] \in {"approved", "cancelled"} /\ Legal(q)
  BY <1>2, <1>4, LegalStep DEF MustApproved
<1>6. QED
  BY <1>2, <1>3, <1>4, <1>5 DEF Legal

\* A bystander's duties do not grow.
LEMMA BystanderStep ==
    ASSUME Structure, MustApproved, Remaining, Superseded, [Next]_vars,
           NEW g \in Handlers, Bystander(g)
    PROVE  Duties(g)
<1>1. CASE req[g] = NoRequest
  <2>1. ~InReapproval(g)
    BY <1>1 DEF Structure, OwnRequest
  <2>2. QED
    BY <1>1, <2>1 DEF Bystander, Duties, RemainingOf, SupersededOf, InReapproval
<1>2. CASE req[g] # NoRequest
  <2>1. RemainingOf(g) /\ SupersededOf(g)
    BY DEF Remaining, Superseded, SupersededOf
  <2>2. QED
    BY <1>2, <2>1, OwnMust DEF Bystander, Duties, RemainingOf, SupersededOf, InReapproval
<1>3. QED
  BY <1>1, <1>2

\* Every handler step leaves the other handlers' locals alone.
LEMMA OneHandler ==
    ASSUME TypeOK, NEW h \in Handlers, NEW g \in Handlers \ {h},
           VersionStep(h) \/ ReapprovalStep(h) \/ Respond(h) \/ FaultStep(h)
    PROVE  Bystander(g)
<1> USE DEF TypeOK, Bystander, locals, history
<1>1. CASE ReadIntent(h)
  BY <1>1 DEF ReadIntent
<1>2. CASE CreateVersionWithOcc(h)
  BY <1>2 DEF CreateVersionWithOcc, AfterVersion
<1>3. CASE CreateVersionWithTx(h)
  BY <1>3 DEF CreateVersionWithTx
<1>4. CASE Conflict(h)
  BY <1>4 DEF Conflict, Finish
<1>5. CASE CancelPendingByIntent(h)
  BY <1>5 DEF CancelPendingByIntent, AfterWithdraw
<1>6. CASE CommitVersion(h)
  BY <1>6 DEF CommitVersion
<1>7. CASE AskApproval(h)
  BY <1>7 DEF AskApproval, Ask
<1>8. CASE CreateApprovalRequest(h)
  BY <1>8 DEF CreateApprovalRequest, AfterCreate
<1>9. CASE ListByIntent(h)
  BY <1>9 DEF ListByIntent, AfterList
<1>10. CASE CancelApprovedByIds(h)
  BY <1>10 DEF CancelApprovedByIds, CancelApproved, AfterCancel
<1>11. CASE CancelApprovedByIntent(h)
  BY <1>11 DEF CancelApprovedByIntent, CancelApproved, AfterCancel
<1>12. CASE Commit(h)
  BY <1>12 DEF Commit
<1>13. CASE CreateDuplicate(h)
  BY <1>13 DEF CreateDuplicate
<1>14. CASE CancelInAborted(h)
  BY <1>14 DEF CancelInAborted
<1>15. CASE Respond(h)
  BY <1>15 DEF Respond, Finish
<1>16. CASE WithdrawError(h)
  BY <1>16 DEF WithdrawError, Fault, AfterWithdraw
<1>17. CASE CreateError(h)
  BY <1>17 DEF CreateError, Fault
<1>18. CASE ListError(h)
  BY <1>18 DEF ListError, Fault
<1>19. CASE CancelError(h)
  BY <1>19 DEF CancelError, Fault, AfterCancel
<1>20. CASE CommitError(h)
  BY <1>20 DEF CommitError, Fault
<1>21. CASE Dropped(h)
  BY <1>21 DEF Dropped, Finish
<1>22. CASE CommitVersionUnanswered(h)
  BY <1>22 DEF CommitVersionUnanswered, Finish
<1>. QED
  BY <1>1, <1>2, <1>3, <1>4, <1>5, <1>6, <1>7, <1>8, <1>9, <1>10, <1>11, <1>12, <1>13, <1>14, <1>15, <1>16, <1>17, <1>18, <1>19, <1>20, <1>21, <1>22
     DEF VersionStep, ReapprovalStep, FaultStep

\* Every step leaves each handler, the stepping one included, with its duties.
LEMMA DutiesStep ==
    ASSUME Structure, MustApproved, Remaining, Superseded, [Next]_vars
    PROVE  \A g \in Handlers : Duties(g)
<1>1. ASSUME NEW h \in Handlers, ReadIntent(h) PROVE Duties(h)
  BY <1>1 DEF ReadIntent, Structure, TypeOK, OwnRequest, InVersion, InReapproval, Duties,
          RemainingOf, SupersededOf, locals, history
<1>2. ASSUME NEW h \in Handlers, CreateVersionWithOcc(h) PROVE Duties(h)
  BY <1>2 DEF CreateVersionWithOcc, AfterVersion, Structure, TypeOK, OwnRequest, InVersion, InReapproval, Duties,
          RemainingOf, SupersededOf, locals, history
<1>3. ASSUME NEW h \in Handlers, CreateVersionWithTx(h) PROVE Duties(h)
  BY <1>3 DEF CreateVersionWithTx, Structure, TypeOK, OwnRequest, InVersion, InReapproval, Duties,
          RemainingOf, SupersededOf, locals, history
<1>4. ASSUME NEW h \in Handlers, Conflict(h) PROVE Duties(h)
  BY <1>4 DEF Conflict, Finish, Structure, TypeOK, OwnRequest, InVersion, InReapproval, Duties,
          RemainingOf, SupersededOf, locals, history
<1>5. ASSUME NEW h \in Handlers, CancelPendingByIntent(h) PROVE Duties(h)
  BY <1>5 DEF CancelPendingByIntent, AfterWithdraw, Structure, TypeOK, OwnRequest, InVersion, InReapproval, Duties,
          RemainingOf, SupersededOf, locals, history
<1>6. ASSUME NEW h \in Handlers, CommitVersion(h) PROVE Duties(h)
  BY <1>6 DEF CommitVersion, Structure, TypeOK, OwnRequest, InVersion, InReapproval, Duties,
          RemainingOf, SupersededOf, locals, history
<1>7. ASSUME NEW h \in Handlers, AskApproval(h) PROVE Duties(h)
  <2>1. PICK r \in Requests \ Existing, p \in Paths, k \in {"trigger", "apply"},
             pl \in Plans, aff \in SUBSET Existing : Ask(h, r, p, k, pl, aff)
    BY <1>7, Zenon DEF AskApproval
  <2>2. /\ pc'[h] = "create" /\ req'[h] = r /\ plan'[h] = pl /\ affected'[h] = aff
        /\ must'[r] = Supersedes(pl, aff) /\ (pl = "flat" => aff = {})
    BY <1>7, <2>1 DEF AskApproval, Ask, Structure, TypeOK
  <2>3. QED
    BY <2>2 DEF Duties, RemainingOf, SupersededOf, InReapproval, Supersedes, Plans
<1>8. ASSUME NEW h \in Handlers, CreateApprovalRequest(h) PROVE Duties(h)
  <2>1. /\ req[h] # NoRequest /\ req' = req /\ RemainingOf(h) /\ InReapproval(h)
        /\ plan' = plan /\ affected' = affected
    BY <1>8 DEF CreateApprovalRequest, AfterCreate, Structure, TypeOK, OwnRequest, InReapproval, Remaining, locals
  <2>2. pc'[h] \in {"list", "flat"}
    BY <1>8 DEF CreateApprovalRequest, AfterCreate, Structure, TypeOK, OwnRequest, OwnRows
  <2>3. QED
    BY <2>1, <2>2, OwnMust DEF Duties, RemainingOf, SupersededOf, InReapproval
<1>9. ASSUME NEW h \in Handlers, ListByIntent(h) PROVE Duties(h)
  <2>1. req[h] # NoRequest /\ req' = req /\ RemainingOf(h) /\ pc[h] = "list"
    BY <1>9 DEF ListByIntent, Structure, OwnRequest, InReapproval, Remaining
  <2>2. /\ plan' = plan /\ affected' = affected /\ status' = status
        /\ stale'[h] = StaleIds(h) /\ pc'[h] = AfterList(h, StaleIds(h))
    BY <1>9 DEF ListByIntent, Structure, TypeOK
  <2>3. \A q \in must[req[h]] :
           q \in Requests /\ (StaleIds(h) # {} => q \in StaleIds(h))
    BY <2>1, OwnMust DEF StaleIds, Existing, RemainingOf, InReapproval
  <2>4. QED
    BY <2>1, <2>2, <2>3, OwnMust DEF Duties, RemainingOf, SupersededOf, InReapproval, AfterList
<1>10. ASSUME NEW h \in Handlers, CancelApprovedByIds(h) PROVE Duties(h)
  <2>1. /\ req[h] # NoRequest /\ req' = req /\ RemainingOf(h) /\ pc[h] = "targeted"
        /\ plan' = plan /\ affected' = affected /\ aborted' = aborted /\ failed' = failed
        /\ rows[h] \subseteq Requests
    BY <1>10 DEF CancelApprovedByIds, Structure, TypeOK, OwnRequest, InReapproval, Remaining
  <2>2. pc'[h] = "flat" \/ (pc'[h] = AfterCancel(h) /\ stale[h] = Hit(h, stale[h]))
    BY <1>10 DEF CancelApprovedByIds, Structure, TypeOK
  <2>3. CASE pc'[h] = "flat"
    BY <2>1, <2>3, OwnMust DEF Duties, RemainingOf, SupersededOf, InReapproval
  <2>4. CASE pc'[h] = AfterCancel(h) /\ stale[h] = Hit(h, stale[h])
    <3>1. \A q \in must[req[h]] :
             status[q] = "cancelled" \/ q \in Hit(h, stale[h]) \/ q \in rows[h]
      BY <2>1, <2>4, OwnMust DEF RemainingOf, Hit, WithStatus
    <3>2. CASE path[h] = "tx"
      <4>1. rows'[h] = rows[h] \union Hit(h, stale[h]) /\ pc'[h] = "commit"
        BY <1>10, <2>4, <3>2 DEF CancelApprovedByIds, CancelApproved, AfterCancel, Structure, TypeOK
      <4>2. QED
        BY <2>1, <3>1, <4>1, OwnMust DEF Duties, RemainingOf, SupersededOf, InReapproval
    <3>3. CASE path[h] = "pool"
      <4>1. /\ \A q \in Requests : q \in Hit(h, stale[h]) => status'[q] = "cancelled"
            /\ pc'[h] = "respond" /\ rows[h] = {}
        BY <1>10, <2>4, <3>3 DEF CancelApprovedByIds, CancelApproved, AfterCancel, Structure, OwnRows
      <4>2. QED
        BY <2>1, <3>1, <4>1, OwnMust DEF Duties, RemainingOf, SupersededOf, InReapproval
    <3>4. QED
      BY <3>2, <3>3 DEF Structure, TypeOK
  <2>5. QED
    BY <2>2, <2>3, <2>4
<1>11. ASSUME NEW h \in Handlers, CancelApprovedByIntent(h) PROVE Duties(h)
  <2>1. /\ req[h] # NoRequest /\ req' = req /\ RemainingOf(h) /\ pc[h] = "flat"
        /\ plan' = plan /\ affected' = affected /\ aborted' = aborted /\ failed' = failed
        /\ rows[h] \subseteq Requests
    BY <1>11 DEF CancelApprovedByIntent, Structure, TypeOK, OwnRequest, InReapproval, Remaining
  <2>2. pc'[h] = "flat" \/ (pc'[h] = AfterCancel(h))
    BY <1>11 DEF CancelApprovedByIntent, Structure, TypeOK
  <2>3. CASE pc'[h] = "flat"
    BY <2>1, <2>3, OwnMust DEF Duties, RemainingOf, SupersededOf, InReapproval
  <2>4. CASE pc'[h] = AfterCancel(h)
    <3>1. \A q \in must[req[h]] :
             status[q] = "cancelled" \/ q \in Hit(h, Requests) \/ q \in rows[h]
      BY <2>1, <2>4, OwnMust DEF RemainingOf, Hit, WithStatus
    <3>2. CASE path[h] = "tx"
      <4>1. rows'[h] = rows[h] \union Hit(h, Requests) /\ pc'[h] = "commit"
        BY <1>11, <2>4, <3>2 DEF CancelApprovedByIntent, CancelApproved, AfterCancel, Structure, TypeOK
      <4>2. QED
        BY <2>1, <3>1, <4>1, OwnMust DEF Duties, RemainingOf, SupersededOf, InReapproval
    <3>3. CASE path[h] = "pool"
      <4>1. /\ \A q \in Requests : q \in Hit(h, Requests) => status'[q] = "cancelled"
            /\ pc'[h] = "respond" /\ rows[h] = {}
        BY <1>11, <2>4, <3>3 DEF CancelApprovedByIntent, CancelApproved, AfterCancel, Structure, OwnRows
      <4>2. QED
        BY <2>1, <3>1, <4>1, OwnMust DEF Duties, RemainingOf, SupersededOf, InReapproval
    <3>4. QED
      BY <3>2, <3>3 DEF Structure, TypeOK
  <2>5. QED
    BY <2>2, <2>3, <2>4
<1>12. ASSUME NEW h \in Handlers, Commit(h) PROVE Duties(h)
  <2>1. /\ req[h] # NoRequest /\ req' = req /\ RemainingOf(h) /\ pc[h] = "commit"
        /\ failed' = failed /\ pc'[h] = "respond"
        /\ status[req[h]] = "absent" /\ (aborted[h] => failed[h])
    BY <1>12 DEF Commit, Structure, TypeOK, OwnRequest, OwnRows, InReapproval, Remaining
  <2>2. CASE ~aborted[h] /\ Applied(h)
    <3>1. \A q \in must[req[h]] : status'[q] = "cancelled"
      BY <2>1, <2>2, OwnMust DEF RemainingOf, Applied
    <3>2. QED
      BY <2>1, <3>1, OwnMust DEF Duties, RemainingOf, SupersededOf, InReapproval
  <2>3. CASE aborted[h]
    BY <2>1, <2>3 DEF Duties, RemainingOf, SupersededOf, InReapproval
  <2>4. QED
    BY <1>12, <2>2, <2>3 DEF Commit
<1>13. ASSUME NEW h \in Handlers, CreateDuplicate(h) PROVE Duties(h)
  <2>1. /\ req[h] # NoRequest /\ req' = req /\ RemainingOf(h) /\ InReapproval(h)
        /\ plan' = plan /\ affected' = affected
    BY <1>13 DEF CreateDuplicate, Structure, TypeOK, OwnRequest, InReapproval, Remaining, locals
  <2>2. pc'[h] = "respond" /\ failed'[h]
    BY <1>13 DEF CreateDuplicate, Structure, TypeOK, OwnRequest, history
  <2>3. QED
    BY <2>1, <2>2, OwnMust DEF Duties, RemainingOf, SupersededOf, InReapproval
<1>14. ASSUME NEW h \in Handlers, CancelInAborted(h) PROVE Duties(h)
  <2>1. /\ req[h] # NoRequest /\ req' = req /\ RemainingOf(h) /\ InReapproval(h)
        /\ plan' = plan /\ affected' = affected
    BY <1>14 DEF CancelInAborted, Structure, TypeOK, OwnRequest, InReapproval, Remaining, locals
  <2>2. pc'[h] = "commit" /\ aborted'[h]
    BY <1>14 DEF CancelInAborted, Structure, TypeOK, OwnRequest, OwnRows, locals
  <2>3. QED
    BY <2>1, <2>2, OwnMust DEF Duties, RemainingOf, SupersededOf, InReapproval
<1>15. ASSUME NEW h \in Handlers, Respond(h) PROVE Duties(h)
  BY <1>15 DEF Respond, Finish, Structure, TypeOK, OwnRequest, InVersion, InReapproval, Duties,
          RemainingOf, SupersededOf, locals, history
<1>16. ASSUME NEW h \in Handlers, WithdrawError(h) PROVE Duties(h)
  BY <1>16 DEF WithdrawError, Fault, AfterWithdraw, Structure, TypeOK, OwnRequest, InVersion, InReapproval, Duties,
          RemainingOf, SupersededOf, locals, history
<1>17. ASSUME NEW h \in Handlers, CreateError(h) PROVE Duties(h)
  <2>1. /\ req[h] # NoRequest /\ req' = req /\ RemainingOf(h) /\ InReapproval(h)
        /\ plan' = plan /\ affected' = affected
    BY <1>17 DEF CreateError, Fault, Structure, TypeOK, OwnRequest, InReapproval, Remaining
  <2>2. pc'[h] \in {"create", "respond"} /\ failed'[h]
    BY <1>17 DEF CreateError, Fault, Structure, TypeOK, OwnRequest, OwnRows
  <2>3. QED
    BY <2>1, <2>2, OwnMust DEF Duties, RemainingOf, SupersededOf, InReapproval
<1>18. ASSUME NEW h \in Handlers, ListError(h) PROVE Duties(h)
  <2>1. /\ req[h] # NoRequest /\ req' = req /\ RemainingOf(h) /\ InReapproval(h)
        /\ plan' = plan /\ affected' = affected
    BY <1>18 DEF ListError, Fault, locals, Structure, TypeOK, OwnRequest, InReapproval, Remaining
  <2>2. pc'[h] = "flat"
    BY <1>18 DEF ListError, Fault, locals, Structure, TypeOK, OwnRequest, OwnRows
  <2>3. QED
    BY <2>1, <2>2, OwnMust DEF Duties, RemainingOf, SupersededOf, InReapproval
<1>19. ASSUME NEW h \in Handlers, CancelError(h) PROVE Duties(h)
  <2>1. /\ req[h] # NoRequest /\ req' = req /\ RemainingOf(h) /\ InReapproval(h)
        /\ plan' = plan /\ affected' = affected
    BY <1>19 DEF CancelError, Fault, AfterCancel, Structure, TypeOK, OwnRequest, InReapproval, Remaining
  <2>2. failed'[h] /\ (pc'[h] \in {"flat", "respond"} \/ (pc'[h] = "commit" /\ aborted'[h]))
    <3>1. failed'[h] /\ pc'[h] = IF pc[h] = "targeted" THEN "flat" ELSE AfterCancel(h)
      BY <1>19 DEF CancelError, Fault, Structure, TypeOK
    <3>2. aborted'[h] = (path[h] = "tx")
      BY <1>19, Zenon DEF CancelError, Structure, TypeOK
    <3>3. QED
      BY <3>1, <3>2 DEF AfterCancel
  <2>3. QED
    BY <2>1, <2>2, OwnMust DEF Duties, RemainingOf, SupersededOf, InReapproval
<1>20. ASSUME NEW h \in Handlers, CommitError(h) PROVE Duties(h)
  <2>1. /\ req[h] # NoRequest /\ req' = req /\ RemainingOf(h) /\ InReapproval(h)
        /\ plan' = plan /\ affected' = affected
    BY <1>20 DEF CommitError, Fault, Structure, TypeOK, OwnRequest, InReapproval, Remaining
  <2>2. pc'[h] = "create"
    BY <1>20 DEF CommitError, Fault, Structure, TypeOK, OwnRequest, OwnRows
  <2>3. QED
    BY <2>1, <2>2, OwnMust DEF Duties, RemainingOf, SupersededOf, InReapproval
<1>21. ASSUME NEW h \in Handlers, Dropped(h) PROVE Duties(h)
  BY <1>21 DEF Dropped, Finish, Structure, TypeOK, OwnRequest, InVersion, InReapproval, Duties,
          RemainingOf, SupersededOf, locals, history
<1>22. ASSUME NEW h \in Handlers, CommitVersionUnanswered(h) PROVE Duties(h)
  BY <1>22 DEF CommitVersionUnanswered, Finish, Structure, TypeOK, OwnRequest, InVersion, InReapproval, Duties,
          RemainingOf, SupersededOf, locals, history
<1>23. ASSUME NEW h \in Handlers,
             VersionStep(h) \/ ReapprovalStep(h) \/ Respond(h) \/ FaultStep(h)
      PROVE  \A g \in Handlers : Duties(g)
  <2>1. Duties(h)
    BY <1>23, <1>1, <1>2, <1>3, <1>4, <1>5, <1>6, <1>7, <1>8, <1>9, <1>10, <1>11, <1>12, <1>13, <1>14, <1>15, <1>16, <1>17, <1>18, <1>19, <1>20, <1>21, <1>22
       DEF VersionStep, ReapprovalStep, FaultStep
  <2>2. ASSUME NEW g \in Handlers \ {h} PROVE Duties(g)
    BY <1>23, OneHandler, BystanderStep DEF Structure
  <2>3. QED
    BY <2>1, <2>2
<1>24. ASSUME NEW r \in Requests, NEW d \in Decisions, Decide(r, d) \/ DecideUnanswered(r, d)
      PROVE  \A g \in Handlers : Duties(g)
  <2>1. \A g \in Handlers : Bystander(g)
    BY <1>24 DEF Decide, DecideUnanswered, Bystander, locals, history
  <2>2. QED
    BY <2>1, BystanderStep
<1>25. CASE UNCHANGED vars
  <2>1. \A g \in Handlers : Bystander(g)
    BY <1>25 DEF vars, Bystander, locals, history
  <2>2. QED
    BY <2>1, BystanderStep
<1>. QED
  BY <1>23, <1>24, <1>25 DEF Next

-----------------------------------------------------------------------------
(* Theorems. *)

\* The induction: every reachable state satisfies Inductive.
THEOREM InductiveInvariant == Spec => []Inductive
<1>1. Init => Inductive
  BY ConstantsAssumption
     DEF Init, Inductive, Structure, TypeOK, VersionTx, OwnRequest, OwnRows,
         NoLostUpdate, DecisionStands, MustApproved, Remaining, RemainingOf,
         Superseded, AtomicSupersede, InVersion, InReapproval, Versions, Statuses,
         Decisions, PCs, Plans
<1>2. Inductive /\ [Next]_vars => Inductive'
  <2> SUFFICES ASSUME Inductive, [Next]_vars PROVE Inductive'
    OBVIOUS
  <2> USE DEF Inductive
  <2>1. Structure'
    BY TypeStep, VersionTxStep, OwnRequestStep, OwnRowsStep DEF Structure
  <2>2. NoLostUpdate' /\ DecisionStands' /\ MustApproved' /\ AtomicSupersede'
    BY VersionTxStep, DecisionStep, MustStep, AtomicStep
  <2>3. Remaining' /\ Superseded'
    BY DutiesStep DEF Duties, Remaining, Superseded, SupersededOf
  <2>4. QED
    BY <2>1, <2>2, <2>3
<1>3. QED
  BY <1>1, <1>2, PTL DEF Spec

\* The types, for every number of handlers, requests and versions.
THEOREM TypeCorrect == Spec => []TypeOK
<1>1. Inductive => TypeOK
  BY DEF Inductive, Structure
<1>2. QED
  BY <1>1, InductiveInvariant, PTL

\* Optimistic concurrency: create_version and create_version_with_rls never
\* lose an update.
THEOREM VersionsExtendExpected == Spec => []NoLostUpdate
<1>1. Inductive => NoLostUpdate
  BY DEF Inductive
<1>2. QED
  BY <1>1, InductiveInvariant, PTL

\* A decision answered with success is the one the row keeps.
THEOREM DecisionsStand == Spec => []DecisionStands
<1>1. Inductive => DecisionStands
  BY DEF Inductive
<1>2. QED
  BY <1>1, InductiveInvariant, PTL

\* A reapproval without failed calls supersedes what it had to.
THEOREM ReapprovalSupersedes == Spec => []Superseded
<1>1. Inductive => Superseded
  BY DEF Inductive
<1>2. QED
  BY <1>1, InductiveInvariant, PTL

\* The RLS transaction of a reapproval is all or nothing under every fault.
THEOREM ReapprovalAtomic == Spec => []AtomicSupersede
<1>1. Inductive => AtomicSupersede
  BY DEF Inductive
<1>2. QED
  BY <1>1, InductiveInvariant, PTL

\* No step of any handler revives a resolved request.
THEOREM RequestLifeCycle == Spec => LegalTransitions
<1>1. Inductive /\ [Next]_vars =>
        [\A r \in Requests :
            \/ status'[r] = status[r]
            \/ status[r] = "absent" /\ status'[r] = "pending"
            \/ status[r] = "pending" /\ status'[r] \in Decisions \union {"cancelled"}
            \/ status[r] = "approved" /\ status'[r] = "cancelled"]_vars
  BY LegalStep DEF Inductive, Legal
<1>2. QED
  BY <1>1, InductiveInvariant, PTL DEF Spec, LegalTransitions

-----------------------------------------------------------------------------
(* The withdrawal of stale requests, for a service with an approval_repo. *)

\* The requests that were pending when a version became current exist, and
\* only a handler between that moment and its answer remembers them.
OpenOf(h) ==
    /\ open[h] # {} => pc[h] = "respond" \/ (pc[h] = "withdraw" /\ path[h] = "pool")
    /\ pc[h] = "commit_version" => path[h] = "tx"
    /\ \A r \in open[h] : r \in Requests /\ status[r] # "absent"
    /\ pc[h] = "respond" /\ path[h] = "pool" /\ ~failed[h] => Withdrawn(h)

OpenRequests == \A h \in Handlers : OpenOf(h)

\* A request that is there is not made pending again.
LEMMA NotRevived ==
    ASSUME Structure, [Next]_vars, NEW r \in Requests, status[r] # "absent"
    PROVE  /\ status'[r] # "absent"
           /\ status[r] # "pending" => status'[r] # "pending"
BY LegalStep DEF Legal, Decisions

\* Every step of a handler keeps what it remembers true, for itself and for
\* the others.
LEMMA OpenStep ==
    ASSUME WithApprovalRepo, Structure, OpenRequests, [Next]_vars
    PROVE  OpenRequests'
<1> SUFFICES ASSUME NEW g \in Handlers
             PROVE  OpenOf(g)'
  BY DEF OpenRequests
<1> USE DEF Structure, TypeOK, locals, history
<1>1. OpenOf(g)
  BY DEF OpenRequests
<1>2. \A r \in open[g] : /\ status'[r] # "absent"
                         /\ status[r] # "pending" => status'[r] # "pending"
  BY <1>1, NotRevived DEF OpenOf
<1>3. ASSUME pc'[g] = pc[g], path'[g] = path[g], open'[g] = open[g], failed'[g] = failed[g]
      PROVE  OpenOf(g)'
  BY <1>1, <1>2, <1>3 DEF OpenOf, Withdrawn
<1>4. ASSUME open'[g] = {}, pc'[g] # "commit_version"
      PROVE  OpenOf(g)'
  BY <1>4 DEF OpenOf, Withdrawn
<1>5. ASSUME open'[g] = open[g], pc[g] \notin {"withdraw", "respond"}, pc'[g] # "commit_version"
      PROVE  OpenOf(g)'
  BY <1>1, <1>4, <1>5 DEF OpenOf
<1>6. ASSUME NEW h \in Handlers, h # g,
             VersionStep(h) \/ ReapprovalStep(h) \/ Respond(h) \/ FaultStep(h)
      PROVE  OpenOf(g)'
  <2>1. Bystander(g)
    BY <1>6, OneHandler
  <2>2. QED
    BY <1>3, <2>1 DEF Bystander
<1>7. ASSUME VersionStep(g)
      PROVE  OpenOf(g)'
  <2>1. CASE ReadIntent(g) \/ CreateVersionWithTx(g)
    BY <1>5, <2>1 DEF ReadIntent, CreateVersionWithTx
  <2>2. CASE CreateVersionWithOcc(g)
    <3>1. /\ open'[g] = WithStatus("pending") /\ pc'[g] = "withdraw" /\ status' = status
          /\ path'[g] = "pool"
      BY <2>2 DEF CreateVersionWithOcc, AfterVersion
    <3>2. QED
      BY <3>1 DEF OpenOf, WithStatus
  <2>3. CASE Conflict(g)
    BY <1>4, <2>3 DEF Conflict, Finish
  <2>4. CASE CancelPendingByIntent(g)
    <3>1. /\ open'[g] = open[g] /\ pc'[g] \in {"respond", "commit_version"}
          /\ path'[g] = path[g]
          /\ pc'[g] = "commit_version" => path[g] = "tx"
          /\ status' = [r \in Requests |->
                           IF status[r] = "pending" THEN "cancelled" ELSE status[r]]
      BY <2>4 DEF CancelPendingByIntent, AfterWithdraw, WithdrawPending, WithStatus
    <3>2. CASE pc'[g] = "respond"
      BY <1>1, <1>2, <3>1, <3>2 DEF OpenOf, Withdrawn
    <3>3. CASE pc'[g] = "commit_version"
      BY <1>1, <1>2, <2>4, <3>1, <3>3 DEF OpenOf, CancelPendingByIntent
    <3>4. QED
      BY <3>1, <3>2, <3>3
  <2>5. CASE CommitVersion(g)
    <3>1. /\ open'[g] = WithStatus("pending") /\ pc'[g] = "respond" /\ path'[g] = path[g]
          /\ status' = status
      BY <2>5 DEF CommitVersion
    <3>2. QED
      BY <1>1, <2>5, <3>1 DEF OpenOf, WithStatus, CommitVersion
  <2>6. QED
    BY <1>7, <2>1, <2>2, <2>3, <2>4, <2>5 DEF VersionStep
<1>8. ASSUME ReapprovalStep(g)
      PROVE  OpenOf(g)'
  BY <1>5, <1>8
     DEF ReapprovalStep, AskApproval, CreateApprovalRequest, ListByIntent, CancelApprovedByIds,
         CancelApprovedByIntent, Commit, CreateDuplicate, CancelInAborted, AfterCreate,
         AfterList, AfterCancel
<1>9. ASSUME Respond(g) \/ FaultStep(g)
      PROVE  OpenOf(g)'
  <2>1. CASE Respond(g) \/ Dropped(g) \/ CommitVersionUnanswered(g)
    BY <1>4, <2>1 DEF Respond, Dropped, CommitVersionUnanswered, Finish
  <2>2. CASE WithdrawError(g)
    <3>1. /\ open'[g] = open[g] /\ failed'[g] /\ status' = status /\ path'[g] = path[g]
          /\ pc'[g] = "respond" \/ (pc'[g] = "commit_version" /\ path[g] = "tx")
      BY <2>2 DEF WithdrawError, Fault, AfterWithdraw
    <3>2. QED
      BY <1>1, <2>2, <3>1 DEF OpenOf, WithdrawError
  <2>3. CASE CreateError(g) \/ ListError(g) \/ CancelError(g) \/ CommitError(g)
    BY <1>5, <2>3 DEF CreateError, ListError, CancelError, CommitError, AfterCancel
  <2>4. QED
    BY <1>9, <2>1, <2>2, <2>3 DEF FaultStep
<1>10. CASE (\E r \in Requests, d \in Decisions : Decide(r, d) \/ DecideUnanswered(r, d))
            \/ UNCHANGED vars
  BY <1>3, <1>10 DEF Decide, DecideUnanswered, vars
<1>11. QED
  BY <1>6, <1>7, <1>8, <1>9, <1>10 DEF Next

\* create_version on the pool: when it answers without an error of its own, no
\* request that was pending at its commit is pending still, whatever concurrent
\* decisions, reapprovals and versions did in between.  The service must have
\* been built with_approval_and_audit, which the constant says.
THEOREM StaleWithdrawn ==
    ASSUME WithApprovalRepo
    PROVE  Spec => []PoolWithdraws
<1>1. Init => OpenRequests
  BY DEF Init, OpenRequests, OpenOf, Withdrawn
<1>2. Inductive /\ OpenRequests /\ [Next]_vars => OpenRequests'
  BY OpenStep DEF Inductive
<1>3. OpenRequests => PoolWithdraws
  BY DEF OpenRequests, OpenOf, PoolWithdraws
<1>4. QED
  BY <1>1, <1>2, <1>3, InductiveInvariant, PTL DEF Spec

=============================================================================
