------------------------- MODULE WebhookOutboxProofs -------------------------
(***************************************************************************)
(* Proofs about WebhookOutbox for any set of records, workers and tenants  *)
(* and any bounds.  The invariants of the specification are not inductive  *)
(* alone: Inductive adds what a busy worker knows of its record and how    *)
(* the history variables follow the status.                                *)
(***************************************************************************)
EXTENDS WebhookOutbox, TLAPS

\* A worker between claim and settle: it is on a real record, and the attempt
\* count it computes with is still the stored one.
Owned ==
    \A w \in Workers : Busy(w) =>
        /\ current[w] \in Records
        /\ claimed[w] = attempt_count[current[w]]

\* What an acknowledgement implies, and what delivered or an "ok" result owes.
AcksFollow ==
    \A r \in Records :
        /\ acks[r] <= 1
        /\ acks[r] = 1 => status[r] \in {"claimed", "delivered"}
        /\ status[r] = "delivered" => acks[r] = 1
        /\ \A w \in Workers :
             /\ pc[w] = "dispatch" /\ current[w] = r => acks[r] = 0
             /\ pc[w] = "settle" /\ current[w] = r
                    => (acks[r] = 1 <=> result[w] = "ok")

\* The posts of a record, by its stage: all but the current attempt are
\* counted by attempt_count.
PostsFollow ==
    \A r \in Records :
        /\ posts[r] <= attempt_count[r] + 1
        /\ status[r] \in {"absent", "pending"} =>
              posts[r] <= attempt_count[r]
        /\ \A w \in Workers : pc[w] = "dispatch" /\ current[w] = r =>
              posts[r] <= attempt_count[r]

Inductive == TypeOK /\ ClaimIsExclusive /\ Owned /\ AcksFollow /\ PostsFollow

-----------------------------------------------------------------------------
(* Lemmas. *)

\* list_pending returns a list of records.
LEMMA ListPendingType ==
    ASSUME NEW t \in Tenants, NEW s \in ListPending(t)
    PROVE  s \in Seq(Records)
<1>1. PICK n \in 0 .. BatchSize : s \in [1 .. n -> Pending(t)]
  BY DEF ListPending
<1>2. Pending(t) \subseteq Records
  BY DEF Pending
<1>3. n \in Nat
  BY ConstantsAssumption
<1>4. QED
  BY <1>1, <1>2, <1>3

\* Every step keeps the types; in Settle the range of attempt_count rests on
\* Owned.
LEMMA TypeStep ==
    ASSUME TypeOK, ClaimIsExclusive, Owned, [Next]_vars
    PROVE  TypeOK'
<1> USE ConstantsAssumption DEF TypeOK, Statuses, PCs, Outcomes, Busy
<1>1. ASSUME NEW r \in Records, Create(r) PROVE TypeOK'
  BY <1>1 DEF Create, vars, table, locals, ghosts
<1>2. ASSUME NEW r \in Records, ReplayDlq(r) PROVE TypeOK'
  BY <1>2, SMTT(60) DEF ReplayDlq, ReplayFailed, vars, table, locals, ghosts
<1>3. ASSUME NEW r \in Records, BulkReplayStep(r) PROVE TypeOK'
  <2>1. CASE ReplayFailed(r)
    BY <1>3, <2>1, SMTT(60) DEF BulkReplayStep, ReplayFailed, vars, table, locals, ghosts
  <2>2. CASE UNCHANGED <<table, ghosts>>
    BY <1>3, <2>2 DEF BulkReplayStep, vars, table, locals, ghosts
  <2>3. QED
    BY <1>3, <2>1, <2>2 DEF BulkReplayStep
<1>4. ASSUME NEW r \in Records, BulkReplayBound(r) PROVE TypeOK'
  BY <1>4 DEF BulkReplayBound, vars, table, locals, ghosts
<1>5. ASSUME NEW t \in Tenants, BulkReplayList(t) PROVE TypeOK'
  BY <1>5 DEF BulkReplayList, ListFailed, Failed, vars, table, locals, ghosts
<1>6. ASSUME NEW w \in Workers, StartPass(w) PROVE TypeOK'
  <2>1. PendingTenants \in SUBSET Tenants
    BY DEF PendingTenants
  <2>2. QED
    BY <1>6, <2>1 DEF StartPass, vars, table, locals, ghosts
<1>7. ASSUME NEW w \in Workers, Stop(w) PROVE TypeOK'
  BY <1>7 DEF Stop, vars, table, locals, ghosts
<1>8. ASSUME NEW w \in Workers, EndPass(w) PROVE TypeOK'
  BY <1>8 DEF EndPass, vars, table, locals, ghosts
<1>9. ASSUME NEW w \in Workers, Claim(w) PROVE TypeOK'
  <2>1. PICK h \in Records : h = Head(batch[w])
    BY <1>9 DEF Claim
  <2>2. batch' \in [Workers -> Seq(Records)]
    BY <1>9 DEF Claim
  <2>3. /\ status' \in [Records -> Statuses] /\ pc' \in [Workers -> PCs]
        /\ current' \in [Workers -> Records \union {NoRecord}]
        /\ claimed' \in [Workers -> Nat]
    <3>1. /\ status' = [status EXCEPT ![h] = "claimed"]
          /\ current' = [current EXCEPT ![w] = h]
          /\ claimed' = [claimed EXCEPT ![w] = attempt_count[h]]
          /\ pc' = [pc EXCEPT ![w] = "dispatch"]
      BY <1>9, <2>1 DEF Claim, MarkClaimed
    <3>2. QED
      BY <3>1
  <2>4. UNCHANGED <<attempt_count, scheduled_at, replay_count, tenants, result,
                     shutdown, bulk, now, faults, ghosts>>
    BY <1>9 DEF Claim, MarkClaimed
  <2> HIDE DEF Statuses, PCs
  <2>5. QED
    BY <2>2, <2>3, <2>4 DEF ghosts
<1>10. ASSUME NEW w \in Workers, ClaimRefused(w) PROVE TypeOK'
  <2>1. batch' \in [Workers -> Seq(Records)]
    BY <1>10 DEF ClaimRefused
  <2>2. QED
    BY <1>10, <2>1 DEF ClaimRefused, vars, table, locals, ghosts
<1>11. ASSUME NEW w \in Workers, EndBatch(w) PROVE TypeOK'
  BY <1>11 DEF EndBatch, vars, table, locals, ghosts
<1>12. ASSUME NEW w \in Workers, Dispatch(w) PROVE TypeOK'
  <2>1. current[w] \in Records
    BY <1>12 DEF Dispatch, Owned
  <2>2. posts' \in [Records -> Nat]
    BY <1>12, <2>1 DEF Dispatch
  <2>3. acks' \in [Records -> Nat]
    BY <1>12, <2>1 DEF Dispatch
  <2>4. result' \in [Workers -> Outcomes] /\ pc' \in [Workers -> PCs]
    BY <1>12 DEF Dispatch
  <2>5. UNCHANGED <<table, tenants, batch, current, claimed, shutdown, bulk, now, faults>>
    BY <1>12 DEF Dispatch
  <2> HIDE DEF Statuses, PCs, Outcomes
  <2>6. QED
    BY <2>2, <2>3, <2>4, <2>5 DEF table
<1>13. ASSUME NEW w \in Workers, Settle(w) PROVE TypeOK'
  <2> USE DEF Owned, ClaimIsExclusive
  <2>1. w \in Workers /\ Busy(w) /\ current[w] \in Records
    BY <1>13 DEF Settle
  <2>2. CASE result[w] = "ok" /\ MarkDelivered(current[w])
    BY <1>13, <2>1, <2>2, SMTT(60) DEF MarkDelivered, Settle, EndIteration, vars, table, locals, ghosts
  <2>3. CASE MarkFailed(current[w]) /\ result[w] # "ok"
    BY <1>13, <2>1, <2>3, SMTT(60) DEF MarkFailed, Settle, EndIteration, vars, table, locals, ghosts
  <2>4. ASSUME NEW d \in Delays, ~Exhausted(claimed[w]),
               result[w] = "retryable", RescheduleRetry(current[w], now + d)
        PROVE  TypeOK'
    BY <1>13, <2>1, <2>4, SMTT(60) DEF RescheduleRetry, Exhausted, Settle, EndIteration, vars, table, locals, ghosts
  <2>5. QED
    BY <1>13, <2>1, <2>2, <2>3, <2>4 DEF Settle
<1>14. ASSUME NEW w \in Workers, TenantsError(w) PROVE TypeOK'
  BY <1>14 DEF TenantsError, Fault, vars, table, locals, ghosts
<1>15. ASSUME NEW w \in Workers, ClaimError(w) PROVE TypeOK'
  <2>0. batch[w] \in Seq(Records) /\ batch[w] # <<>>
    BY <1>15 DEF ClaimError
  <2>1. PICK h \in Records : h = Head(batch[w])
    BY <2>0
  <2>2. batch' \in [Workers -> Seq(Records)]
    BY <1>15, SMTT(60) DEF ClaimError
  <2>3. status' \in [Records -> Statuses]
    BY <1>15, <2>1 DEF ClaimError, MarkClaimed, table
  <2>4. UNCHANGED <<attempt_count, scheduled_at, replay_count, pc, tenants, current,
                     claimed, result, shutdown, bulk, now, ghosts>>
    BY <1>15 DEF ClaimError, MarkClaimed, table
  <2>5. faults' \in Nat
    BY <1>15 DEF ClaimError, Fault
  <2> HIDE DEF Statuses, PCs
  <2>6. QED
    BY <2>2, <2>3, <2>4, <2>5 DEF ghosts
<1>16. ASSUME NEW w \in Workers, SettleError(w) PROVE TypeOK'
  BY <1>16, SMTT(60) DEF SettleError, Fault, EndIteration, vars, table, locals, ghosts
<1>17. ASSUME NEW w \in Workers, Crash(w) PROVE TypeOK'
  <2>1. batch' \in [Workers -> Seq(Records)]
    <3>1. <<>> \in Seq(Records)
      OBVIOUS
    <3>2. QED
      BY <1>17, <3>1 DEF Crash
  <2>2. /\ UNCHANGED <<table, shutdown, bulk, now, ghosts>>
        /\ faults' = faults + 1
        /\ pc' = [pc EXCEPT ![w] = "idle"]
        /\ tenants' = [tenants EXCEPT ![w] = {}]
        /\ current' = [current EXCEPT ![w] = NoRecord]
        /\ claimed' = [claimed EXCEPT ![w] = 0]
        /\ result' = [result EXCEPT ![w] = "ok"]
    BY <1>17 DEF Crash, Fault, EndIteration
  <2>3. QED
    BY <2>1, <2>2 DEF table, ghosts
<1>18. ASSUME NEW w \in Workers, Shutdown(w) PROVE TypeOK'
  BY <1>18 DEF Shutdown, vars, table, locals, ghosts
<1>19. ASSUME NEW w \in Workers, NEW t \in Tenants, NextTenant(w, t) PROVE TypeOK'
  <2>1. PICK s \in ListPending(t) : batch' = [batch EXCEPT ![w] = s]
    BY <1>19 DEF NextTenant
  <2>2. s \in Seq(Records)
    BY ListPendingType
  <2>3. QED
    BY <1>19, <2>1, <2>2 DEF NextTenant, vars, table, locals, ghosts
<1>20. ASSUME NEW w \in Workers, NEW t \in Tenants, ListError(w, t) PROVE TypeOK'
  BY <1>20 DEF ListError, Fault, vars, table, locals, ghosts
<1>21. CASE Tick
  BY <1>21 DEF Tick, vars, table, locals, ghosts
<1>22. CASE UNCHANGED vars
  BY <1>22 DEF vars, table, locals, ghosts
<1>23. QED
  BY <1>1, <1>2, <1>3, <1>4, <1>5, <1>6, <1>7, <1>8, <1>9, <1>10, <1>11, <1>12, <1>13, <1>14, <1>15, <1>16, <1>17, <1>18, <1>19, <1>20, <1>21, <1>22 DEF Next, WorkerStep, FaultStep

\* Every step keeps claims exclusive: a claim only takes a pending record, a
\* replay only a failed one, and neither has an owner.
LEMMA OwnedStep ==
    ASSUME TypeOK, ClaimIsExclusive, Owned, [Next]_vars
    PROVE  (ClaimIsExclusive /\ Owned)'
<1> USE ConstantsAssumption DEF TypeOK, Owned, Busy, ClaimIsExclusive
<1>1. ASSUME NEW r \in Records, Create(r) PROVE (ClaimIsExclusive /\ Owned)'
  BY <1>1 DEF Create, vars, table, locals, ghosts
<1>2. ASSUME NEW r \in Records, ReplayDlq(r) PROVE (ClaimIsExclusive /\ Owned)'
  BY <1>2 DEF ReplayDlq, ReplayFailed, vars, table, locals, ghosts
<1>3. ASSUME NEW r \in Records, BulkReplayStep(r) PROVE (ClaimIsExclusive /\ Owned)'
  BY <1>3 DEF BulkReplayStep, ReplayFailed, vars, table, locals, ghosts
<1>4. ASSUME NEW r \in Records, BulkReplayBound(r) PROVE (ClaimIsExclusive /\ Owned)'
  BY <1>4 DEF BulkReplayBound, vars, table, locals, ghosts
<1>5. ASSUME NEW t \in Tenants, BulkReplayList(t) PROVE (ClaimIsExclusive /\ Owned)'
  BY <1>5 DEF BulkReplayList, ListFailed, Failed, vars, table, locals, ghosts
<1>6. ASSUME NEW w \in Workers, StartPass(w) PROVE (ClaimIsExclusive /\ Owned)'
  BY <1>6 DEF StartPass, vars, table, locals, ghosts
<1>7. ASSUME NEW w \in Workers, Stop(w) PROVE (ClaimIsExclusive /\ Owned)'
  BY <1>7 DEF Stop, vars, table, locals, ghosts
<1>8. ASSUME NEW w \in Workers, EndPass(w) PROVE (ClaimIsExclusive /\ Owned)'
  BY <1>8 DEF EndPass, vars, table, locals, ghosts
<1>9. ASSUME NEW w \in Workers, Claim(w) PROVE (ClaimIsExclusive /\ Owned)'
  <2>1. batch[w] \in Seq(Records) /\ batch[w] # <<>>
    BY <1>9 DEF Claim
  <2>2. PICK h \in Records : h = Head(batch[w])
    BY <2>1
  <2>3. /\ status[h] = "pending" /\ status' = [status EXCEPT ![h] = "claimed"]
        /\ current' = [current EXCEPT ![w] = h]
        /\ claimed' = [claimed EXCEPT ![w] = attempt_count[h]]
        /\ pc' = [pc EXCEPT ![w] = "dispatch"]
        /\ attempt_count' = attempt_count
    BY <1>9, <2>2 DEF Claim, MarkClaimed
  <2>4. \A v \in Workers : Busy(v) => current[v] # h
    BY <2>3
  <2>5. ClaimIsExclusive'
    BY <2>2, <2>3, <2>4
  <2>6. Owned'
    BY <2>2, <2>3, <2>4
  <2>7. QED
    BY <2>5, <2>6
<1>10. ASSUME NEW w \in Workers, ClaimRefused(w) PROVE (ClaimIsExclusive /\ Owned)'
  BY <1>10 DEF ClaimRefused, vars, table, locals, ghosts
<1>11. ASSUME NEW w \in Workers, EndBatch(w) PROVE (ClaimIsExclusive /\ Owned)'
  BY <1>11 DEF EndBatch, vars, table, locals, ghosts
<1>12. ASSUME NEW w \in Workers, Dispatch(w) PROVE (ClaimIsExclusive /\ Owned)'
  BY <1>12, SMTT(60) DEF Dispatch, vars, table, locals, ghosts
<1>13. ASSUME NEW w \in Workers, Settle(w) PROVE (ClaimIsExclusive /\ Owned)'
  <2>1. w \in Workers /\ Busy(w) /\ current[w] \in Records
    BY <1>13, SMTT(60) DEF Settle
  <2>2. CASE result[w] = "ok" /\ MarkDelivered(current[w])
    BY <1>13, <2>1, <2>2, SMTT(60) DEF MarkDelivered, Settle, EndIteration, vars, table, locals, ghosts
  <2>3. CASE MarkFailed(current[w]) /\ result[w] # "ok"
    BY <1>13, <2>1, <2>3, SMTT(60) DEF MarkFailed, Settle, EndIteration, vars, table, locals, ghosts
  <2>4. ASSUME NEW d \in Delays, ~Exhausted(claimed[w]),
               result[w] = "retryable", RescheduleRetry(current[w], now + d)
        PROVE  (ClaimIsExclusive /\ Owned)'
    <3>1. /\ pc' = [pc EXCEPT ![w] = "items"]
          /\ current' = [current EXCEPT ![w] = NoRecord]
          /\ claimed' = [claimed EXCEPT ![w] = 0]
          /\ \A q \in Records \ {current[w]} : /\ status'[q] = status[q]
                                              /\ attempt_count'[q] = attempt_count[q]
      BY <1>13, <2>4 DEF Settle, EndIteration, RescheduleRetry
    <3>2. \A v \in Workers : Busy(v)' => /\ v # w /\ Busy(v) /\ current'[v] = current[v]
                                         /\ claimed'[v] = claimed[v]
      BY <3>1
    <3>3. ASSUME NEW v \in Workers, Busy(v)'
          PROVE  current[v] \in Records \ {current[w]}
      BY <2>1, <3>2, <3>3
    <3>4. QED
      BY <3>1, <3>2, <3>3
  <2>5. QED
    BY <1>13, <2>1, <2>2, <2>3, <2>4 DEF Settle
<1>14. ASSUME NEW w \in Workers, TenantsError(w) PROVE (ClaimIsExclusive /\ Owned)'
  BY <1>14 DEF TenantsError, Fault, vars, table, locals, ghosts
<1>15. ASSUME NEW w \in Workers, ClaimError(w) PROVE (ClaimIsExclusive /\ Owned)'
  BY <1>15 DEF ClaimError, Fault, MarkClaimed, vars, table, locals, ghosts
<1>16. ASSUME NEW w \in Workers, SettleError(w) PROVE (ClaimIsExclusive /\ Owned)'
  BY <1>16 DEF SettleError, Fault, EndIteration, vars, table, locals, ghosts
<1>17. ASSUME NEW w \in Workers, Crash(w) PROVE (ClaimIsExclusive /\ Owned)'
  BY <1>17 DEF Crash, Fault, EndIteration, vars, table, locals, ghosts
<1>18. ASSUME NEW w \in Workers, Shutdown(w) PROVE (ClaimIsExclusive /\ Owned)'
  BY <1>18 DEF Shutdown, vars, table, locals, ghosts
<1>19. ASSUME NEW w \in Workers, NEW t \in Tenants, NextTenant(w, t) PROVE (ClaimIsExclusive /\ Owned)'
  BY <1>19 DEF NextTenant, vars, table, locals, ghosts
<1>20. ASSUME NEW w \in Workers, NEW t \in Tenants, ListError(w, t) PROVE (ClaimIsExclusive /\ Owned)'
  BY <1>20 DEF ListError, Fault, vars, table, locals, ghosts
<1>21. CASE Tick
  BY <1>21 DEF Tick, vars, table, locals, ghosts
<1>22. CASE UNCHANGED vars
  BY <1>22 DEF vars, table, locals, ghosts
<1>23. QED
  BY <1>1, <1>2, <1>3, <1>4, <1>5, <1>6, <1>7, <1>8, <1>9, <1>10, <1>11, <1>12, <1>13, <1>14, <1>15, <1>16, <1>17, <1>18, <1>19, <1>20, <1>21, <1>22 DEF Next, WorkerStep, FaultStep

\* Every step keeps the acknowledgements in line with the status.
LEMMA AcksStep ==
    ASSUME TypeOK, ClaimIsExclusive, Owned, AcksFollow, [Next]_vars
    PROVE  AcksFollow'
<1> USE ConstantsAssumption DEF TypeOK, Owned, Busy, ClaimIsExclusive, AcksFollow, Outcomes
<1>1. ASSUME NEW r \in Records, Create(r) PROVE AcksFollow'
  BY <1>1 DEF Create, vars, table, locals, ghosts
<1>2. ASSUME NEW r \in Records, ReplayDlq(r) PROVE AcksFollow'
  BY <1>2, SMTT(60) DEF ReplayDlq, ReplayFailed, vars, table, locals, ghosts
<1>3. ASSUME NEW r \in Records, BulkReplayStep(r) PROVE AcksFollow'
  BY <1>3, SMTT(60) DEF BulkReplayStep, ReplayFailed, vars, table, locals, ghosts
<1>4. ASSUME NEW r \in Records, BulkReplayBound(r) PROVE AcksFollow'
  BY <1>4 DEF BulkReplayBound, vars, table, locals, ghosts
<1>5. ASSUME NEW t \in Tenants, BulkReplayList(t) PROVE AcksFollow'
  BY <1>5 DEF BulkReplayList, ListFailed, Failed, vars, table, locals, ghosts
<1>6. ASSUME NEW w \in Workers, StartPass(w) PROVE AcksFollow'
  BY <1>6 DEF StartPass, vars, table, locals, ghosts
<1>7. ASSUME NEW w \in Workers, Stop(w) PROVE AcksFollow'
  BY <1>7 DEF Stop, vars, table, locals, ghosts
<1>8. ASSUME NEW w \in Workers, EndPass(w) PROVE AcksFollow'
  BY <1>8 DEF EndPass, vars, table, locals, ghosts
<1>9. ASSUME NEW w \in Workers, Claim(w) PROVE AcksFollow'
  <2>1. batch[w] \in Seq(Records) /\ batch[w] # <<>>
    BY <1>9 DEF Claim
  <2>2. PICK h \in Records : h = Head(batch[w])
    BY <2>1
  <2>3. /\ status[h] = "pending" /\ status' = [status EXCEPT ![h] = "claimed"]
        /\ current' = [current EXCEPT ![w] = h]
        /\ pc' = [pc EXCEPT ![w] = "dispatch"]
        /\ UNCHANGED <<acks, result>>
    BY <1>9, <2>2 DEF Claim, MarkClaimed, ghosts
  <2>4. \A v \in Workers : Busy(v) => current[v] # h
    BY <2>3
  <2>5. acks[h] = 0
    <3>1. acks[h] \in Nat /\ acks[h] <= 1 /\ acks[h] # 1
      BY <2>2, <2>3
    <3>2. QED
      BY <3>1
  <2>6. ASSUME NEW q \in Records
        PROVE  /\ acks'[q] <= 1
               /\ acks'[q] = 1 => status'[q] \in {"claimed", "delivered"}
               /\ status'[q] = "delivered" => acks'[q] = 1
    BY <2>2, <2>3, <2>5
  <2>7. ASSUME NEW q \in Records, NEW v \in Workers, v # w
        PROVE  /\ pc'[v] = "dispatch" /\ current'[v] = q => acks'[q] = 0
               /\ pc'[v] = "settle" /\ current'[v] = q => (acks'[q] = 1 <=> result'[v] = "ok")
    <3>1. pc'[v] = pc[v] /\ current'[v] = current[v]
      BY <2>3, <2>7
    <3>2. QED
      BY <2>3, <3>1, SMTT(60)
  <2>8. pc'[w] = "dispatch" /\ current'[w] = h /\ acks' = acks
    BY <2>3
  <2>9. QED
    BY <2>5, <2>6, <2>7, <2>8
<1>10. ASSUME NEW w \in Workers, ClaimRefused(w) PROVE AcksFollow'
  BY <1>10 DEF ClaimRefused, vars, table, locals, ghosts
<1>11. ASSUME NEW w \in Workers, EndBatch(w) PROVE AcksFollow'
  BY <1>11 DEF EndBatch, vars, table, locals, ghosts
<1>12. ASSUME NEW w \in Workers, Dispatch(w) PROVE AcksFollow'
  BY <1>12, SMTT(60) DEF Dispatch, vars, table, locals, ghosts
<1>13. ASSUME NEW w \in Workers, Settle(w) PROVE AcksFollow'
  BY <1>13, SMTT(60) DEF Settle, MarkDelivered, MarkFailed, RescheduleRetry, Exhausted, EndIteration, vars, table, locals, ghosts
<1>14. ASSUME NEW w \in Workers, TenantsError(w) PROVE AcksFollow'
  BY <1>14 DEF TenantsError, Fault, vars, table, locals, ghosts
<1>15. ASSUME NEW w \in Workers, ClaimError(w) PROVE AcksFollow'
  <2>1. batch[w] \in Seq(Records) /\ batch[w] # <<>>
    BY <1>15 DEF ClaimError
  <2>2. PICK h \in Records : h = Head(batch[w])
    BY <2>1
  <2>3. CASE MarkClaimed(h)
    BY <1>15, <2>2, <2>3 DEF ClaimError, Fault, MarkClaimed, vars, table, locals, ghosts
  <2>4. CASE UNCHANGED table
    BY <1>15, <2>4 DEF ClaimError, Fault, vars, table, locals, ghosts
  <2>5. QED
    BY <1>15, <2>2, <2>3, <2>4 DEF ClaimError
<1>16. ASSUME NEW w \in Workers, SettleError(w) PROVE AcksFollow'
  BY <1>16 DEF SettleError, Fault, EndIteration, vars, table, locals, ghosts
<1>17. ASSUME NEW w \in Workers, Crash(w) PROVE AcksFollow'
  BY <1>17 DEF Crash, Fault, EndIteration, vars, table, locals, ghosts
<1>18. ASSUME NEW w \in Workers, Shutdown(w) PROVE AcksFollow'
  BY <1>18 DEF Shutdown, vars, table, locals, ghosts
<1>19. ASSUME NEW w \in Workers, NEW t \in Tenants, NextTenant(w, t) PROVE AcksFollow'
  BY <1>19 DEF NextTenant, vars, table, locals, ghosts
<1>20. ASSUME NEW w \in Workers, NEW t \in Tenants, ListError(w, t) PROVE AcksFollow'
  BY <1>20 DEF ListError, Fault, vars, table, locals, ghosts
<1>21. CASE Tick
  BY <1>21 DEF Tick, vars, table, locals, ghosts
<1>22. CASE UNCHANGED vars
  BY <1>22 DEF vars, table, locals, ghosts
<1>23. QED
  BY <1>1, <1>2, <1>3, <1>4, <1>5, <1>6, <1>7, <1>8, <1>9, <1>10, <1>11, <1>12, <1>13, <1>14, <1>15, <1>16, <1>17, <1>18, <1>19, <1>20, <1>21, <1>22 DEF Next, WorkerStep, FaultStep

\* Every step keeps the posts in line with the counters.
LEMMA PostsStep ==
    ASSUME TypeOK, ClaimIsExclusive, Owned, PostsFollow, [Next]_vars
    PROVE  PostsFollow'
<1> USE ConstantsAssumption DEF TypeOK, Owned, Busy, ClaimIsExclusive, PostsFollow
<1>1. ASSUME NEW r \in Records, Create(r) PROVE PostsFollow'
  BY <1>1 DEF Create, vars, table, locals, ghosts
<1>2. ASSUME NEW r \in Records, ReplayDlq(r) PROVE PostsFollow'
  BY <1>2 DEF ReplayDlq, ReplayFailed, vars, table, locals, ghosts
<1>3. ASSUME NEW r \in Records, BulkReplayStep(r) PROVE PostsFollow'
  <2>1. CASE ReplayFailed(r)
    BY <1>3, <2>1 DEF BulkReplayStep, ReplayFailed, table, locals, ghosts
  <2>2. CASE UNCHANGED <<table, ghosts>>
    BY <1>3, <2>2 DEF BulkReplayStep, table, locals, ghosts
  <2>3. QED
    BY <1>3, <2>1, <2>2 DEF BulkReplayStep
<1>4. ASSUME NEW r \in Records, BulkReplayBound(r) PROVE PostsFollow'
  BY <1>4 DEF BulkReplayBound, vars, table, locals, ghosts
<1>5. ASSUME NEW t \in Tenants, BulkReplayList(t) PROVE PostsFollow'
  BY <1>5 DEF BulkReplayList, ListFailed, Failed, vars, table, locals, ghosts
<1>6. ASSUME NEW w \in Workers, StartPass(w) PROVE PostsFollow'
  BY <1>6 DEF StartPass, vars, table, locals, ghosts
<1>7. ASSUME NEW w \in Workers, Stop(w) PROVE PostsFollow'
  BY <1>7 DEF Stop, vars, table, locals, ghosts
<1>8. ASSUME NEW w \in Workers, EndPass(w) PROVE PostsFollow'
  BY <1>8 DEF EndPass, vars, table, locals, ghosts
<1>9. ASSUME NEW w \in Workers, Claim(w) PROVE PostsFollow'
  BY <1>9 DEF Claim, MarkClaimed, vars, table, locals, ghosts
<1>10. ASSUME NEW w \in Workers, ClaimRefused(w) PROVE PostsFollow'
  BY <1>10 DEF ClaimRefused, vars, table, locals, ghosts
<1>11. ASSUME NEW w \in Workers, EndBatch(w) PROVE PostsFollow'
  BY <1>11 DEF EndBatch, vars, table, locals, ghosts
<1>12. ASSUME NEW w \in Workers, Dispatch(w) PROVE PostsFollow'
  BY <1>12, SMTT(60) DEF Dispatch, vars, table, locals, ghosts
<1>13. ASSUME NEW w \in Workers, Settle(w) PROVE PostsFollow'
  BY <1>13, SMTT(60) DEF Settle, MarkDelivered, MarkFailed, RescheduleRetry, Exhausted, EndIteration, vars, table, locals, ghosts
<1>14. ASSUME NEW w \in Workers, TenantsError(w) PROVE PostsFollow'
  BY <1>14 DEF TenantsError, Fault, vars, table, locals, ghosts
<1>15. ASSUME NEW w \in Workers, ClaimError(w) PROVE PostsFollow'
  BY <1>15 DEF ClaimError, Fault, MarkClaimed, vars, table, locals, ghosts
<1>16. ASSUME NEW w \in Workers, SettleError(w) PROVE PostsFollow'
  BY <1>16 DEF SettleError, Fault, EndIteration, vars, table, locals, ghosts
<1>17. ASSUME NEW w \in Workers, Crash(w) PROVE PostsFollow'
  BY <1>17 DEF Crash, Fault, EndIteration, vars, table, locals, ghosts
<1>18. ASSUME NEW w \in Workers, Shutdown(w) PROVE PostsFollow'
  BY <1>18 DEF Shutdown, vars, table, locals, ghosts
<1>19. ASSUME NEW w \in Workers, NEW t \in Tenants, NextTenant(w, t) PROVE PostsFollow'
  BY <1>19 DEF NextTenant, vars, table, locals, ghosts
<1>20. ASSUME NEW w \in Workers, NEW t \in Tenants, ListError(w, t) PROVE PostsFollow'
  BY <1>20 DEF ListError, Fault, vars, table, locals, ghosts
<1>21. CASE Tick
  BY <1>21 DEF Tick, vars, table, locals, ghosts
<1>22. CASE UNCHANGED vars
  BY <1>22 DEF vars, table, locals, ghosts
<1>23. QED
  BY <1>1, <1>2, <1>3, <1>4, <1>5, <1>6, <1>7, <1>8, <1>9, <1>10, <1>11, <1>12, <1>13, <1>14, <1>15, <1>16, <1>17, <1>18, <1>19, <1>20, <1>21, <1>22 DEF Next, WorkerStep, FaultStep

-----------------------------------------------------------------------------
(* Theorems. *)

\* The inductive invariant holds in every reachable state.
THEOREM InductiveInvariant == Spec => []Inductive
<1>1. Init => Inductive
  <2>1. ASSUME Init PROVE TypeOK
    <3>1. 0 \in 0 .. MaxAttempts - 1 /\ <<>> \in Seq(Records)
      BY ConstantsAssumption
    <3>2. QED
      BY <2>1, <3>1 DEF Init, TypeOK, Statuses, PCs, Outcomes
  <2>2. ASSUME Init PROVE ClaimIsExclusive /\ Owned /\ AcksFollow
    BY <2>2 DEF Init, ClaimIsExclusive, Owned, AcksFollow, Busy
  <2>3. ASSUME Init PROVE PostsFollow
    BY <2>3 DEF Init, PostsFollow
  <2>4. QED
    BY <2>1, <2>2, <2>3 DEF Inductive
<1>2. Inductive /\ [Next]_vars => Inductive'
  BY TypeStep, OwnedStep, AcksStep, PostsStep DEF Inductive
<1>3. QED
  BY <1>1, <1>2, PTL DEF Spec

\* Every reachable state is well typed: in particular attempt_count stays below
\* max_attempts, whatever workers, replays and faults do.
THEOREM TypeCorrect == Spec => []TypeOK
BY InductiveInvariant, PTL DEF Inductive

\* The settling statements of process_once only ever hit a record that is still
\* claimed and that no other worker is on, although they check neither.
THEOREM ClaimsExclusive == Spec => []ClaimIsExclusive
BY InductiveInvariant, PTL DEF Inductive

\* No endpoint acknowledges a record twice.
THEOREM AtMostOneAck == Spec => []AckedAtMostOnce
<1>1. Inductive => AckedAtMostOnce
  BY DEF Inductive, AcksFollow, AckedAtMostOnce
<1>2. QED
  BY InductiveInvariant, <1>1, PTL

\* Delivered records were acknowledged, dead-lettered ones were not.
THEOREM Settled == Spec => []SettledAsAnswered
<1>1. Inductive => SettledAsAnswered
  BY SMTT(60) DEF Inductive, TypeOK, AcksFollow, SettledAsAnswered
<1>2. QED
  BY InductiveInvariant, <1>1, PTL

\* The number of POSTs per life in the queue is at most max_attempts.
THEOREM BoundedPosts == Spec => []PostsBounded
<1>1. Inductive => PostsBounded
  BY ConstantsAssumption DEF Inductive, TypeOK, PostsFollow, PostsBounded
<1>2. QED
  BY InductiveInvariant, <1>1, PTL

\* Delivered is final: no statement of a worker or a replay leaves it.
THEOREM DeliveredFinal == Spec => DeliveredIsFinal
<1>1. Inductive /\ [Next]_vars =>
        [\A r \in Records : status[r] = "delivered" => status'[r] = "delivered"]_vars
  <2> SUFFICES ASSUME Inductive, [Next]_vars, NEW q \in Records, status[q] = "delivered"
               PROVE  status'[q] = "delivered"
    OBVIOUS
  <2> USE DEF Inductive, TypeOK, table
  <2>1. ASSUME NEW r \in Records, Create(r) \/ ReplayDlq(r) \/ BulkReplayStep(r)
        PROVE  status'[q] = "delivered"
    BY <2>1 DEF Create, ReplayDlq, BulkReplayStep, ReplayFailed
  <2>2. ASSUME NEW w \in Workers, Claim(w) \/ ClaimError(w)
        PROVE  status'[q] = "delivered"
    BY <2>2 DEF Claim, ClaimError, MarkClaimed
  <2>3. ASSUME NEW w \in Workers, Settle(w)
        PROVE  status'[q] = "delivered"
    <3>1. Busy(w) /\ current[w] \in Records /\ status[current[w]] = "claimed"
      BY <2>3 DEF Settle, Busy, ClaimIsExclusive, Owned
    <3>2. q # current[w]
      BY <3>1
    <3>3. QED
      BY <2>3, <3>2 DEF Settle, MarkDelivered, MarkFailed, RescheduleRetry
  <2>4. CASE UNCHANGED status
    BY <2>4
  <2>5. QED
    BY <2>1, <2>2, <2>3, <2>4 DEF Next, WorkerStep, FaultStep, vars, BulkReplayBound,
       BulkReplayList, StartPass, Stop, EndPass, ClaimRefused, EndBatch, Dispatch,
       TenantsError, SettleError, Crash, Shutdown, NextTenant, ListError, Tick
<1>2. QED
  BY InductiveInvariant, <1>1, PTL DEF Spec, DeliveredIsFinal

\* One step from a state without a stranded claim: a claim takes its worker
\* along, and only the settling of a record lets go of it.
LEMMA NoStrandedStep ==
    ASSUME Inductive, NoStrandedClaim, [Next]_vars
    PROVE  NoStrandedClaim'
<1> SUFFICES ASSUME faults' = 0, NEW q \in Records, status'[q] = "claimed"
             PROVE  \E w \in Workers : Busy(w)' /\ current'[w] = q
  BY DEF NoStrandedClaim
<1> USE DEF Inductive, TypeOK, table, ghosts, locals
<1>1. CASE \E w \in Workers : FaultStep(w)
  <2>1. faults' = faults + 1 /\ faults \in Nat
    BY <1>1 DEF FaultStep, TenantsError, ListError, ClaimError, SettleError, Crash, Fault
  <2>2. QED
    BY <2>1
<1>2. ASSUME faults = 0 /\ status[q] = "claimed"
      PROVE  \E w \in Workers : Busy(w) /\ current[w] = q
  BY <1>2 DEF NoStrandedClaim
<1>3. ASSUME UNCHANGED <<pc, current, faults>>, status'[q] = status[q]
      PROVE  \E w \in Workers : Busy(w)' /\ current'[w] = q
  BY <1>2, <1>3 DEF Busy
<1>4. ASSUME NEW r \in Records,
             Create(r) \/ ReplayDlq(r) \/ BulkReplayStep(r) \/ BulkReplayBound(r)
      PROVE  \E w \in Workers : Busy(w)' /\ current'[w] = q
  <2>1. UNCHANGED <<pc, current, faults>>
    BY <1>4 DEF Create, ReplayDlq, BulkReplayStep, BulkReplayBound
  <2>2. status'[q] = status[q] \/ status'[q] = "pending"
    BY <1>4 DEF Create, ReplayDlq, BulkReplayStep, BulkReplayBound, ReplayFailed
  <2>3. QED
    BY <1>3, <2>1, <2>2
<1>5. CASE Tick \/ UNCHANGED vars \/ (\E t \in Tenants : BulkReplayList(t))
           \/ \E w \in Workers : Shutdown(w)
  BY <1>3, <1>5 DEF Tick, vars, BulkReplayList, Shutdown
<1>6. ASSUME NEW w \in Workers, WorkerStep(w)
      PROVE  \E v \in Workers : Busy(v)' /\ current'[v] = q
  <2>1. CASE Claim(w)
    <3>1. /\ pc' = [pc EXCEPT ![w] = "dispatch"] /\ faults' = faults
          /\ current' = [current EXCEPT ![w] = Head(batch[w])]
          /\ status' = [status EXCEPT ![Head(batch[w])] = "claimed"]
      BY <2>1 DEF Claim, MarkClaimed
    <3>2. CASE q = Head(batch[w])
      BY <3>1, <3>2 DEF Busy
    <3>3. CASE q # Head(batch[w])
      <4>1. PICK v \in Workers : Busy(v) /\ current[v] = q
        BY <1>2, <3>1, <3>3
      <4>2. v # w
        BY <2>1, <4>1 DEF Claim, Busy
      <4>3. QED
        BY <3>1, <4>1, <4>2 DEF Busy
    <3>4. QED
      BY <3>2, <3>3
  <2>2. CASE Settle(w)
    <3>1. /\ Busy(w) /\ faults' = faults
          /\ pc' = [pc EXCEPT ![w] = "items"] /\ current' = [current EXCEPT ![w] = NoRecord]
          /\ \E s \in {"delivered", "failed", "pending"} :
                status' = [status EXCEPT ![current[w]] = s]
      BY <2>2 DEF Settle, EndIteration, MarkDelivered, MarkFailed, RescheduleRetry, Busy
    <3>2. q # current[w] /\ status[q] = "claimed"
      BY <3>1
    <3>3. PICK v \in Workers : Busy(v) /\ current[v] = q
      BY <1>2, <3>1, <3>2
    <3>4. QED
      BY <3>1, <3>2, <3>3 DEF Busy
  <2>3. CASE Dispatch(w)
    <3>1. /\ pc[w] = "dispatch" /\ pc' = [pc EXCEPT ![w] = "settle"]
          /\ UNCHANGED <<current, status, faults>>
      BY <2>3 DEF Dispatch
    <3>2. PICK v \in Workers : Busy(v) /\ current[v] = q
      BY <1>2, <3>1
    <3>3. QED
      BY <3>1, <3>2 DEF Busy
  <2>4. CASE ClaimRefused(w)
    BY <1>3, <2>4 DEF ClaimRefused
  <2>5. CASE StartPass(w) \/ Stop(w) \/ EndPass(w) \/ EndBatch(w)
             \/ \E t \in Tenants : NextTenant(w, t)
    <3>1. /\ ~Busy(w) /\ UNCHANGED <<current, status, faults>>
          /\ \E s \in PCs : pc' = [pc EXCEPT ![w] = s]
      BY <2>5 DEF StartPass, Stop, EndPass, EndBatch, NextTenant, Busy, PCs
    <3>2. PICK v \in Workers : Busy(v) /\ current[v] = q
      BY <1>2, <3>1
    <3>3. QED
      BY <3>1, <3>2 DEF Busy
  <2>6. QED
    BY <1>6, <2>1, <2>2, <2>3, <2>4, <2>5 DEF WorkerStep
<1>7. QED
  BY <1>1, <1>4, <1>5, <1>6 DEF Next

\* Shutting workers down strands no record: without a failed call or a crash,
\* every claimed record has a worker that will settle it (run_worker looks at
\* the signal only between two tenants).
THEOREM NothingStranded == Spec => []NoStrandedClaim
<1>1. Init => NoStrandedClaim
  BY DEF Init, NoStrandedClaim
<1>2. QED
  BY InductiveInvariant, <1>1, NoStrandedStep, PTL DEF Spec

=============================================================================
