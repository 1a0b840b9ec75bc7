------------------------- MODULE CompensationProofs -------------------------
(***************************************************************************)
(* Proofs about Compensation for any actions, callers, paths and bounds.   *)
(* The argument is the one optimistic locking rests on: every write of a   *)
(* row raises its lock_version, so a caller whose version still matches    *)
(* finds the row as its gates saw it.                                      *)
(*                                                                         *)
(* Then about OrchestrationRuns, for any runs, callers, lists and actions. *)
(* The task of a run is a caller of Compensation: that is proved first, so *)
(* that what is proved of Compensation holds with runs; after it that what *)
(* a run reports is what its calls did.                                    *)
(***************************************************************************)
EXTENDS CompensationLifecycle, OrchestrationRuns, SequenceTheorems, TLAPS

InFlight(c) == pc[c] \notin {"idle", "create"}

\* A transaction that has written its row and not committed yet.
Open(c) == pc[c] \in {"record", "commit"} /\ path[c] # "service"

\* A caller whose write is in the table.
Written(c) ==
    \/ pc[c] = "record" /\ path[c] = "service"
    \/ pc[c] = "respond" /\ ~aborted[c]

\* Nothing has happened to the row since the gates, unless its version moved.
Fresh(c) ==
    /\ lv[c] <= lock_version[act[c]]
    /\ lv[c] = lock_version[act[c]] => Allowed(act[c], op[c], path[c])

\* What a caller knows at each stage.
CallerOf(c) ==
    /\ InFlight(c) => act[c] \in Actions /\ status[act[c]] # "absent" /\ op[c] \in Ops
    /\ path[c] \in Paths \union {"service"}
    /\ pc[c] \in {"check", "execute", "write"} => lv[c] < MaxLock
    /\ pc[c] = "check" /\ ~ClientsGuess => lv[c] <= lock_version[act[c]]
    /\ pc[c] \in {"execute", "write"} /\ ~ClientsGuess => Fresh(c)
    /\ Open(c) => /\ holder[act[c]] = c
                  /\ lv[c] = lock_version[act[c]] /\ lv[c] < MaxLock
                  /\ ~ClientsGuess => Allowed(act[c], op[c], path[c])
    /\ pc[c] = "commit" => path[c] # "service"
    /\ Written(c) => /\ lv[c] < lock_version[act[c]]
                     /\ log[act[c]][lv[c] + 1] = NewStatus(c)
    /\ aborted[c] \/ pc[c] = "record" => WithRollbackRepo

CallersKnow == \A c \in Callers : CallerOf(c)

\* A locked row belongs to an open transaction on it.
Holders ==
    \A a \in Actions : \A c \in Callers :
        holder[a] = c => act[c] = a /\ Open(c)

\* The log ends with the row as it is.
LogFollows ==
    \A a \in Actions :
        /\ log[a][lock_version[a]] = status[a]
        /\ status[a] = "absent" => lock_version[a] = 0 /\ attempt_count[a] = 0

\* A set of row versions that really were in the table.
Stored(s) ==
    \A r \in s : /\ 0 < r.version /\ r.version <= lock_version[r.action]
                 /\ log[r.action][r.version] = r.status

\* An action that can still be attempted has budget left.
Budget ==
    ~ClientsGuess /\ "batch_tx" \notin Paths =>
        \A a \in Actions :
            /\ attempt_count[a] <= MaxRetries
            /\ status[a] \in {"absent", "pending", "approved"} =>
                    attempt_count[a] < MaxRetries

Inductive ==
    /\ TypeOK /\ CallersKnow /\ Holders /\ LogFollows /\ Budget
    /\ Stored(records)
    /\ ~WithRollbackRepo => Stored(acked)

-----------------------------------------------------------------------------
(* Lemmas: what a step does to rows, and what it leaves alone. *)

\* The stages of a caller.
Stages == {"idle", "create", "check", "execute", "write", "record", "commit", "respond"}

RowKept(a) ==
    /\ status'[a] = status[a] /\ lock_version'[a] = lock_version[a]
    /\ attempt_count'[a] = attempt_count[a] /\ code'[a] = code[a]
    /\ effect'[a] = effect[a] /\ log'[a] = log[a]

RowCreated(a) ==
    /\ status[a] = "absent" /\ status'[a] = "pending"
    /\ lock_version'[a] = lock_version[a] /\ attempt_count'[a] = attempt_count[a]
    /\ log'[a] = [log[a] EXCEPT ![0] = "pending"]

\* Caller c writes the row: its version matched, and what its gate saw holds.
RowUpdated(a, c) ==
    /\ act[c] = a /\ op[c] \in Ops /\ path[c] \in Paths \union {"service"}
    /\ status[a] # "absent" /\ holder[a] \in {NoCaller, c}
    /\ lv[c] = lock_version[a] /\ lv[c] < MaxLock
    /\ ~ClientsGuess => Allowed(a, op[c], path[c])
    /\ status'[a] = NewStatus(c) /\ lock_version'[a] = lock_version[a] + 1
    /\ attempt_count'[a] = IF op[c] = "execute" THEN attempt_count[a] + 1
                           ELSE attempt_count[a]
    /\ log'[a] = [log[a] EXCEPT ![lock_version[a] + 1] = NewStatus(c)]

\* The effect of one step of caller c on all rows.
RowsStep(c) == \A a \in Actions : RowKept(a) \/ RowCreated(a) \/ RowUpdated(a, c)

\* The locals of caller d are left alone.
Bystander(d) ==
    /\ pc'[d] = pc[d] /\ op'[d] = op[d] /\ path'[d] = path[d] /\ act'[d] = act[d]
    /\ lv'[d] = lv[d] /\ result'[d] = result[d] /\ aborted'[d] = aborted[d]

\* What an operation makes of a row is a status.
LEMMA NewStatusType ==
    ASSUME NEW c \in Callers
    PROVE  NewStatus(c) \in Statuses \ {"absent"}
BY DEF NewStatus, Statuses

\* An UPDATE that matched leaves rows in the sense above.
LEMMA UpdateRowRows ==
    ASSUME TypeOK, CallersKnow, NEW c \in Callers, UpdateRow(c), InFlight(c),
           holder[act[c]] \in {NoCaller, c}, lv[c] = lock_version[act[c]], lv[c] < MaxLock,
           ~ClientsGuess => Allowed(act[c], op[c], path[c])
    PROVE  RowsStep(c)
<1>1. /\ act[c] \in Actions /\ op[c] \in Ops /\ status[act[c]] # "absent"
      /\ path[c] \in Paths \union {"service"}
  BY DEF CallersKnow, CallerOf
<1>2. ASSUME NEW a \in Actions, a # act[c] PROVE RowKept(a)
  BY <1>1, <1>2 DEF UpdateRow, RowKept, TypeOK
<1>3. RowUpdated(act[c], c)
  BY <1>1 DEF UpdateRow, RowUpdated, TypeOK
<1>4. QED
  BY <1>2, <1>3 DEF RowsStep

\* UpdateRow keeps the types of the rows.
LEMMA UpdateRowType ==
    ASSUME TypeOK, CallersKnow, NEW c \in Callers, UpdateRow(c), InFlight(c),
           lv[c] = lock_version[act[c]], lv[c] < MaxLock
    PROVE  /\ status' \in [Actions -> Statuses]
           /\ lock_version' \in [Actions -> LockVersions]
           /\ attempt_count' \in [Actions -> Nat]
           /\ code' \in [Actions -> Results]
           /\ effect' \in [Actions -> Effects \union {NoEffect}]
           /\ log' \in [Actions -> [LockVersions -> Statuses]]
<1>1. act[c] \in Actions /\ NewStatus(c) \in Statuses
  BY NewStatusType DEF CallersKnow, CallerOf
<1>2. lock_version[act[c]] + 1 \in LockVersions /\ lock_version[act[c]] \in Nat
  BY <1>1, ConstantsAssumption DEF TypeOK, LockVersions
<1>3. log' \in [Actions -> [LockVersions -> Statuses]]
  <2>1. log' = [log EXCEPT ![act[c]] = [log[act[c]] EXCEPT ![lock_version[act[c]] + 1] = NewStatus(c)]]
    BY DEF UpdateRow
  <2>2. [log[act[c]] EXCEPT ![lock_version[act[c]] + 1] = NewStatus(c)] \in [LockVersions -> Statuses]
    BY <1>1, <1>2 DEF TypeOK
  <2>3. QED
    BY <2>1, <2>2 DEF TypeOK
<1>4. attempt_count' \in [Actions -> Nat]
  BY <1>1 DEF UpdateRow, TypeOK
<1>5. code' \in [Actions -> Results]
  BY <1>1 DEF UpdateRow, TypeOK
<1>6. lock_version' \in [Actions -> LockVersions]
  BY <1>1, <1>2 DEF UpdateRow, TypeOK
<1>7. QED
  BY <1>1, <1>3, <1>4, <1>5, <1>6 DEF UpdateRow, TypeOK

\* The row version a caller is about to report is well-formed.
LEMMA UpdatedType ==
    ASSUME TypeOK, CallersKnow, NEW c \in Callers, InFlight(c)
    PROVE  Updated(c) \in RowVersion
<1>1. act[c] \in Actions /\ NewStatus(c) \in Statuses /\ lv[c] + 1 \in Nat
  BY NewStatusType, ConstantsAssumption DEF CallersKnow, CallerOf, TypeOK, LockVersions
<1>2. QED
  BY <1>1 DEF Updated, RowVersion

-----------------------------------------------------------------------------
(* What each kind of step does to the rows. *)

\* A step of c leaves every row alone, creates it, or updates it under c's lock.
LEMMA RowStep ==
    ASSUME Inductive, NEW c \in Callers, Step(c)
    PROVE  RowsStep(c)
<1>1. ASSUME UNCHANGED rowvars PROVE RowsStep(c)
  BY <1>1 DEF rowvars, RowsStep, RowKept
<1>2. CASE CreateAction(c)
  <2>1. PICK e \in todo[c], a \in Actions \ Existing :
            /\ status' = [status EXCEPT ![a] = "pending"]
            /\ effect' = [effect EXCEPT ![a] = e]
            /\ log' = [log EXCEPT ![a][0] = "pending"]
    BY <1>2 DEF CreateAction
  <2>2. RowCreated(a)
    BY <1>2, <2>1 DEF CreateAction, RowCreated, Existing, Inductive, TypeOK
  <2>3. ASSUME NEW b \in Actions, b # a PROVE RowKept(b)
    BY <1>2, <2>1, <2>3 DEF CreateAction, RowKept, Inductive, TypeOK
  <2>4. QED
    BY <2>2, <2>3 DEF RowsStep
<1>3. ASSUME pc[c] = "write", holder[act[c]] = NoCaller, CasHolds(c), UpdateRow(c)
      PROVE  RowsStep(c)
  <2>1. InFlight(c) /\ CallerOf(c)
    BY <1>3 DEF InFlight, Inductive, CallersKnow
  <2>2. /\ lv[c] = lock_version[act[c]] /\ lv[c] < MaxLock
        /\ ~ClientsGuess => Allowed(act[c], op[c], path[c])
    BY <1>3, <2>1 DEF CasHolds, CallerOf, Fresh
  <2>3. QED
    BY <1>3, <2>1, <2>2, UpdateRowRows DEF Inductive
<1>4. ASSUME pc[c] = "commit", Applied(c) PROVE RowsStep(c)
  <2>1. InFlight(c) /\ CallerOf(c) /\ Open(c)
    BY <1>4 DEF InFlight, Inductive, CallersKnow, CallerOf, Open
  <2>2. QED
    BY <1>4, <2>1, UpdateRowRows DEF Inductive, Applied, CallerOf
<1>5. CASE WriteService(c)
  BY <1>3, <1>5 DEF WriteService
<1>6. CASE Commit(c)
  BY <1>1, <1>4, <1>6 DEF Commit
<1>7. CASE Dropped(c)
  BY <1>1, <1>3, <1>4, <1>7 DEF Dropped
<1>8. QED
  BY <1>1, <1>2, <1>5, <1>6, <1>7 DEF Step, Plan, Planned, Start, Check, Refuse,
     RunExecutor, WriteTx, Conflict, InsertRecord, Respond, InsertRecordError

\* A gate that passed still passes on a row nobody wrote.
LEMMA AllowedKept ==
    ASSUME NEW a, RowKept(a), NEW o, NEW p
    PROVE  Allowed(a, o, p)' <=> Allowed(a, o, p)
BY DEF RowKept, Allowed, CanTransitionTo, ReapproveGate, CanBeReapproved

\* A step of c takes nothing from what another caller knows.
LEMMA OthersKnow ==
    ASSUME Inductive, NEW c \in Callers, NEW d \in Callers, d # c, RowsStep(c),
           Bystander(d), \A a \in Actions : holder[a] = d => holder'[a] = d
    PROVE  CallerOf(d)'
<1>1. CallerOf(d)
  BY DEF Inductive, CallersKnow
<1>2. /\ InFlight(d)' <=> InFlight(d)
      /\ Open(d)' <=> Open(d)
      /\ Written(d)' <=> Written(d)
      /\ NewStatus(d)' = NewStatus(d)
  BY DEF Bystander, InFlight, Open, Written, NewStatus
<1>3. CASE ~InFlight(d)
  BY <1>1, <1>2, <1>3 DEF CallerOf, Bystander, InFlight, Open, Written
<1>4. CASE InFlight(d) /\ RowKept(act[d])
  <2>1. /\ act[d] \in Actions /\ status[act[d]] # "absent" /\ op[d] \in Ops
    BY <1>1, <1>4 DEF CallerOf
  <2>2. Allowed(act[d], op[d], path[d])' <=> Allowed(act[d], op[d], path[d])
    BY <1>4, AllowedKept DEF Bystander, RowKept, Allowed, CanTransitionTo,
       ReapproveGate, CanBeReapproved
  <2>3. Fresh(d)' <=> Fresh(d)
    BY <1>4, <2>2 DEF Fresh, Bystander, RowKept
  <2>4. Open(d) => holder'[act[d]] = d
    BY <1>1, <2>1 DEF CallerOf
  <2>5. QED
    BY <1>1, <1>2, <1>4, <2>1, <2>2, <2>3, <2>4 DEF CallerOf, Bystander, RowKept
<1>5. CASE InFlight(d) /\ RowUpdated(act[d], c)
  <2>1. /\ act[d] \in Actions /\ status[act[d]] # "absent" /\ op[d] \in Ops
    BY <1>1, <1>5 DEF CallerOf
  <2>2. ~Open(d)
    BY <1>1, <1>5, ConstantsAssumption DEF CallerOf, RowUpdated
  <2>3. /\ lv[d] \in Nat /\ lock_version[act[d]] \in Nat /\ MaxLock \in Nat
        /\ lock_version'[act[d]] = lock_version[act[d]] + 1
        /\ status'[act[d]] # "absent"
    BY <1>5, <2>1, NewStatusType, ConstantsAssumption
       DEF RowUpdated, Inductive, TypeOK, LockVersions
  <2>4. Written(d) => /\ lv[d] < lock_version'[act[d]]
                      /\ log'[act[d]][lv[d] + 1] = NewStatus(d)
    <3>1. SUFFICES ASSUME Written(d)
                   PROVE  /\ lv[d] < lock_version'[act[d]]
                          /\ log'[act[d]][lv[d] + 1] = NewStatus(d)
      OBVIOUS
    <3>2. lv[d] < lock_version[act[d]] /\ log[act[d]][lv[d] + 1] = NewStatus(d)
      BY <1>1, <3>1 DEF CallerOf
    <3>3. lv[d] + 1 # lock_version[act[d]] + 1 /\ lv[d] + 1 \in LockVersions
      BY <2>1, <2>3, <3>2 DEF Inductive, TypeOK, LockVersions
    <3>4. log[act[d]] \in [LockVersions -> Statuses]
      BY <2>1 DEF Inductive, TypeOK
    <3>5. log'[act[d]][lv[d] + 1] = log[act[d]][lv[d] + 1]
      BY <1>5, <3>3, <3>4 DEF RowUpdated
    <3>6. QED
      BY <2>3, <3>2, <3>5
  <2>5. pc[d] \in {"execute", "write"} /\ ~ClientsGuess => Fresh(d)'
    BY <1>1, <2>3 DEF CallerOf, Fresh, Bystander
  <2>6. pc[d] = "check" /\ ~ClientsGuess => lv[d] <= lock_version'[act[d]]
    BY <1>1, <2>3 DEF CallerOf
  <2>7. QED
    BY <1>1, <1>2, <2>1, <2>2, <2>3, <2>4, <2>5, <2>6 DEF CallerOf, Bystander
<1>6. QED
  <2>1. InFlight(d) => ~RowCreated(act[d]) /\ act[d] \in Actions
    BY <1>1 DEF CallerOf, RowCreated
  <2>2. QED
    BY <1>3, <1>4, <1>5, <2>1 DEF RowsStep

-----------------------------------------------------------------------------
(* What a step does to the caller that takes it. *)

\* Finish leaves the caller idle, with a well-formed frame.
LEMMA FinishType ==
    ASSUME TypeOK, NEW c \in Callers, Finish(c)
    PROVE  /\ pc' \in [Callers -> Stages] /\ op' \in [Callers -> Ops \union {"plan"}]
           /\ path' \in [Callers -> {"service", "tx", "batch_tx"}]
           /\ act' \in [Callers -> Actions \union {NoAction}]
           /\ lv' \in [Callers -> LockVersions]
           /\ result' \in [Callers -> Results]
           /\ todo' \in [Callers -> SUBSET Effects]
           /\ recorded' \in [Callers -> BOOLEAN] /\ aborted' \in [Callers -> BOOLEAN]
           /\ holder' \in [Actions -> Callers \union {NoCaller}]
<1>1. 0 \in LockVersions
  BY ConstantsAssumption DEF LockVersions
<1>2. QED
  BY <1>1 DEF TypeOK, Finish, Stages, Results

\* A caller that has finished knows nothing and needs nothing.
LEMMA FinishKnows ==
    ASSUME TypeOK, NEW c \in Callers, Finish(c)
    PROVE  CallerOf(c)'
<1>1. pc'[c] = "idle" /\ path'[c] = "service" /\ aborted'[c] = FALSE
  BY DEF TypeOK, Finish
<1>2. QED
  BY <1>1 DEF CallerOf, InFlight, Open, Written

\* The caller that took the step knows what its next stage needs.
LEMMA OwnKnows ==
    ASSUME Inductive, NEW c \in Callers, Step(c)
    PROVE  CallerOf(c)'
<1>0. CallerOf(c) /\ TypeOK
  BY DEF Inductive, CallersKnow
<1>1. ASSUME Finish(c) PROVE CallerOf(c)'
  BY <1>0, <1>1, FinishKnows
<1>2. CASE Plan(c)
  BY <1>0, <1>2 DEF Plan, Goto, CallerOf, InFlight, Open, Written, TypeOK
<1>3. CASE CreateAction(c)
  BY <1>0, <1>3 DEF CreateAction, CallerOf, InFlight, Open, Written, TypeOK
<1>4. CASE Start(c)
  <2>1. PICK a \in Existing, o \in Ops, p \in Paths, v \in LockVersions \ {MaxLock} :
            /\ p = "batch_tx" => o # "waive"
            /\ ClientsGuess \/ v <= lock_version[a]
            /\ act' = [act EXCEPT ![c] = a]
            /\ op' = [op EXCEPT ![c] = o]
            /\ path' = [path EXCEPT ![c] = p]
            /\ lv' = [lv EXCEPT ![c] = v]
    BY <1>4, Zenon DEF Start
  <2>2. /\ pc'[c] = "check" /\ act'[c] = a /\ op'[c] = o /\ path'[c] = p /\ lv'[c] = v
        /\ status' = status /\ lock_version' = lock_version /\ aborted' = aborted
    BY <1>0, <1>4, <2>1 DEF Start, Goto, TypeOK, rowvars
  <2>3. v < MaxLock
    BY ConstantsAssumption DEF LockVersions
  <2>4. QED
    BY <1>0, <2>1, <2>2, <2>3 DEF CallerOf, InFlight, Open, Written, Existing
<1>5. CASE Check(c)
  <2>1. /\ pc[c] = "check" /\ act[c] \in Actions /\ lock_version[act[c]] < MaxLock
        /\ lv[c] \in Nat /\ lock_version[act[c]] \in Nat
    BY <1>0, <1>5, ConstantsAssumption DEF Check, CallerOf, InFlight, TypeOK, LockVersions
  <2>2. /\ pc'[c] \in {"execute", "write"} /\ lv'[c] = Captured(c)
        /\ UNCHANGED <<rowvars, op, path, act, aborted, result>>
    BY <1>0, <1>5 DEF Check, Goto, TypeOK
  <2>3. Captured(c) < MaxLock /\ (~ClientsGuess => Captured(c) <= lock_version[act[c]])
    BY <1>0, <2>1 DEF Captured, CallerOf
  <2>4. Allowed(act[c], op[c], path[c])'
    <3>1. Allowed(act[c], op[c], path[c])
      BY <1>5 DEF Check
    <3>2. QED
      BY <2>2, <3>1 DEF rowvars, Allowed, CanTransitionTo, ReapproveGate, CanBeReapproved
  <2>5. QED
    BY <1>0, <2>1, <2>2, <2>3, <2>4
       DEF CallerOf, InFlight, Open, Written, Fresh, rowvars
<1>6. CASE RunExecutor(c)
  <2>1. /\ pc[c] = "execute" /\ pc'[c] = "write"
        /\ UNCHANGED <<rowvars, op, path, act, lv, aborted>>
    BY <1>0, <1>6 DEF RunExecutor, Goto, TypeOK
  <2>2. Fresh(c)' <=> Fresh(c)
    BY <2>1 DEF Fresh, rowvars, Allowed, CanTransitionTo, ReapproveGate, CanBeReapproved
  <2>3. QED
    BY <1>0, <2>1, <2>2 DEF CallerOf, InFlight, Open, Written, rowvars
<1>7. CASE WriteService(c)
  <2>1. /\ pc[c] = "write" /\ path[c] = "service" /\ lv[c] = lock_version[act[c]]
        /\ act[c] \in Actions /\ op[c] \in Ops
    BY <1>0, <1>7 DEF WriteService, CasHolds, CallerOf, InFlight
  <2>2. /\ pc'[c] \in {"record", "respond"} /\ (pc'[c] = "record" => WithRollbackRepo)
        /\ UNCHANGED <<op, path, act, lv, aborted, result>>
    BY <1>0, <1>7 DEF WriteService, Goto, TypeOK, KeepsRecord
  <2>3. NewStatus(c)' = NewStatus(c) /\ NewStatus(c) # "absent"
    BY <2>2, NewStatusType DEF NewStatus
  <2>4. lv[c] \in Nat /\ lv[c] + 1 \in LockVersions
    BY <1>0, <2>1, ConstantsAssumption DEF CallerOf, TypeOK, LockVersions
  <2>5. /\ status'[act[c]] = NewStatus(c) /\ lock_version'[act[c]] = lv[c] + 1
        /\ log'[act[c]][lv[c] + 1] = NewStatus(c)
    BY <1>0, <1>7, <2>1, <2>4 DEF WriteService, UpdateRow, TypeOK
  <2>6. QED
    BY <1>0, <2>1, <2>2, <2>3, <2>4, <2>5 DEF CallerOf, InFlight, Open, Written
<1>8. CASE WriteTx(c)
  <2>1. /\ pc[c] = "write" /\ path[c] # "service" /\ lv[c] = lock_version[act[c]]
        /\ act[c] \in Actions /\ op[c] \in Ops
    BY <1>0, <1>8 DEF WriteTx, CasHolds, CallerOf, InFlight
  <2>2. /\ pc'[c] \in {"record", "commit"} /\ holder'[act[c]] = c
        /\ pc'[c] = "record" => WithRollbackRepo
        /\ UNCHANGED <<rowvars, op, path, act, lv, aborted, result>>
    BY <1>0, <1>8, <2>1 DEF WriteTx, Goto, TypeOK, KeepsRecord
  <2>3. ~ClientsGuess => Allowed(act[c], op[c], path[c])'
    BY <1>0, <2>1, <2>2 DEF CallerOf, Fresh, rowvars, Allowed, CanTransitionTo,
       ReapproveGate, CanBeReapproved
  <2>4. QED
    BY <1>0, <2>1, <2>2, <2>3 DEF CallerOf, InFlight, Open, Written, rowvars
<1>9. CASE InsertRecord(c) \/ InsertRecordError(c)
  <2>1. /\ pc[c] = "record" /\ act[c] \in Actions /\ op[c] \in Ops
        /\ pc'[c] = (IF path[c] = "service" THEN "respond" ELSE "commit")
        /\ UNCHANGED <<rowvars, holder, op, path, act, lv, result>>
    BY <1>0, <1>9 DEF InsertRecord, InsertRecordError, Goto, TypeOK, CallerOf, InFlight
  <2>2. /\ NewStatus(c)' = NewStatus(c)
        /\ Allowed(act[c], op[c], path[c])' <=> Allowed(act[c], op[c], path[c])
    BY <2>1 DEF NewStatus, rowvars, Allowed, CanTransitionTo, ReapproveGate, CanBeReapproved
  <2>3. WithRollbackRepo
    BY <1>0, <1>9 DEF InsertRecord, InsertRecordError, CallerOf, TypeOK
  <2>4. QED
    BY <1>0, <2>1, <2>2, <2>3 DEF CallerOf, InFlight, Open, Written, rowvars
<1>10. CASE Commit(c)
  <2>1. /\ pc[c] = "commit" /\ path[c] # "service" /\ lv[c] = lock_version[act[c]]
        /\ act[c] \in Actions /\ op[c] \in Ops /\ lv[c] < MaxLock
        /\ status[act[c]] # "absent"
    BY <1>0, <1>10 DEF Commit, CallerOf, InFlight, Open
  <2>2. /\ pc'[c] = "respond" /\ UNCHANGED <<op, path, act, lv, aborted, result>>
    BY <1>0, <1>10 DEF Commit, Goto, TypeOK
  <2>3. NewStatus(c)' = NewStatus(c) /\ NewStatus(c) # "absent"
    BY <2>2, NewStatusType DEF NewStatus
  <2>4. lv[c] \in Nat /\ lv[c] + 1 \in LockVersions
    BY <1>0, <2>1, ConstantsAssumption DEF TypeOK, LockVersions
  <2>5. CASE aborted[c]
    BY <1>0, <1>10, <2>1, <2>2, <2>5 DEF Commit, rowvars, CallerOf, InFlight, Open, Written
  <2>6. CASE ~aborted[c]
    <3>1. /\ status'[act[c]] = NewStatus(c) /\ lock_version'[act[c]] = lv[c] + 1
          /\ log'[act[c]][lv[c] + 1] = NewStatus(c)
      BY <1>0, <1>10, <2>1, <2>4, <2>6 DEF Commit, Applied, UpdateRow, TypeOK
    <3>2. QED
      BY <1>0, <2>1, <2>2, <2>3, <2>4, <2>6, <3>1 DEF CallerOf, InFlight, Open, Written
  <2>7. QED
    BY <2>5, <2>6
<1>11. QED
  BY <1>1, <1>2, <1>3, <1>4, <1>5, <1>6, <1>7, <1>8, <1>9, <1>10
     DEF Step, Planned, Refuse, Conflict, Respond, Dropped

-----------------------------------------------------------------------------
(* The conjuncts of the inductive invariant, one by one. *)

\* What Commit and a dropped COMMIT make visible is well-formed.
LEMMA AppliedType ==
    ASSUME Inductive, NEW c \in Callers, pc[c] = "commit", Applied(c)
    PROVE  /\ status' \in [Actions -> Statuses]
           /\ lock_version' \in [Actions -> LockVersions]
           /\ attempt_count' \in [Actions -> Nat]
           /\ code' \in [Actions -> Results]
           /\ effect' \in [Actions -> Effects \union {NoEffect}]
           /\ log' \in [Actions -> [LockVersions -> Statuses]]
           /\ records' \subseteq RowVersion
<1>1. CallerOf(c) /\ InFlight(c) /\ Open(c)
  BY DEF InFlight, Inductive, CallersKnow, CallerOf, Open
<1>2. lv[c] = lock_version[act[c]] /\ lv[c] < MaxLock
  BY <1>1 DEF CallerOf
<1>3. records' \subseteq RowVersion
  BY <1>1, UpdatedType DEF Applied, Inductive, TypeOK
<1>4. QED
  BY <1>1, <1>2, <1>3, UpdateRowType DEF Applied, Inductive

\* Every step keeps the types.
LEMMA TypeStep ==
    ASSUME Inductive, NEW c \in Callers, Step(c)
    PROVE  TypeOK'
<1>0. TypeOK /\ CallerOf(c) /\ CallersKnow
  BY DEF Inductive, CallersKnow
<1>1. CASE Plan(c)
  BY <1>0, <1>1 DEF Plan, Goto, TypeOK, rowvars
<1>2. CASE CreateAction(c)
  <2>1. PICK e \in todo[c], a \in Actions \ Existing :
            /\ status' = [status EXCEPT ![a] = "pending"]
            /\ effect' = [effect EXCEPT ![a] = e]
            /\ log' = [log EXCEPT ![a][0] = "pending"]
            /\ todo' = [todo EXCEPT ![c] = @ \ {e}]
    BY <1>2, Zenon DEF CreateAction
  <2>2. status' \in [Actions -> Statuses] /\ todo' \in [Callers -> SUBSET Effects]
    BY <1>0, <2>1 DEF TypeOK, Statuses
  <2>3. effect' \in [Actions -> Effects \union {NoEffect}]
    BY <1>0, <2>1 DEF TypeOK
  <2>4. log' \in [Actions -> [LockVersions -> Statuses]]
    <3>1. log' = [log EXCEPT ![a] = [log[a] EXCEPT ![0] = "pending"]]
      BY <2>1
    <3>2. [log[a] EXCEPT ![0] = "pending"] \in [LockVersions -> Statuses]
      BY <1>0 DEF TypeOK, Statuses
    <3>3. QED
      BY <1>0, <3>1, <3>2 DEF TypeOK
  <2>5. QED
    BY <1>0, <1>2, <2>2, <2>3, <2>4 DEF CreateAction, TypeOK
<1>3. CASE Planned(c) \/ Refuse(c) \/ Conflict(c)
  <2>1. Finish(c) /\ UNCHANGED <<rowvars, records, faults, acked>>
    BY <1>3 DEF Planned, Refuse, Conflict
  <2>2. QED
    BY <1>0, <2>1, FinishType DEF TypeOK, rowvars, Stages
<1>4. CASE Start(c)
  <2>1. PICK a \in Existing, o \in Ops, p \in Paths, v \in LockVersions \ {MaxLock} :
            /\ p = "batch_tx" => o # "waive"
            /\ ClientsGuess \/ v <= lock_version[a]
            /\ act' = [act EXCEPT ![c] = a]
            /\ op' = [op EXCEPT ![c] = o]
            /\ path' = [path EXCEPT ![c] = p]
            /\ lv' = [lv EXCEPT ![c] = v]
    BY <1>4, Zenon DEF Start
  <2>2. a \in Actions /\ p \in {"service", "tx", "batch_tx"}
    BY ConstantsAssumption DEF Existing
  <2>3. QED
    BY <1>0, <1>4, <2>1, <2>2 DEF Start, Goto, TypeOK, rowvars
<1>5. CASE Check(c)
  <2>1. Captured(c) \in LockVersions
    BY <1>0, <1>5 DEF Check, Captured, CallerOf, InFlight, TypeOK
  <2>2. QED
    BY <1>0, <1>5, <2>1 DEF Check, Goto, TypeOK, rowvars
<1>6. CASE RunExecutor(c)
  <2>1. PICK r \in {"ok"} \union FailureCodes : result' = [result EXCEPT ![c] = r]
    BY <1>6 DEF RunExecutor
  <2>2. r \in Results
    BY ConstantsAssumption DEF Results
  <2>3. QED
    BY <1>0, <1>6, <2>1, <2>2 DEF RunExecutor, Goto, TypeOK, rowvars
<1>7. CASE WriteService(c)
  <2>1. InFlight(c) /\ lv[c] = lock_version[act[c]] /\ lv[c] < MaxLock /\ UpdateRow(c)
    BY <1>0, <1>7 DEF WriteService, InFlight, CasHolds, CallerOf
  <2>2. /\ status' \in [Actions -> Statuses]
        /\ lock_version' \in [Actions -> LockVersions]
        /\ attempt_count' \in [Actions -> Nat]
        /\ code' \in [Actions -> Results]
        /\ effect' \in [Actions -> Effects \union {NoEffect}]
        /\ log' \in [Actions -> [LockVersions -> Statuses]]
    BY <1>0, <2>1, UpdateRowType
  <2>3. QED
    BY <1>0, <1>7, <2>2 DEF WriteService, Goto, TypeOK
<1>8. CASE WriteTx(c)
  BY <1>0, <1>8 DEF WriteTx, Goto, TypeOK, rowvars
<1>9. CASE InsertRecord(c)
  <2>1. Updated(c) \in RowVersion
    BY <1>0, <1>9, UpdatedType DEF InsertRecord, InFlight
  <2>2. QED
    BY <1>0, <1>9, <2>1 DEF InsertRecord, Goto, TypeOK, rowvars
<1>10. CASE Commit(c)
  <2>1. CASE aborted[c]
    BY <1>0, <1>10, <2>1 DEF Commit, Goto, TypeOK, rowvars
  <2>2. CASE ~aborted[c]
    <3>1. Applied(c) /\ pc[c] = "commit"
      BY <1>10, <2>2 DEF Commit
    <3>2. /\ status' \in [Actions -> Statuses]
          /\ lock_version' \in [Actions -> LockVersions]
          /\ attempt_count' \in [Actions -> Nat]
          /\ code' \in [Actions -> Results]
          /\ effect' \in [Actions -> Effects \union {NoEffect}]
          /\ log' \in [Actions -> [LockVersions -> Statuses]]
          /\ records' \subseteq RowVersion
      BY <3>1, AppliedType
    <3>3. QED
      BY <1>0, <1>10, <3>2 DEF Commit, Goto, TypeOK
  <2>3. QED
    BY <2>1, <2>2
<1>11. CASE Respond(c)
  <2>1. Updated(c) \in RowVersion
    BY <1>0, <1>11, UpdatedType DEF Respond, InFlight
  <2>2. QED
    BY <1>0, <1>11, <2>1, FinishType DEF Respond, TypeOK, rowvars, Stages
<1>12. CASE InsertRecordError(c)
  BY <1>0, <1>12 DEF InsertRecordError, Goto, TypeOK, rowvars
<1>13. CASE Dropped(c)
  <2>1. Finish(c) /\ UNCHANGED acked /\ faults' \in Nat
    BY <1>0, <1>13 DEF Dropped, TypeOK
  <2>2. /\ status' \in [Actions -> Statuses]
        /\ lock_version' \in [Actions -> LockVersions]
        /\ attempt_count' \in [Actions -> Nat]
        /\ code' \in [Actions -> Results]
        /\ effect' \in [Actions -> Effects \union {NoEffect}]
        /\ log' \in [Actions -> [LockVersions -> Statuses]]
        /\ records' \subseteq RowVersion
    <3>1. CASE UNCHANGED <<rowvars, records>>
      BY <1>0, <3>1 DEF TypeOK, rowvars
    <3>2. CASE pc[c] = "write" /\ CasHolds(c) /\ UpdateRow(c) /\ UNCHANGED records
      <4>1. InFlight(c) /\ lv[c] = lock_version[act[c]] /\ lv[c] < MaxLock
        BY <1>0, <3>2 DEF InFlight, CasHolds, CallerOf
      <4>2. records' \subseteq RowVersion
        BY <1>0, <3>2 DEF TypeOK
      <4>3. QED
        BY <1>0, <3>2, <4>1, <4>2, UpdateRowType
    <3>3. CASE pc[c] = "commit" /\ Applied(c)
      BY <3>3, AppliedType
    <3>4. QED
      BY <1>13, <3>1, <3>2, <3>3 DEF Dropped
  <2>3. QED
    BY <1>0, <2>1, <2>2, FinishType DEF TypeOK, Stages
<1>14. QED
  BY <1>1, <1>2, <1>3, <1>4, <1>5, <1>6, <1>7, <1>8, <1>9, <1>10, <1>11, <1>12, <1>13
     DEF Step

\* A step of c leaves the frames of the others, and their row locks, alone.
LEMMA OthersKept ==
    ASSUME Inductive, NEW c \in Callers, Step(c), NEW d \in Callers, d # c
    PROVE  /\ Bystander(d)
           /\ \A a \in Actions : holder[a] = d <=> holder'[a] = d
<1>0. TypeOK /\ CallerOf(c) /\ Holders /\ NoCaller # d
  BY ConstantsAssumption DEF Inductive, CallersKnow
<1>1. ASSUME Finish(c) PROVE /\ Bystander(d)
                             /\ \A a \in Actions : holder[a] = d <=> holder'[a] = d
  BY <1>0, <1>1 DEF Finish, Bystander, TypeOK
<1>2. CASE Plan(c) \/ CreateAction(c) \/ Check(c) \/ WriteService(c) \/ InsertRecord(c)
           \/ InsertRecordError(c)
  BY <1>0, <1>2 DEF Plan, CreateAction, Check, WriteService, InsertRecord,
     InsertRecordError, Goto, Bystander, TypeOK
<1>3. CASE Start(c)
  BY <1>0, <1>3 DEF Start, Goto, Bystander, TypeOK
<1>4. CASE RunExecutor(c)
  BY <1>0, <1>4 DEF RunExecutor, Goto, Bystander, TypeOK
<1>5. CASE WriteTx(c)
  BY <1>0, <1>5 DEF WriteTx, Goto, Bystander, TypeOK
<1>6. CASE Commit(c)
  <2>1. act[c] \in Actions /\ holder[act[c]] = c
    BY <1>0, <1>6 DEF Commit, CallerOf, InFlight, Open
  <2>2. QED
    BY <1>0, <1>6, <2>1 DEF Commit, Goto, Bystander, TypeOK
<1>7. QED
  BY <1>1, <1>2, <1>3, <1>4, <1>5, <1>6 DEF Step, Planned, Refuse, Conflict, Respond, Dropped

\* Row locks stay with open transactions.
LEMMA HoldersStep ==
    ASSUME Inductive, NEW c \in Callers, Step(c)
    PROVE  Holders'
<1>0. TypeOK /\ CallerOf(c) /\ Holders /\ NoCaller # c
  BY ConstantsAssumption DEF Inductive, CallersKnow
<1>1. ASSUME NEW a \in Actions, NEW d \in Callers, d # c, holder'[a] = d
      PROVE  act'[d] = a /\ Open(d)'
  <2>1. Bystander(d) /\ holder[a] = d
    BY <1>1, OthersKept
  <2>2. QED
    BY <1>0, <2>1 DEF Holders, Bystander, Open
<1>2. ASSUME NEW a \in Actions, holder'[a] = c
      PROVE  act'[c] = a /\ Open(c)'
  <2>1. ~Finish(c)
    BY <1>0, <1>2 DEF Finish, TypeOK
  <2>2. CASE WriteTx(c)
    <3>1. act[c] \in Actions
      BY <1>0, <2>2 DEF WriteTx, CallerOf, InFlight
    <3>2. act[c] = a
      <4>1. holder[act[c]] = NoCaller /\ pc[c] = "write"
        BY <2>2 DEF WriteTx
      <4>2. SUFFICES ASSUME act[c] # a PROVE FALSE
        OBVIOUS
      <4>3. holder[a] = c
        BY <1>0, <1>2, <2>2, <3>1, <4>2 DEF WriteTx, TypeOK
      <4>4. QED
        BY <1>0, <4>1, <4>3 DEF Holders, Open
    <3>3. QED
      BY <1>0, <2>2, <3>2 DEF WriteTx, Goto, Open, TypeOK
  <2>3. CASE InsertRecord(c) \/ InsertRecordError(c)
    <3>1. holder[a] = c
      BY <1>2, <2>3 DEF InsertRecord, InsertRecordError
    <3>2. act[c] = a /\ path[c] # "service"
      BY <1>0, <3>1 DEF Holders, Open
    <3>3. QED
      BY <1>0, <2>3, <3>2 DEF InsertRecord, InsertRecordError, Goto, Open, TypeOK
  <2>4. CASE Commit(c)
    <3>1. a # act[c] /\ holder[a] = c
      BY <1>0, <1>2, <2>4 DEF Commit, TypeOK
    <3>2. QED
      BY <1>0, <3>1 DEF Holders
  <2>5. CASE \/ Plan(c) \/ CreateAction(c) \/ Start(c) \/ Check(c) \/ RunExecutor(c)
             \/ WriteService(c)
    <3>1. holder[a] = c /\ pc[c] \notin {"record", "commit"}
      BY <1>2, <2>5 DEF Plan, CreateAction, Start, Check, RunExecutor, WriteService
    <3>2. QED
      BY <1>0, <3>1 DEF Holders, Open
  <2>6. QED
    BY <2>1, <2>2, <2>3, <2>4, <2>5 DEF Step, Planned, Refuse, Conflict, Respond, Dropped
<1>3. QED
  BY <1>1, <1>2 DEF Holders

\* The log grows with the row.
LEMMA LogStep ==
    ASSUME Inductive, NEW c \in Callers, RowsStep(c)
    PROVE  LogFollows'
<1>1. ASSUME NEW a \in Actions
      PROVE  /\ log'[a][lock_version'[a]] = status'[a]
             /\ status'[a] = "absent" => lock_version'[a] = 0 /\ attempt_count'[a] = 0
  <2>0. /\ log[a] \in [LockVersions -> Statuses] /\ lock_version[a] \in LockVersions
        /\ log[a][lock_version[a]] = status[a]
        /\ status[a] = "absent" => lock_version[a] = 0 /\ attempt_count[a] = 0
    BY DEF Inductive, TypeOK, LogFollows
  <2>1. CASE RowKept(a)
    BY <2>0, <2>1 DEF RowKept
  <2>2. CASE RowCreated(a)
    BY <2>0, <2>2 DEF RowCreated
  <2>3. CASE RowUpdated(a, c)
    <3>1. lock_version[a] + 1 \in LockVersions
      BY <2>0, <2>3, ConstantsAssumption DEF RowUpdated, LockVersions
    <3>2. QED
      BY <2>0, <2>3, <3>1, NewStatusType DEF RowUpdated
  <2>4. QED
    BY <2>1, <2>2, <2>3 DEF RowsStep
<1>2. QED
  BY <1>1 DEF LogFollows

\* The gates spend the budget and never overdraw it.
LEMMA BudgetStep ==
    ASSUME Inductive, NEW c \in Callers, RowsStep(c)
    PROVE  Budget'
<1>1. SUFFICES ASSUME ~ClientsGuess, "batch_tx" \notin Paths, NEW a \in Actions
               PROVE  /\ attempt_count'[a] <= MaxRetries
                      /\ status'[a] \in {"absent", "pending", "approved"} =>
                              attempt_count'[a] < MaxRetries
  BY DEF Budget
<1>2. /\ attempt_count[a] \in Nat /\ MaxRetries \in Nat
      /\ attempt_count[a] <= MaxRetries
      /\ status[a] \in {"absent", "pending", "approved"} => attempt_count[a] < MaxRetries
  BY <1>1, ConstantsAssumption DEF Inductive, Budget, TypeOK
<1>3. CASE RowKept(a) \/ RowCreated(a)
  BY <1>2, <1>3 DEF RowKept, RowCreated
<1>4. CASE RowUpdated(a, c)
  <2>1. path[c] # "batch_tx" /\ Allowed(a, op[c], path[c])
    BY <1>1, <1>4 DEF RowUpdated
  <2>2. QED
    BY <1>2, <1>4, <2>1 DEF RowUpdated, Allowed, CanTransitionTo, ReapproveGate,
       CanBeReapproved, NewStatus
<1>5. QED
  BY <1>3, <1>4 DEF RowsStep

\* A row version that was in the table stays in its log.
LEMMA StoredKept ==
    ASSUME Inductive, NEW c \in Callers, RowsStep(c), NEW r \in RowVersion,
           0 < r.version, r.version <= lock_version[r.action],
           log[r.action][r.version] = r.status
    PROVE  /\ r.version <= lock_version'[r.action]
           /\ log'[r.action][r.version] = r.status
<1>1. /\ r.action \in Actions /\ r.version \in Nat
      /\ lock_version[r.action] \in LockVersions
      /\ log[r.action] \in [LockVersions -> Statuses]
      /\ status[r.action] = "absent" => lock_version[r.action] = 0
  BY DEF Inductive, TypeOK, LogFollows, RowVersion
<1>2. r.version \in LockVersions
  BY <1>1, ConstantsAssumption DEF LockVersions
<1>3. CASE RowKept(r.action)
  BY <1>3 DEF RowKept
<1>4. ~RowCreated(r.action)
  BY <1>1, ConstantsAssumption DEF RowCreated, LockVersions
<1>5. CASE RowUpdated(r.action, c)
  <2>1. lock_version[r.action] \in Nat /\ r.version # lock_version[r.action] + 1
    BY <1>1, ConstantsAssumption DEF LockVersions
  <2>2. QED
    BY <1>1, <1>2, <1>5, <2>1 DEF RowUpdated
<1>6. QED
  BY <1>1, <1>3, <1>4, <1>5 DEF RowsStep

\* What Applied reports is what Applied wrote.
LEMMA UpdatedStored ==
    ASSUME Inductive, NEW c \in Callers, UpdateRow(c), InFlight(c),
           lv[c] = lock_version[act[c]], lv[c] < MaxLock
    PROVE  /\ 0 < Updated(c).version
           /\ Updated(c).version <= lock_version'[Updated(c).action]
           /\ log'[Updated(c).action][Updated(c).version] = Updated(c).status
<1>1. act[c] \in Actions /\ lv[c] \in Nat /\ lv[c] + 1 \in LockVersions
  BY ConstantsAssumption DEF Inductive, CallersKnow, CallerOf, TypeOK, LockVersions
<1>2. lock_version'[act[c]] = lv[c] + 1 /\ log'[act[c]][lv[c] + 1] = NewStatus(c)
  BY <1>1 DEF UpdateRow, Inductive, TypeOK
<1>3. QED
  BY <1>1, <1>2 DEF Updated

\* Every rollback record is of a version that was in the table.
LEMMA RecordsStep ==
    ASSUME Inductive, NEW c \in Callers, Step(c)
    PROVE  Stored(records)'
<1>0. TypeOK /\ CallerOf(c) /\ Stored(records) /\ RowsStep(c)
  BY RowStep DEF Inductive, CallersKnow
<1>1. ASSUME NEW r \in records
      PROVE  /\ 0 < r.version /\ r.version <= lock_version'[r.action]
             /\ log'[r.action][r.version] = r.status
  <2>1. r \in RowVersion
    BY <1>0 DEF TypeOK
  <2>2. QED
    BY <1>0, <2>1, StoredKept DEF Stored
<1>2. CASE records' = records
  BY <1>1, <1>2 DEF Stored
<1>3. CASE pc[c] = "record" /\ path[c] = "service" /\ records' = records \union {Updated(c)}
           /\ UNCHANGED rowvars
  <2>1. /\ lv[c] \in Nat /\ lv[c] < lock_version[act[c]] /\ act[c] \in Actions
        /\ log[act[c]][lv[c] + 1] = NewStatus(c) /\ lock_version[act[c]] \in Nat
    BY <1>0, <1>3, ConstantsAssumption DEF CallerOf, Written, InFlight, TypeOK, LockVersions
  <2>2. /\ 0 < Updated(c).version /\ Updated(c).version <= lock_version'[Updated(c).action]
        /\ log'[Updated(c).action][Updated(c).version] = Updated(c).status
    BY <1>3, <2>1 DEF Updated, rowvars
  <2>3. QED
    BY <1>1, <1>3, <2>2 DEF Stored
<1>4. CASE pc[c] = "commit" /\ Applied(c)
  <2>1. InFlight(c) /\ lv[c] = lock_version[act[c]] /\ lv[c] < MaxLock /\ UpdateRow(c)
    BY <1>0, <1>4 DEF CallerOf, InFlight, Open, Applied
  <2>2. /\ 0 < Updated(c).version /\ Updated(c).version <= lock_version'[Updated(c).action]
        /\ log'[Updated(c).action][Updated(c).version] = Updated(c).status
    BY <2>1, UpdatedStored
  <2>3. records' = records \/ records' = records \union {Updated(c)}
    BY <1>4 DEF Applied
  <2>4. QED
    BY <1>1, <2>2, <2>3 DEF Stored
<1>5. QED
  BY <1>2, <1>3, <1>4 DEF Step, Plan, CreateAction, Planned, Start, Check, Refuse,
     RunExecutor, WriteService, WriteTx, Conflict, InsertRecord, Commit, Respond,
     InsertRecordError, Dropped

\* Without rollback records no transaction fails half way: answers are true.
LEMMA AnswersStep ==
    ASSUME Inductive, NEW c \in Callers, Step(c), ~WithRollbackRepo
    PROVE  Stored(acked)'
<1>0. TypeOK /\ CallerOf(c) /\ Stored(acked) /\ RowsStep(c)
  BY RowStep DEF Inductive, CallersKnow
<1>1. ASSUME NEW r \in acked
      PROVE  /\ 0 < r.version /\ r.version <= lock_version'[r.action]
             /\ log'[r.action][r.version] = r.status
  <2>1. r \in RowVersion
    BY <1>0 DEF TypeOK
  <2>2. QED
    BY <1>0, <2>1, StoredKept DEF Stored
<1>2. CASE acked' = acked
  BY <1>1, <1>2 DEF Stored
<1>3. CASE Respond(c)
  <2>1. Written(c) /\ InFlight(c)
    BY <1>0, <1>3 DEF Respond, CallerOf, Written, InFlight
  <2>2. /\ lv[c] \in Nat /\ lv[c] < lock_version[act[c]] /\ act[c] \in Actions
        /\ log[act[c]][lv[c] + 1] = NewStatus(c) /\ lock_version[act[c]] \in Nat
    BY <1>0, <2>1, ConstantsAssumption DEF CallerOf, TypeOK, LockVersions
  <2>3. /\ 0 < Updated(c).version /\ Updated(c).version <= lock_version'[Updated(c).action]
        /\ log'[Updated(c).action][Updated(c).version] = Updated(c).status
    BY <1>3, <2>2 DEF Updated, Respond, rowvars
  <2>4. acked' = acked \union {Updated(c)}
    BY <1>3 DEF Respond
  <2>5. QED
    BY <1>1, <2>3, <2>4 DEF Stored
<1>4. QED
  BY <1>2, <1>3 DEF Step, Plan, CreateAction, Planned, Start, Check, Refuse,
     RunExecutor, WriteService, WriteTx, Conflict, InsertRecord, Commit,
     InsertRecordError, Dropped

-----------------------------------------------------------------------------
(* Theorems. *)

\* The invariant is inductive.
LEMMA InductiveStep == Inductive /\ [Next]_vars => Inductive'
<1>1. ASSUME Inductive, NEW c \in Callers, Step(c) PROVE Inductive'
  <2>1. RowsStep(c)
    BY <1>1, RowStep
  <2>2. TypeOK' /\ Holders' /\ Stored(records)'
    BY <1>1, TypeStep, HoldersStep, RecordsStep
  <2>3. LogFollows' /\ Budget'
    BY <1>1, <2>1, LogStep, BudgetStep
  <2>4. ~WithRollbackRepo => Stored(acked)'
    BY <1>1, AnswersStep
  <2>5. ASSUME NEW d \in Callers PROVE CallerOf(d)'
    <3>1. CASE d = c
      BY <1>1, <3>1, OwnKnows
    <3>2. CASE d # c
      BY <1>1, <2>1, <3>2, OthersKept, OthersKnow
    <3>3. QED
      BY <3>1, <3>2
  <2>6. QED
    BY <2>2, <2>3, <2>4, <2>5 DEF Inductive, CallersKnow
<1>2. ASSUME Inductive, UNCHANGED vars PROVE Inductive'
  BY <1>2 DEF vars, rowvars, callervars, Inductive, TypeOK, CallersKnow, CallerOf,
     InFlight, Open, Written, Fresh, Holders, LogFollows, Budget, Stored, NewStatus,
     Allowed, CanTransitionTo, ReapproveGate, CanBeReapproved
<1>3. QED
  BY <1>1, <1>2 DEF Next

\* It holds to begin with.
LEMMA InductiveInit == Init => Inductive
<1>1. SUFFICES ASSUME Init PROVE Inductive
  OBVIOUS
<1>2. 0 \in LockVersions /\ 0 < MaxRetries /\ 0 <= MaxRetries
  BY ConstantsAssumption DEF LockVersions
<1>3. TypeOK
  BY <1>1, <1>2 DEF Init, TypeOK, Statuses, Results
<1>4. CallersKnow /\ Holders
  BY <1>1, ConstantsAssumption
     DEF Init, CallersKnow, CallerOf, InFlight, Open, Written, Holders
<1>5. LogFollows /\ Budget
  BY <1>1, <1>2 DEF Init, LogFollows, Budget
<1>6. Stored(records) /\ Stored(acked)
  BY <1>1 DEF Init, Stored
<1>7. QED
  BY <1>3, <1>4, <1>5, <1>6 DEF Inductive

\* The inductive invariant: what every caller knows of its row, who may hold a
\* row, and what the log and the records say, hold in every reachable state.
THEOREM InductiveInvariant == Spec => []Inductive
BY InductiveInit, InductiveStep, PTL DEF Spec

\* Type correctness: in particular no lock_version passes the bound.
THEOREM TypeCorrect == Spec => []TypeOK
<1>1. Inductive => TypeOK
  BY DEF Inductive
<1>2. QED
  BY <1>1, InductiveInvariant, PTL

\* Clients that send only versions they have read never make a row jump outside
\* the transition matrix, on any path and in any interleaving.
THEOREM RowsFollowMatrix ==
    ASSUME ~ClientsGuess
    PROVE  Spec => LegalTransitions
<1>1. ASSUME Inductive, [Next]_vars
      PROVE  [\A a \in Actions :
                status'[a] # status[a] => <<status[a], status'[a]>> \in Legal]_vars
  <2>1. CASE UNCHANGED vars
    BY <2>1
  <2>2. ASSUME NEW c \in Callers, Step(c), NEW a \in Actions, status'[a] # status[a]
        PROVE  <<status[a], status'[a]>> \in Legal
    <3>1. RowCreated(a) \/ RowUpdated(a, c)
      BY <1>1, <2>2, RowStep DEF RowsStep, RowKept
    <3>2. CASE RowCreated(a)
      BY <3>2 DEF RowCreated, Legal
    <3>3. CASE RowUpdated(a, c)
      <4>1. Allowed(a, op[c], path[c]) /\ status'[a] = NewStatus(c)
        BY <3>3 DEF RowUpdated
      <4>2. QED
        BY <4>1 DEF Allowed, CanTransitionTo, ReapproveGate, CanBeReapproved,
           NewStatus, Legal
    <3>4. QED
      BY <3>1, <3>2, <3>3
  <2>3. QED
    BY <1>1, <2>1, <2>2 DEF Next
<1>2. QED
  BY <1>1, InductiveInvariant, PTL DEF Spec, LegalTransitions

\* Off the batch handlers' transactions a dead-letter candidate never leaves
\* Failed: the gate of reapprove still holds when its UPDATE lands.
THEOREM DeadLettersFinal ==
    ASSUME ~ClientsGuess, "batch_tx" \notin Paths
    PROVE  Spec => DlqIsFinal
<1>1. ASSUME Inductive, [Next]_vars
      PROVE  [\A a \in Actions :
                status[a] = "failed"
                /\ (attempt_count[a] >= MaxRetries \/ code[a] = "permanent")
                    => status'[a] = "failed"]_vars
  <2>1. CASE UNCHANGED vars
    BY <2>1
  <2>2. ASSUME NEW c \in Callers, Step(c), NEW a \in Actions, status[a] = "failed",
               attempt_count[a] >= MaxRetries \/ code[a] = "permanent"
        PROVE  status'[a] = "failed"
    <3>1. RowKept(a) \/ RowUpdated(a, c)
      BY <1>1, <2>2, RowStep DEF RowsStep, RowCreated
    <3>2. ~RowUpdated(a, c)
      <4>1. SUFFICES ASSUME RowUpdated(a, c) PROVE FALSE
        OBVIOUS
      <4>2. path[c] # "batch_tx" /\ Allowed(a, op[c], path[c])
        BY <4>1 DEF RowUpdated
      <4>3. attempt_count[a] \in Nat /\ MaxRetries \in Nat
        BY <1>1, ConstantsAssumption DEF Inductive, TypeOK
      <4>4. QED
        BY <2>2, <4>2, <4>3 DEF Allowed, CanTransitionTo, ReapproveGate, CanBeReapproved
    <3>3. QED
      BY <2>2, <3>1, <3>2 DEF RowKept
  <2>3. QED
    BY <1>1, <2>1, <2>2 DEF Next
<1>2. QED
  BY <1>1, InductiveInvariant, PTL DEF Spec, DlqIsFinal

\* Off the batch handlers' transactions max_retries bounds the attempts.
THEOREM AttemptsBounded ==
    ASSUME ~ClientsGuess, "batch_tx" \notin Paths
    PROVE  Spec => []AttemptsWithinBudget
<1>1. Inductive => AttemptsWithinBudget
  BY DEF Inductive, Budget, AttemptsWithinBudget
<1>2. QED
  BY <1>1, InductiveInvariant, PTL

\* Every rollback record, on every path and after any fault, reports what the
\* row version it belongs to really was.
THEOREM RecordsTellTheTruth == Spec => []RecordsAccurate
<1>1. ASSUME Inductive PROVE RecordsAccurate
  <2>1. ASSUME NEW r \in records PROVE /\ r.version <= lock_version[r.action]
                                       /\ log[r.action][r.version] = r.status
    BY <1>1, <2>1 DEF Inductive, Stored
  <2>2. ASSUME NEW r \in records, NEW q \in records, r.action = q.action,
               r.version = q.version
        PROVE  r = q
    <3>1. r.status = q.status
      BY <2>1, <2>2
    <3>2. r \in RowVersion /\ q \in RowVersion
      BY <1>1 DEF Inductive, TypeOK
    <3>3. QED
      BY <2>2, <3>1, <3>2 DEF RowVersion
  <2>3. QED
    BY <2>1, <2>2 DEF RecordsAccurate
<1>2. QED
  BY <1>1, InductiveInvariant, PTL

\* Without rollback records every success a caller was answered is in the table.
THEOREM AnswersTrue ==
    ASSUME ~WithRollbackRepo
    PROVE  Spec => []AnsweredIsStored
<1>1. Inductive => AnsweredIsStored
  BY DEF Inductive, Stored, AnsweredIsStored
<1>2. QED
  BY <1>1, InductiveInvariant, PTL

-----------------------------------------------------------------------------
(* The lifecycle.  Compensation implements ActionLifecycle, for any        *)
(* actions, callers and bounds, when clients send only versions they have  *)
(* read and no caller takes the transaction of a batch handler (whose      *)
(* reapprove looks at neither the budget nor the error).                   *)

\* The UPDATE of a caller whose version matched is one step of its action: what
\* its gate saw still holds, so the abstract guard does.
LEMMA UpdateIsLifecycleStep ==
    ASSUME Inductive, ~ClientsGuess, "batch_tx" \notin Paths, NEW c \in Callers,
           UpdateRow(c), InFlight(c), Allowed(act[c], op[c], path[c]),
           NEW a \in Actions, a = act[c]
    PROVE  Life!Next
<1> DEFINE perm == {x \in Actions : code[x] = "permanent"}
           perm2 == {x \in Actions : code'[x] = "permanent"}
<1>1. /\ op[c] \in Ops /\ path[c] # "batch_tx"
      /\ attempt_count[a] \in Nat /\ MaxRetries \in Nat
      /\ status \in [Actions -> Statuses] /\ attempt_count \in [Actions -> Nat]
      /\ code \in [Actions -> Results] /\ result[c] \in Results
  BY ConstantsAssumption DEF Inductive, CallersKnow, CallerOf, TypeOK
<1>2. status[a] \in {"pending", "approved"} => attempt_count[a] < MaxRetries
  BY <1>1 DEF Inductive, Budget
<1>3. /\ status' = [status EXCEPT ![a] = NewStatus(c)]
      /\ attempt_count' = [attempt_count EXCEPT ![a] =
                              IF op[c] = "execute" THEN @ + 1 ELSE @]
      /\ code' = [code EXCEPT ![a] = IF op[c] = "execute" THEN result[c] ELSE @]
  BY DEF UpdateRow
<1>4. CASE op[c] # "execute"
  <2>1. attempt_count' = attempt_count /\ code' = code
    BY <1>1, <1>3, <1>4
  <2>2. CASE op[c] \in {"approve", "waive"}
    <3>1. status[a] = "pending" /\ NewStatus(c) \in {"approved", "waived"}
      BY <2>2 DEF Allowed, CanTransitionTo, NewStatus
    <3>2. Life!Decide(a)
      BY <1>3, <2>1, <3>1 DEF Life!Decide, Life!Move
    <3>3. QED
      BY <3>2 DEF Life!Next
  <2>3. CASE op[c] = "reapprove"
    <3>1. /\ status[a] = "failed" /\ NewStatus(c) = "pending"
          /\ attempt_count[a] < MaxRetries /\ code[a] # "permanent"
      BY <1>1, <2>3 DEF Allowed, ReapproveGate, CanBeReapproved, NewStatus
    <3>2. Life!Retry(a)
      BY <1>3, <2>1, <3>1 DEF Life!Retry, Life!Move
    <3>3. QED
      BY <3>2 DEF Life!Next
  <2>4. QED
    BY <1>1, <1>4, <2>2, <2>3 DEF Ops
<1>5. CASE op[c] = "execute"
  <2>1. /\ status[a] = "approved" /\ attempt_count[a] < MaxRetries
        /\ NewStatus(c) = IF result[c] = "ok" THEN "executed" ELSE "failed"
    BY <1>2, <1>5 DEF Allowed, NewStatus
  <2>2. attempt_count' = [attempt_count EXCEPT ![a] = @ + 1]
    BY <1>3, <1>5
  <2>3. CASE result[c] = "permanent"
    <3>1. perm2 = perm \union {a}
      BY <1>1, <1>3, <1>5, <2>3
    <3>2. Life!Attempt(a)
      BY <1>3, <2>1, <2>2, <2>3, <3>1 DEF Life!Attempt, Life!Move
    <3>3. QED
      BY <3>2 DEF Life!Next
  <2>4. CASE result[c] # "permanent"
    <3>1. perm2 = perm \ {a}
      BY <1>1, <1>3, <1>5, <2>4
    <3>2. Life!Attempt(a)
      BY <1>3, <2>1, <2>2, <3>1 DEF Life!Attempt, Life!Move
    <3>3. QED
      BY <3>2 DEF Life!Next
  <2>5. QED
    BY <2>3, <2>4
<1>6. QED
  BY <1>4, <1>5

\* Every step of a caller is a step of the lifecycle or invisible in it.
LEMMA CallerStepRefines ==
    ASSUME Inductive, ~ClientsGuess, "batch_tx" \notin Paths, NEW c \in Callers, Step(c)
    PROVE  [Life!Next]_(Life!vars)
<1>0. TypeOK /\ CallerOf(c)
  BY DEF Inductive, CallersKnow
<1>1. CASE UNCHANGED rowvars
  BY <1>1 DEF rowvars, Life!vars
<1>2. CASE CreateAction(c)
  <2>1. PICK e \in todo[c], a \in Actions \ Existing :
            status' = [status EXCEPT ![a] = "pending"]
    BY <1>2 DEF CreateAction
  <2>2. Life!Plan(a)
    BY <1>2, <2>1 DEF CreateAction, Existing, Life!Plan, Life!Move
  <2>3. QED
    BY <2>1, <2>2 DEF Life!Next
<1>3. CASE pc[c] = "write" /\ CasHolds(c) /\ UpdateRow(c)
  <2>1. InFlight(c) /\ Allowed(act[c], op[c], path[c]) /\ act[c] \in Actions
    BY <1>0, <1>3 DEF InFlight, CallerOf, Fresh, CasHolds
  <2>2. QED
    BY <1>3, <2>1, UpdateIsLifecycleStep
<1>4. CASE pc[c] = "commit" /\ UpdateRow(c)
  <2>1. InFlight(c) /\ Allowed(act[c], op[c], path[c]) /\ act[c] \in Actions
    BY <1>0, <1>4 DEF InFlight, CallerOf, Open
  <2>2. QED
    BY <1>4, <2>1, UpdateIsLifecycleStep
<1>5. QED
  BY <1>1, <1>2, <1>3, <1>4 DEF Step, Plan, Planned, Start, Check, Refuse,
     RunExecutor, WriteService, WriteTx, Conflict, InsertRecord, Commit, Respond,
     InsertRecordError, Dropped, Applied

\* The compensation service implements the lifecycle it promises, for every
\* number of actions, callers and retries: compare-and-set on lock_version is
\* enough to make each committed write one legal move of one action.
THEOREM LifecycleImplemented ==
    ASSUME ~ClientsGuess, "batch_tx" \notin Paths
    PROVE  Spec => ImplementsLifecycle
<1>1. Init => Life!Init
  BY DEF Init, Life!Init
<1>2. ASSUME Inductive, [Next]_vars PROVE [Life!Next]_(Life!vars)
  <2>1. CASE UNCHANGED vars
    BY <2>1 DEF vars, rowvars, Life!vars
  <2>2. CASE Next
    BY <1>2, <2>2, CallerStepRefines DEF Next
  <2>3. QED
    BY <1>2, <2>1, <2>2
<1>3. QED
  BY <1>1, <1>2, InductiveInvariant, PTL DEF Spec, ImplementsLifecycle, Life!Spec

-----------------------------------------------------------------------------
(* Orchestration runs. *)

\* A run's task is inside the service exactly while it is a caller there, and
\* what it will report is of the call it makes.
TaskOf(r) ==
    /\ path[r] = "service" /\ ~aborted[r]
    /\ pc[r] \in {"idle", "check", "execute", "write", "record", "respond"}
    /\ pc[r] = "idle" <=> task[r] # "call"
    /\ task[r] \in {"decide", "call", "store"} => next[r] # 0
    /\ task[r] = "call" => /\ item[r].action = act[r] /\ item[r].decision = op[r]
                           /\ ~item[r].success

RunsKnow == \A r \in Runs : TaskOf(r)

RunsInductive == Inductive /\ RunsTypeOK /\ RunsKnow

\* One step of the task of run r, or of the handler that creates it.
OwnStep(r) == CreateRun(r) \/ RunStep(r) \/ ReadFailed(r) \/ Abandon(r)

-----------------------------------------------------------------------------
(* A run is a caller. *)

\* What a run decides to do is a request that any client could send.
LEMMA DecideIsStart ==
    ASSUME RunsInductive, "service" \in Paths, NEW r \in Runs, Decide(r)
    PROVE  UNCHANGED vars \/ Start(r)
<1> DEFINE a == run[r].action_ids[next[r]]
           d == IF a \in Existing \ Foreign THEN Decision(a) ELSE "not_found"
<1>1. TypeOK /\ TaskOf(r) /\ r \in Callers
  BY RunsAssumption DEF RunsInductive, RunsKnow, Inductive
<1>2. CASE d \notin Ops
  BY <1>2 DEF Decide, vars, callervars
<1>3. CASE d \in Ops
  <2>1. a \in Existing /\ d \in Ops /\ a \in Actions
    BY <1>3 DEF Ops, Existing
  <2>2. lock_version[a] \in LockVersions \ {MaxLock}
    BY <1>1, <1>3, <2>1, ConstantsAssumption DEF Decide, TypeOK, LockVersions
  <2>3. /\ pc[r] = "idle"
        /\ act' = [act EXCEPT ![r] = a] /\ op' = [op EXCEPT ![r] = d]
        /\ lv' = [lv EXCEPT ![r] = lock_version[a]]
        /\ Goto(r, "check")
        /\ UNCHANGED <<rowvars, holder, records, path, result, todo, recorded, aborted,
                       faults, acked>>
    BY <1>1, <1>3 DEF Decide, TaskOf
  <2>4. path' = [path EXCEPT ![r] = "service"]
    BY <1>1, <2>3 DEF TaskOf, TypeOK
  <2>5. lock_version[a] <= lock_version[a]
    BY <2>2, ConstantsAssumption DEF LockVersions
  <2>6. QED
    BY <2>1, <2>2, <2>3, <2>4, <2>5 DEF Start
<1>4. QED
  BY <1>2, <1>3

\* Every step of a run is a step of its caller, or none.
LEMMA OwnStepIsStep ==
    ASSUME RunsInductive, "service" \in Paths, NEW r \in Runs, OwnStep(r)
    PROVE  UNCHANGED vars \/ Step(r)
BY DecideIsStart DEF OwnStep, RunStep, CreateRun, StartRun, Call, Returned, Refused, StoreItem,
   FinishRun, ReadFailed, Abandon, Step

\* Every step of the composition is a step of the service alone, or none.
LEMMA RunsNextIsNext ==
    ASSUME RunsInductive, "service" \in Paths, [RunsNext]_allvars
    PROVE  [Next]_vars
<1>1. Runs \subseteq Callers
  BY RunsAssumption
<1>2. CASE OtherStep
  BY <1>2 DEF OtherStep, Next
<1>3. CASE \E r \in Runs : OwnStep(r)
  BY <1>1, <1>3, OwnStepIsStep DEF Next
<1>4. CASE UNCHANGED allvars
  BY <1>4 DEF allvars
<1>5. QED
  BY <1>2, <1>3, <1>4 DEF RunsNext, OwnStep

-----------------------------------------------------------------------------
(* The invariant. *)

\* It holds before any run is created.
LEMMA RunsInductiveInit == RunsInit => RunsInductive
<1>1. SUFFICES ASSUME RunsInit PROVE RunsInductive
  OBVIOUS
<1>2. Inductive
  BY <1>1, InductiveInit DEF RunsInit
<1>3. RunsTypeOK
  BY <1>1 DEF RunsInit, RunsTypeOK, RunRow, RunStatuses, RunItem, NoItem, Decisions, Statuses
<1>4. RunsKnow
  BY <1>1, RunsAssumption DEF RunsInit, Init, RunsKnow, TaskOf
<1>5. QED
  BY <1>2, <1>3, <1>4 DEF RunsInductive

\* Whoever steps, a run that does not is left alone in the service.
LEMMA RunsAside ==
    ASSUME RunsInductive, NEW c \in Callers, UNCHANGED vars \/ Step(c), NEW r \in Runs, r # c
    PROVE  Bystander(r)
<1>1. Inductive /\ r \in Callers
  BY RunsAssumption DEF RunsInductive
<1>2. CASE UNCHANGED vars
  BY <1>2 DEF vars, callervars, Bystander
<1>3. QED
  BY <1>1, <1>2, OthersKept

\* A row with one more item.
LEMMA RecordedType ==
    ASSUME NEW row \in RunRow, NEW i \in RunItem
    PROVE  Recorded(row, i) \in RunRow
<1>1. /\ row.items \in Seq(RunItem) /\ row.not_found \in Nat /\ row.succeeded \in Nat
      /\ row.failed \in Nat
  BY DEF RunRow
<1>2. PICK s \in Seq(RunItem), n \in Nat, k \in Nat, f \in Nat :
          Recorded(row, i) = [row EXCEPT !.items = s, !.not_found = n, !.succeeded = k, !.failed = f]
  <2> DEFINE s == Append(row.items, i)
             n == IF i.decision = "not_found" THEN row.not_found + 1 ELSE row.not_found
             k == IF i.success THEN row.succeeded + 1 ELSE row.succeeded
             f == IF ~i.success /\ i.decision # "not_found" THEN row.failed + 1 ELSE row.failed
  <2>1. s \in Seq(RunItem)
    BY <1>1
  <2>2. n \in Nat /\ k \in Nat /\ f \in Nat
    BY <1>1
  <2>3. Recorded(row, i) = [row EXCEPT !.items = s, !.not_found = n, !.succeeded = k, !.failed = f]
    BY Zenon DEF Recorded
  <2> HIDE DEF s, n, k, f
  <2>4. QED
    BY <2>1, <2>2, <2>3
<1>3. QED
  BY <1>2 DEF RunRow

\* The rows of runs and the results of items keep their types.
LEMMA RunsTypeStep ==
    ASSUME RunsInductive, [RunsNext]_allvars
    PROVE  RunsTypeOK'
<1>0. /\ TypeOK /\ RunsTypeOK
      /\ Runs \subseteq Callers /\ ActionLists \subseteq Seq(Actions) /\ MaxRunFaults \in Nat
  BY RunsAssumption DEF RunsInductive, Inductive
<1>1. CASE OtherStep \/ UNCHANGED allvars
  BY <1>0, <1>1 DEF OtherStep, allvars, runvars, RunsTypeOK
<1>2. ASSUME NEW r \in Runs, CreateRun(r) PROVE RunsTypeOK'
  <2>1. PICK ids \in ActionLists :
            run' = [run EXCEPT ![r] = [@ EXCEPT !.status = "pending", !.action_ids = ids]]
    BY <1>2 DEF CreateRun
  <2>2. [run[r] EXCEPT !.status = "pending", !.action_ids = ids] \in RunRow
    BY <1>0 DEF RunsTypeOK, RunRow, RunStatuses
  <2>3. QED
    BY <1>0, <1>2, <2>1, <2>2 DEF CreateRun, GotoTask, RunsTypeOK
<1>3. ASSUME NEW r \in Runs, StartRun(r) \/ FinishRun(r) PROVE RunsTypeOK'
  <2>1. PICK s \in RunStatuses : run' = [run EXCEPT ![r] = [@ EXCEPT !.status = s]]
    BY <1>3 DEF StartRun, FinishRun, FinalStatus, RunStatuses
  <2>2. [run[r] EXCEPT !.status = s] \in RunRow
    BY <1>0 DEF RunsTypeOK, RunRow
  <2>3. run' \in [Runs -> RunRow]
    BY <1>0, <2>1, <2>2 DEF RunsTypeOK
  <2>4. /\ next' \in [Runs -> Nat] /\ item' = item /\ run_faults' = run_faults
        /\ task' \in [Runs -> {"none", "spawned", "decide", "call", "store", "ended"}]
    <3>1. CASE StartRun(r)
      BY <1>0, <3>1 DEF StartRun, GotoTask, RunsTypeOK
    <3>2. CASE FinishRun(r)
      BY <1>0, <3>2 DEF FinishRun, GotoTask, RunsTypeOK
    <3>3. QED
      BY <1>3, <3>1, <3>2
  <2>5. QED
    BY <1>0, <2>3, <2>4 DEF RunsTypeOK
<1>4. ASSUME NEW r \in Runs, StoreItem(r) PROVE RunsTypeOK'
  <2>1. Recorded(run[r], item[r]) \in RunRow
    BY <1>0, RecordedType DEF RunsTypeOK
  <2>2. NoItem \in RunItem
    BY DEF NoItem, RunItem, Decisions, Statuses
  <2>3. QED
    BY <1>0, <1>4, <2>1, <2>2 DEF StoreItem, GotoTask, RunsTypeOK
<1>5. ASSUME NEW r \in Runs, Decide(r) PROVE RunsTypeOK'
  <2> DEFINE a == run[r].action_ids[next[r]]
             d == IF a \in Existing \ Foreign THEN Decision(a) ELSE "not_found"
             i == [action |-> a, decision |-> d, success |-> d = "skip",
                   status |-> status[a], version |-> 0]
  <2>1. a \in Actions
    BY <1>0, <1>5 DEF RunsInductive, RunsKnow, TaskOf, Decide, Total, RunsTypeOK, RunRow
  <2>2. d \in Decisions
    BY DEF Decision, Decisions
  <2>3. i \in RunItem
    BY <1>0, <2>1, <2>2 DEF RunItem, TypeOK
  <2>4. QED
    BY <1>0, <1>5, <2>3 DEF Decide, GotoTask, RunsTypeOK
<1>6. ASSUME NEW r \in Runs, Call(r) \/ Refused(r) \/ Abandon(r) PROVE RunsTypeOK'
  BY <1>0, <1>6 DEF Call, Refused, Abandon, GotoTask, runvars, RunsTypeOK
<1>7. ASSUME NEW r \in Runs, Returned(r) PROVE RunsTypeOK'
  <2>1. /\ lv[r] + 1 \in Nat /\ NewStatus(r) \in Statuses /\ item[r] \in RunItem
    BY <1>0, NewStatusType, ConstantsAssumption DEF TypeOK, LockVersions, RunsTypeOK
  <2>2. PICK st \in Statuses, v \in Nat :
            item' = [item EXCEPT ![r] = [@ EXCEPT !.success = TRUE, !.status = st, !.version = v]]
    BY <1>7, <2>1 DEF Returned
  <2>3. [item[r] EXCEPT !.success = TRUE, !.status = st, !.version = v] \in RunItem
    BY <2>1 DEF RunItem
  <2>4. item' \in [Runs -> RunItem]
    BY <1>0, <2>2, <2>3 DEF RunsTypeOK
  <2>5. QED
    BY <1>0, <1>7, <2>4 DEF Returned, GotoTask, RunsTypeOK
<1>8. ASSUME NEW r \in Runs, ReadFailed(r) PROVE RunsTypeOK'
  <2>1. run[r].action_ids[next[r]] \in Actions
    BY <1>0, <1>8 DEF RunsInductive, RunsKnow, TaskOf, ReadFailed, Total, RunsTypeOK, RunRow
  <2>2. [NoItem EXCEPT !.action = run[r].action_ids[next[r]]] \in RunItem
    BY <2>1 DEF NoItem, RunItem, Decisions, Statuses
  <2>3. QED
    BY <1>0, <1>8, <2>2 DEF ReadFailed, GotoTask, RunsTypeOK
<1>9. QED
  BY <1>1, <1>2, <1>3, <1>4, <1>5, <1>6, <1>7, <1>8 DEF RunsNext, RunStep

\* The caller of a run stays on the service path, and leaves the service when
\* its task takes the answer.
LEMMA RunsKnowStep ==
    ASSUME RunsInductive, "service" \in Paths, [RunsNext]_allvars
    PROVE  RunsKnow'
<1>0. /\ TypeOK /\ RunsTypeOK /\ Runs \subseteq Callers
      /\ \A r \in Runs : TaskOf(r)
  BY RunsAssumption DEF RunsInductive, Inductive, RunsKnow
<1>1. SUFFICES ASSUME NEW r \in Runs PROVE TaskOf(r)'
  BY DEF RunsKnow
<1>2. ASSUME Bystander(r), UNCHANGED <<next[r], task[r], item[r]>> PROVE TaskOf(r)'
  BY <1>0, <1>2 DEF TaskOf, Bystander
<1>3. CASE OtherStep
  <2>1. PICK c \in Callers \ Runs : Step(c)
    BY <1>3 DEF OtherStep
  <2>2. Bystander(r)
    BY <2>1, RunsAside
  <2>3. QED
    BY <1>2, <1>3, <2>2 DEF OtherStep, runvars
<1>4. CASE UNCHANGED allvars
  BY <1>2, <1>4 DEF allvars, vars, callervars, runvars, Bystander
<1>5. ASSUME NEW s \in Runs \ {r}, OwnStep(s) PROVE TaskOf(r)'
  <2>1. Bystander(r)
    BY <1>0, <1>5, OwnStepIsStep, RunsAside
  <2>2. UNCHANGED <<next[r], task[r], item[r]>>
    BY <1>0, <1>5 DEF OwnStep, RunStep, CreateRun, StartRun, Decide, Call, Returned, Refused,
       StoreItem, FinishRun, ReadFailed, Abandon, GotoTask, runvars, RunsTypeOK
  <2>3. QED
    BY <1>2, <2>1, <2>2
<1>6. ASSUME OwnStep(r) PROVE TaskOf(r)'
  <2>1. TaskOf(r)
    BY <1>0
  <2>2. ASSUME Finish(r) PROVE pc'[r] = "idle" /\ path'[r] = "service" /\ ~aborted'[r]
    BY <1>0, <2>2 DEF Finish, TypeOK
  <2>3. CASE CreateRun(r) \/ StartRun(r) \/ StoreItem(r) \/ FinishRun(r) \/ ReadFailed(r)
    BY <1>0, <2>1, <2>3 DEF CreateRun, StartRun, StoreItem, FinishRun, ReadFailed, GotoTask,
       vars, callervars, TaskOf, RunsTypeOK
  <2>4. CASE Decide(r)
    <3> DEFINE a == run[r].action_ids[next[r]]
               d == IF a \in Existing \ Foreign THEN Decision(a) ELSE "not_found"
    <3>1. /\ UNCHANGED <<path, aborted, next>> /\ next[r] # 0 /\ pc[r] = "idle"
          /\ path[r] = "service" /\ ~aborted[r]
      BY <2>1, <2>4 DEF Decide, TaskOf
    <3>2. CASE d \in Ops
      <4>1. /\ item' = [item EXCEPT ![r] = [action |-> a, decision |-> d, success |-> d = "skip",
                                            status |-> status[a], version |-> 0]]
            /\ task' = [task EXCEPT ![r] = "call"] /\ pc' = [pc EXCEPT ![r] = "check"]
            /\ act' = [act EXCEPT ![r] = a] /\ op' = [op EXCEPT ![r] = d]
        BY <2>4, <3>2 DEF Decide, GotoTask, Goto
      <4>2. /\ item'[r].action = act'[r] /\ item'[r].decision = op'[r] /\ ~item'[r].success
            /\ task'[r] = "call" /\ pc'[r] = "check"
        BY <1>0, <3>2, <4>1 DEF RunsTypeOK, TypeOK, Ops
      <4>3. QED
        BY <3>1, <4>2 DEF TaskOf
    <3>3. CASE d \notin Ops
      <4>1. task' = [task EXCEPT ![r] = "store"] /\ UNCHANGED pc
        BY <2>4, <3>3 DEF Decide, GotoTask
      <4>2. QED
        BY <1>0, <3>1, <4>1 DEF TaskOf, RunsTypeOK
    <3>4. QED
      BY <3>2, <3>3
  <2>5. CASE Call(r)
    BY <1>0, <2>1, <2>5 DEF Call, Check, RunExecutor, WriteService, InsertRecord, InsertRecordError,
       Goto, TaskOf, TypeOK, runvars
  <2>6. CASE Returned(r)
    BY <1>0, <2>1, <2>2, <2>6 DEF Returned, Respond, GotoTask, TaskOf, RunsTypeOK
  <2>7. CASE Refused(r)
    BY <1>0, <2>1, <2>2, <2>7 DEF Refused, Refuse, Conflict, Dropped, GotoTask, TaskOf, RunsTypeOK
  <2>8. CASE Abandon(r)
    <3>1. pc'[r] = "idle" /\ path'[r] = "service" /\ ~aborted'[r]
      BY <2>1, <2>2, <2>8 DEF Abandon, Dropped, vars, callervars, TaskOf
    <3>2. QED
      BY <1>0, <2>1, <2>8, <3>1 DEF Abandon, GotoTask, TaskOf, RunsTypeOK
  <2>9. QED
    BY <1>6, <2>3, <2>4, <2>5, <2>6, <2>7, <2>8 DEF OwnStep, RunStep
<1>7. QED
  BY <1>3, <1>4, <1>5, <1>6 DEF RunsNext, OwnStep

\* It is kept by every step, of runs and of operators.
LEMMA RunsInductiveStep ==
    ASSUME "service" \in Paths
    PROVE  RunsInductive /\ [RunsNext]_allvars => RunsInductive'
<1>1. SUFFICES ASSUME RunsInductive, [RunsNext]_allvars PROVE RunsInductive'
  OBVIOUS
<1>2. Inductive'
  BY <1>1, RunsNextIsNext, InductiveStep DEF RunsInductive
<1>3. QED
  BY <1>1, <1>2, RunsTypeStep, RunsKnowStep DEF RunsInductive

-----------------------------------------------------------------------------
(* What runs report. *)

\* Run r can report, or is about to, that it took row a to version v.
Claims(r, a, v) ==
    \/ task[r] = "store" /\ Credited(item[r]) /\ item[r].action = a /\ item[r].version = v
    \/ task[r] = "call" /\ Written(r) /\ act[r] = a /\ lv[r] + 1 = v

Reports(i, a, v) == Credited(i) /\ i.action = a /\ i.version = v

\* A result that took a row somewhere took it there.
TrueItem(i) ==
    Credited(i) => /\ i.action \in Actions /\ 0 < i.version
                   /\ i.version <= lock_version[i.action]
                   /\ log[i.action][i.version] = i.status

Reported(s, k) == run[s].items[k]
Positions(s) == DOMAIN run[s].items

\* Every report is true, and no version of a row is reported twice.
ReportsInductive ==
    /\ \A s \in Runs : \A k \in Positions(s) : TrueItem(Reported(s, k))
    /\ \A s \in Runs : task[s] = "store" => TrueItem(item[s])
    /\ \A r, s \in Runs : \A a \in Actions : \A v \in Nat :
            Claims(r, a, v) /\ Claims(s, a, v) => r = s
    /\ \A r, s \in Runs : \A a \in Actions : \A v \in Nat : \A k \in Positions(s) :
            Claims(r, a, v) => ~Reports(Reported(s, k), a, v)
    /\ \A r, s \in Runs : \A a \in Actions : \A v \in Nat :
            \A j \in Positions(r) : \A k \in Positions(s) :
                Reports(Reported(r, j), a, v) /\ Reports(Reported(s, k), a, v) => r = s /\ j = k

\* The one caller that steps: the task of a run, or another.
Moves(m) ==
    \/ m \in Runs /\ OwnStep(m)
    \/ m \notin Runs /\ Step(m) /\ UNCHANGED runvars

\* No step makes a true report false.
LEMMA TrueItemKept ==
    ASSUME RunsInductive, "service" \in Paths, NEW m \in Callers, Moves(m),
           NEW i \in RunItem, TrueItem(i), Credited(i)
    PROVE  /\ i.action \in Actions /\ 0 < i.version
           /\ i.version <= lock_version'[i.action]
           /\ log'[i.action][i.version] = i.status
<1>1. UNCHANGED vars \/ Step(m)
  BY OwnStepIsStep DEF Moves
<1>2. CASE UNCHANGED vars
  BY <1>2 DEF TrueItem, vars, rowvars
<1>3. CASE Step(m)
  <2> DEFINE q == [action |-> i.action, version |-> i.version, status |-> i.status]
  <2>1. q \in RowVersion /\ q.action = i.action /\ q.version = i.version /\ q.status = i.status
    BY DEF RowVersion, RunItem, TrueItem
  <2>2. RowsStep(m)
    BY <1>3, RowStep DEF RunsInductive
  <2>3. /\ q.version <= lock_version'[q.action] /\ log'[q.action][q.version] = q.status
    BY <2>1, <2>2, StoredKept DEF TrueItem, RunsInductive
  <2>4. QED
    BY <2>1, <2>3 DEF TrueItem
<1>4. QED
  BY <1>1, <1>2, <1>3

\* A claim is of a version the row has had.
LEMMA ClaimsBelow ==
    ASSUME RunsInductive, ReportsInductive, NEW r \in Runs, NEW a \in Actions, NEW v \in Nat,
           Claims(r, a, v)
    PROVE  v <= lock_version[a]
<1>1. TypeOK /\ r \in Callers /\ CallerOf(r)
  BY RunsAssumption DEF RunsInductive, Inductive, CallersKnow
<1>2. CASE task[r] = "store"
  BY <1>2 DEF Claims, ReportsInductive, TrueItem
<1>3. CASE task[r] = "call"
  BY <1>1, <1>3, ConstantsAssumption DEF Claims, CallerOf, TypeOK, LockVersions
<1>4. QED
  BY <1>2, <1>3 DEF Claims

\* The only new claim is that of the run that has just written the row.
LEMMA ClaimsMove ==
    ASSUME RunsInductive, "service" \in Paths, NEW m \in Callers, Moves(m),
           NEW s \in Runs, NEW a \in Actions, NEW v \in Nat, Claims(s, a, v)'
    PROVE  Claims(s, a, v) \/ (s = m /\ v = lock_version[a] + 1)
<1>0. TypeOK /\ RunsTypeOK /\ s \in Callers /\ TaskOf(s)
  BY RunsAssumption DEF RunsInductive, Inductive, RunsKnow
<1>1. CASE s # m
  <2>1. Bystander(s)
    BY <1>1, OwnStepIsStep, RunsAside DEF Moves
  <2>2. UNCHANGED <<task[s], item[s]>>
    BY <1>0, <1>1 DEF Moves, OwnStep, RunStep, CreateRun, StartRun, Decide, Call, Returned,
       Refused, StoreItem, FinishRun, ReadFailed, Abandon, GotoTask, runvars, RunsTypeOK
  <2>3. QED
    BY <2>1, <2>2 DEF Claims, Credited, Written, Bystander
<1>2. CASE s = m
  <2>1. OwnStep(s)
    BY <1>2 DEF Moves
  <2>2. ~(CreateRun(s) \/ StartRun(s) \/ StoreItem(s) \/ FinishRun(s) \/ Abandon(s))
    BY <1>0 DEF CreateRun, StartRun, StoreItem, FinishRun, Abandon, GotoTask, Claims, RunsTypeOK
  <2>3. ~ReadFailed(s)
    BY <1>0 DEF ReadFailed, GotoTask, Claims, Credited, NoItem, RunsTypeOK
  <2>4. ~Refused(s)
    BY <1>0 DEF Refused, GotoTask, Claims, Credited, TaskOf, RunsTypeOK
  <2>5. ~Decide(s)
    <3> DEFINE b == run[s].action_ids[next[s]]
               d == IF b \in Existing \ Foreign THEN Decision(b) ELSE "not_found"
    <3>1. SUFFICES ASSUME Decide(s) PROVE FALSE
      OBVIOUS
    <3>2. /\ item' = [item EXCEPT ![s] = [action |-> b, decision |-> d, success |-> d = "skip",
                                          status |-> status[b], version |-> 0]]
          /\ d \in Ops => task' = [task EXCEPT ![s] = "call"] /\ pc' = [pc EXCEPT ![s] = "check"]
          /\ d \notin Ops => task' = [task EXCEPT ![s] = "store"]
      BY <3>1 DEF Decide, GotoTask, Goto
    <3>3. item'[s].decision = d /\ (item'[s].success <=> d = "skip")
      BY <1>0, <3>2 DEF RunsTypeOK
    <3>4. CASE d \in Ops
      BY <1>0, <3>2, <3>4 DEF Claims, Written, TypeOK, RunsTypeOK
    <3>5. CASE d \notin Ops
      BY <1>0, <3>2, <3>3, <3>5 DEF Claims, Credited, Ops, RunsTypeOK
    <3>6. QED
      BY <3>4, <3>5
  <2>6. CASE Call(s)
    <3>1. /\ task'[s] = "call" /\ Written(s)' /\ act'[s] = a /\ lv'[s] + 1 = v /\ task[s] = "call"
      BY <2>6 DEF Call, runvars, Claims
    <3>2. CASE Check(s) \/ RunExecutor(s)
      BY <1>0, <3>1, <3>2 DEF Check, RunExecutor, Goto, Written, TypeOK
    <3>3. CASE WriteService(s)
      BY <1>2, <3>1, <3>3 DEF WriteService, CasHolds
    <3>4. CASE InsertRecord(s) \/ InsertRecordError(s)
      BY <1>0, <3>1, <3>4 DEF InsertRecord, InsertRecordError, Claims, Written, TaskOf
    <3>5. QED
      BY <2>6, <3>2, <3>3, <3>4 DEF Call
  <2>7. CASE Returned(s)
    <3>1. /\ task[s] = "call" /\ pc[s] = "respond" /\ Written(s)
          /\ task' = [task EXCEPT ![s] = "store"]
          /\ item' = [item EXCEPT ![s].success = TRUE, ![s].status = NewStatus(s),
                                  ![s].version = lv[s] + 1]
      BY <1>0, <2>7 DEF Returned, Respond, GotoTask, TaskOf, Written
    <3>2. item'[s].action = act[s] /\ item'[s].version = lv[s] + 1
      BY <1>0, <3>1 DEF RunsTypeOK, RunItem, TaskOf
    <3>3. QED
      BY <1>0, <3>1, <3>2 DEF Claims, RunsTypeOK
  <2>8. QED
    BY <2>1, <2>2, <2>3, <2>4, <2>5, <2>6, <2>7 DEF OwnStep, RunStep
<1>3. QED
  BY <1>1, <1>2

\* The only new report is that of the run that stores its item.
LEMMA ReportsMove ==
    ASSUME RunsInductive, NEW m \in Callers, Moves(m), NEW s \in Runs, NEW k \in Positions(s)'
    PROVE  \/ k \in Positions(s) /\ Reported(s, k)' = Reported(s, k)
           \/ /\ s = m /\ StoreItem(s) /\ task[s] = "store" /\ task'[s] = "decide"
              /\ k = Len(run[s].items) + 1 /\ Reported(s, k)' = item[s]
<1>0. RunsTypeOK
  BY DEF RunsInductive
<1>1. CASE run'[s].items = run[s].items
  BY <1>1 DEF Positions, Reported
<1>2. CASE s = m /\ StoreItem(s)
  <2>1. /\ run[s].items \in Seq(RunItem) /\ item[s] \in RunItem /\ run[s] \in RunRow
    BY <1>0 DEF RunsTypeOK, RunRow
  <2>2. run'[s].items = Append(run[s].items, item[s])
    BY <1>0, <1>2, <2>1 DEF StoreItem, Recorded, RunsTypeOK, RunRow
  <2>3. k \in 1 .. Len(run[s].items) + 1
    BY <2>1, <2>2 DEF Positions
  <2>4. task[s] = "store" /\ task'[s] = "decide"
    BY <1>0, <1>2 DEF StoreItem, GotoTask, RunsTypeOK
  <2>5. QED
    BY <1>2, <2>1, <2>2, <2>3, <2>4 DEF Positions, Reported
<1>3. QED
  <2>1. CASE m \in Runs /\ CreateRun(m)
    BY <1>0, <1>1, <2>1 DEF CreateRun, RunsTypeOK, RunRow
  <2>2. CASE m \in Runs /\ (StartRun(m) \/ FinishRun(m))
    BY <1>0, <1>1, <2>2 DEF StartRun, FinishRun, RunsTypeOK, RunRow
  <2>3. CASE m \in Runs /\ StoreItem(m)
    BY <1>0, <1>1, <1>2, <2>3 DEF StoreItem, RunsTypeOK
  <2>4. CASE run' = run
    BY <1>1, <2>4
  <2>5. QED
    BY <2>1, <2>2, <2>3, <2>4 DEF Moves, OwnStep, RunStep, Decide, Call, Returned, Refused,
       ReadFailed, Abandon, runvars

\* An item at hand that is credited was so before, or its call has just
\* returned from a write.
LEMMA ItemMove ==
    ASSUME RunsInductive, "service" \in Paths, NEW m \in Callers, Moves(m),
           NEW s \in Runs, task'[s] = "store", Credited(item'[s])
    PROVE  \/ task[s] = "store" /\ item'[s] = item[s]
           \/ /\ UNCHANGED rowvars /\ Written(s)
              /\ item'[s].action = act[s] /\ item'[s].version = lv[s] + 1
              /\ item'[s].status = NewStatus(s)
<1>0. TypeOK /\ RunsTypeOK /\ s \in Callers /\ TaskOf(s)
  BY RunsAssumption DEF RunsInductive, Inductive, RunsKnow
<1>1. CASE s # m
  BY <1>0, <1>1 DEF Moves, OwnStep, RunStep, CreateRun, StartRun, Decide, Call, Returned,
     Refused, StoreItem, FinishRun, ReadFailed, Abandon, GotoTask, runvars, RunsTypeOK
<1>2. CASE s = m
  <2>1. OwnStep(s)
    BY <1>2 DEF Moves
  <2>2. ~(CreateRun(s) \/ StartRun(s) \/ StoreItem(s) \/ FinishRun(s) \/ Abandon(s))
    BY <1>0 DEF CreateRun, StartRun, StoreItem, FinishRun, Abandon, GotoTask, RunsTypeOK
  <2>3. ~ReadFailed(s)
    BY <1>0 DEF ReadFailed, Credited, NoItem, RunsTypeOK
  <2>4. ~Refused(s)
    BY <1>0 DEF Refused, Credited, TaskOf
  <2>5. ~Decide(s)
    <3> DEFINE b == run[s].action_ids[next[s]]
               d == IF b \in Existing \ Foreign THEN Decision(b) ELSE "not_found"
    <3>1. SUFFICES ASSUME Decide(s) PROVE FALSE
      OBVIOUS
    <3>2. /\ item' = [item EXCEPT ![s] = [action |-> b, decision |-> d, success |-> d = "skip",
                                          status |-> status[b], version |-> 0]]
          /\ d \in Ops => task' = [task EXCEPT ![s] = "call"]
      BY <3>1 DEF Decide, GotoTask
    <3>3. item'[s].decision = d /\ (item'[s].success <=> d = "skip")
      BY <1>0, <3>2 DEF RunsTypeOK
    <3>4. QED
      BY <1>0, <3>2, <3>3 DEF Credited, Ops, RunsTypeOK
  <2>6. ~Call(s)
    BY <1>0 DEF Call, runvars, RunsTypeOK
  <2>7. CASE Returned(s)
    <3>1. /\ task[s] = "call" /\ pc[s] = "respond" /\ Written(s) /\ UNCHANGED rowvars
          /\ item' = [item EXCEPT ![s].success = TRUE, ![s].status = NewStatus(s),
                                  ![s].version = lv[s] + 1]
      BY <1>0, <2>7 DEF Returned, Respond, TaskOf, Written
    <3>2. /\ item'[s].action = act[s] /\ item'[s].version = lv[s] + 1
          /\ item'[s].status = NewStatus(s)
      BY <1>0, <3>1 DEF RunsTypeOK, RunItem, TaskOf
    <3>3. QED
      BY <3>1, <3>2
  <2>8. QED
    BY <2>1, <2>2, <2>3, <2>4, <2>5, <2>6, <2>7 DEF OwnStep, RunStep
<1>3. QED
  BY <1>1, <1>2

\* The reports stay true.
LEMMA TrueStep ==
    ASSUME RunsInductive, ReportsInductive, "service" \in Paths, NEW m \in Callers, Moves(m),
           NEW s \in Runs
    PROVE  /\ \A k \in Positions(s)' : TrueItem(Reported(s, k))'
           /\ task'[s] = "store" => TrueItem(item[s])'
<1>0. TypeOK /\ RunsTypeOK /\ s \in Callers /\ CallerOf(s)
  BY RunsAssumption DEF RunsInductive, Inductive, CallersKnow
<1>1. ASSUME NEW i \in RunItem, TrueItem(i), NEW j, j = i
      PROVE  Credited(j) => /\ j.action \in Actions /\ 0 < j.version
                            /\ j.version <= lock_version'[j.action]
                            /\ log'[j.action][j.version] = j.status
  BY <1>1, TrueItemKept
<1>2. ASSUME NEW k \in Positions(s)' PROVE TrueItem(Reported(s, k))'
  <2>1. PICK i \in RunItem : TrueItem(i) /\ Reported(s, k)' = i
    <3>1. CASE k \in Positions(s) /\ Reported(s, k)' = Reported(s, k)
      <4>1. run[s].items \in Seq(RunItem)
        BY <1>0 DEF RunsTypeOK, RunRow
      <4>2. Reported(s, k) \in RunItem /\ TrueItem(Reported(s, k))
        BY <3>1, <4>1 DEF Positions, Reported, ReportsInductive
      <4>3. QED
        BY <3>1, <4>2
    <3>2. CASE task[s] = "store" /\ Reported(s, k)' = item[s]
      BY <1>0, <3>2 DEF ReportsInductive, RunsTypeOK
    <3>3. QED
      BY <1>2, <3>1, <3>2, ReportsMove
  <2>2. QED
    BY <1>1, <2>1 DEF TrueItem, Credited
<1>3. ASSUME task'[s] = "store" PROVE TrueItem(item[s])'
  <2>1. SUFFICES ASSUME Credited(item'[s])
                 PROVE  /\ item'[s].action \in Actions /\ 0 < item'[s].version
                        /\ item'[s].version <= lock_version'[item'[s].action]
                        /\ log'[item'[s].action][item'[s].version] = item'[s].status
    BY DEF TrueItem, Credited
  <2>2. CASE task[s] = "store" /\ item'[s] = item[s]
    <3>1. item[s] \in RunItem /\ TrueItem(item[s])
      BY <1>0, <2>2 DEF RunsTypeOK, ReportsInductive
    <3>2. QED
      BY <1>1, <2>1, <2>2, <3>1
  <2>3. CASE /\ UNCHANGED rowvars /\ Written(s)
             /\ item'[s].action = act[s] /\ item'[s].version = lv[s] + 1
             /\ item'[s].status = NewStatus(s)
    <3>1. /\ act[s] \in Actions /\ lv[s] < lock_version[act[s]]
          /\ log[act[s]][lv[s] + 1] = NewStatus(s)
      BY <2>3 , <1>0 DEF CallerOf, Written, InFlight
    <3>2. lv[s] \in Nat /\ lock_version[act[s]] \in Nat
      BY <1>0, <3>1, ConstantsAssumption DEF TypeOK, LockVersions
    <3>3. QED
      BY <2>3, <3>1, <3>2 DEF rowvars
  <2>4. QED
    BY <1>3, <2>1, <2>2, <2>3, ItemMove
<1>4. QED
  BY <1>2, <1>3

\* A version that is reported, or claimed, is not the one just written.
LEMMA ReportsBelow ==
    ASSUME RunsInductive, ReportsInductive, NEW s \in Runs, NEW a \in Actions, NEW v \in Nat,
           Claims(s, a, v) \/ \E k \in Positions(s) : Reports(Reported(s, k), a, v)
    PROVE  v # lock_version[a] + 1
<1>1. lock_version[a] \in Nat
  BY ConstantsAssumption DEF RunsInductive, Inductive, TypeOK, LockVersions
<1>2. v <= lock_version[a]
  BY ClaimsBelow DEF ReportsInductive, TrueItem, Reports
<1>3. QED
  BY <1>1, <1>2

\* Nor is one reported twice.
LEMMA OnceStep ==
    ASSUME RunsInductive, ReportsInductive, "service" \in Paths, NEW m \in Callers, Moves(m),
           NEW r \in Runs, NEW s \in Runs, NEW a \in Actions, NEW v \in Nat
    PROVE  /\ Claims(r, a, v)' /\ Claims(s, a, v)' => r = s
           /\ \A k \in Positions(s)' : Claims(r, a, v)' => ~Reports(Reported(s, k), a, v)'
           /\ \A j \in Positions(r)' : \A k \in Positions(s)' :
                Reports(Reported(r, j), a, v)' /\ Reports(Reported(s, k), a, v)'
                => r = s /\ j = k
<1>0. /\ RunsTypeOK
      /\ \A x \in Runs : run[x].items \in Seq(RunItem)
  BY DEF RunsInductive, RunsTypeOK, RunRow
<1>1. ASSUME NEW x \in Runs, Claims(x, a, v)'
      PROVE  Claims(x, a, v) \/ (x = m /\ v = lock_version[a] + 1)
  BY <1>1, ClaimsMove
<1>2. ASSUME NEW x \in Runs, NEW k \in Positions(x)', Reports(Reported(x, k), a, v)'
      PROVE  \/ k \in Positions(x) /\ Reports(Reported(x, k), a, v)
             \/ /\ x = m /\ k = Len(run[x].items) + 1 /\ Claims(x, a, v)
                /\ task'[x] = "decide"
  BY <1>2, ReportsMove DEF Reports, Credited, Claims
<1>3. ASSUME Claims(r, a, v)', Claims(s, a, v)' PROVE r = s
  <2>1. CASE Claims(r, a, v) /\ Claims(s, a, v)
    BY <2>1 DEF ReportsInductive
  <2>2. QED
    BY <1>1, <1>3, <2>1, ReportsBelow
<1>4. ASSUME NEW k \in Positions(s)', Claims(r, a, v)', Reports(Reported(s, k), a, v)'
      PROVE  FALSE
  <2>1. CASE k \in Positions(s) /\ Reports(Reported(s, k), a, v)
    <3>1. ~Claims(r, a, v)
      BY <2>1 DEF ReportsInductive
    <3>2. v # lock_version[a] + 1
      BY <2>1, ReportsBelow
    <3>3. QED
      BY <1>1, <1>4, <3>1, <3>2
  <2>2. CASE s = m /\ Claims(s, a, v) /\ task'[s] = "decide"
    <3>1. v # lock_version[a] + 1
      BY <2>2, ReportsBelow
    <3>2. Claims(r, a, v)
      BY <1>1, <1>4, <3>1
    <3>3. r = s
      BY <2>2, <3>2 DEF ReportsInductive
    <3>4. QED
      BY <1>4, <2>2, <3>3 DEF Claims
  <2>3. QED
    BY <1>2, <1>4, <2>1, <2>2
<1>5. ASSUME NEW j \in Positions(r)', NEW k \in Positions(s)',
             Reports(Reported(r, j), a, v)', Reports(Reported(s, k), a, v)'
      PROVE  r = s /\ j = k
  <2>1. CASE /\ j \in Positions(r) /\ Reports(Reported(r, j), a, v)
             /\ k \in Positions(s) /\ Reports(Reported(s, k), a, v)
    BY <2>1 DEF ReportsInductive
  <2>2. CASE j \in Positions(r) /\ Reports(Reported(r, j), a, v) /\ Claims(s, a, v)
    BY <2>2 DEF ReportsInductive
  <2>3. CASE k \in Positions(s) /\ Reports(Reported(s, k), a, v) /\ Claims(r, a, v)
    BY <2>3 DEF ReportsInductive
  <2>4. CASE /\ r = m /\ j = Len(run[r].items) + 1
             /\ s = m /\ k = Len(run[s].items) + 1
    BY <2>4
  <2>5. QED
    BY <1>2, <1>5, <2>1, <2>2, <2>3, <2>4
<1>6. QED
  BY <1>3, <1>4, <1>5

\* The reports invariant is kept by every step.
LEMMA ReportsStep ==
    ASSUME RunsInductive, ReportsInductive, "service" \in Paths, [RunsNext]_allvars
    PROVE  ReportsInductive'
<1>1. CASE UNCHANGED allvars
  BY <1>1 DEF allvars, vars, rowvars, callervars, runvars, ReportsInductive, TrueItem, Credited,
     Claims, Reports, Reported, Positions, Written, Goto
<1>2. CASE RunsNext
  <2>1. PICK m \in Callers : Moves(m)
    BY <1>2, RunsAssumption DEF RunsNext, OtherStep, OwnStep, Moves
  <2>2. \A s \in Runs : /\ \A k \in Positions(s)' : TrueItem(Reported(s, k))'
                        /\ task'[s] = "store" => TrueItem(item[s])'
    BY <2>1, TrueStep
  <2>3. \A r, s \in Runs : \A a \in Actions : \A v \in Nat :
            /\ Claims(r, a, v)' /\ Claims(s, a, v)' => r = s
            /\ \A k \in Positions(s)' : Claims(r, a, v)' => ~Reports(Reported(s, k), a, v)'
            /\ \A j \in Positions(r)' : \A k \in Positions(s)' :
                Reports(Reported(r, j), a, v)' /\ Reports(Reported(s, k), a, v)'
                => r = s /\ j = k
    BY <2>1, OnceStep
  <2>4. QED
    BY <2>2, <2>3 DEF ReportsInductive
<1>3. QED
  BY <1>1, <1>2

\* Nothing is claimed or reported at first.
LEMMA ReportsInit == RunsInit => ReportsInductive
<1>1. SUFFICES ASSUME RunsInit PROVE ReportsInductive
  OBVIOUS
<1>2. \A r \in Runs : task[r] = "none" /\ run[r].items = << >>
  BY <1>1 DEF RunsInit
<1>3. \A s \in Runs : Positions(s) = {}
  BY <1>2 DEF Positions
<1>4. QED
  BY <1>2, <1>3 DEF ReportsInductive, Claims

-----------------------------------------------------------------------------
(* Theorems. *)

\* The types of the runs' rows and of their tasks.
THEOREM RunsTypeCorrect ==
    ASSUME "service" \in Paths
    PROVE  RunsSpec => [](RunsTypeOK /\ TypeOK)
<1>1. RunsInductive => RunsTypeOK /\ TypeOK
  BY DEF RunsInductive, Inductive
<1>2. QED
  BY <1>1, RunsInductiveInit, RunsInductiveStep, PTL DEF RunsSpec

\* For any number of runs, operators and actions, what the tasks of runs do to
\* the actions is a behaviour of the service alone.
THEOREM RunsRefineCallers ==
    ASSUME "service" \in Paths
    PROVE  RunsSpec => RunsAreCallers
<1>1. RunsInit => Init
  BY DEF RunsInit
<1>2. RunsInductive /\ [RunsNext]_allvars => [Next]_vars
  BY RunsNextIsNext
<1>3. QED
  BY <1>1, <1>2, RunsInductiveInit, RunsInductiveStep, PTL DEF RunsSpec, RunsAreCallers, Spec

\* So whatever runs and operators interleave, actions keep to their life cycle.
THEOREM RunsKeepLifecycle ==
    ASSUME "service" \in Paths, ~ClientsGuess, "batch_tx" \notin Paths
    PROVE  RunsSpec => ImplementsLifecycle
BY RunsRefineCallers, LifecycleImplemented, PTL DEF RunsAreCallers

\* And what anyone, run or operator, is answered is in the table.
THEOREM RunsAnswersTrue ==
    ASSUME "service" \in Paths, ~WithRollbackRepo
    PROVE  RunsSpec => []AnsweredIsStored
BY RunsRefineCallers, AnswersTrue, PTL DEF RunsAreCallers
\* What runs report of their items is true, and no move is reported twice, for
\* any number of runs and operators on the same actions.
THEOREM ItemsTrue ==
    ASSUME "service" \in Paths
    PROVE  RunsSpec => []ItemsTruthful
<1>1. ASSUME RunsInductive, ReportsInductive PROVE ItemsTruthful
  <2>1. ASSUME NEW x \in Items
        PROVE  \E s \in Runs : \E k \in Positions(s) :
                   x = <<s, k>> /\ ItemOf(x) = Reported(s, k)
    BY DEF Items, ItemOf, Positions, Reported
  <2>2. ASSUME NEW x \in Items PROVE TrueItem(ItemOf(x))
    BY <1>1, <2>1 DEF ReportsInductive
  <2>3. ASSUME NEW x \in Items, NEW y \in Items, Credited(ItemOf(x)), Credited(ItemOf(y)),
               ItemOf(x).action = ItemOf(y).action, ItemOf(x).version = ItemOf(y).version
        PROVE  x = y
    <3>1. PICK r \in Runs : \E j \in Positions(r) : x = <<r, j>> /\ ItemOf(x) = Reported(r, j)
      BY <2>1
    <3>2. PICK j \in Positions(r) : x = <<r, j>> /\ ItemOf(x) = Reported(r, j)
      BY <3>1
    <3>3. PICK s \in Runs : \E k \in Positions(s) : y = <<s, k>> /\ ItemOf(y) = Reported(s, k)
      BY <2>1
    <3>4. PICK k \in Positions(s) : y = <<s, k>> /\ ItemOf(y) = Reported(s, k)
      BY <3>3
    <3> DEFINE a == ItemOf(x).action
               v == ItemOf(x).version
    <3>5. a \in Actions /\ v \in Nat
      <4>1. run[r].items \in Seq(RunItem)
        BY <1>1 DEF RunsInductive, RunsTypeOK, RunRow
      <4>2. Reported(r, j) \in RunItem
        BY <4>1 DEF Positions, Reported
      <4>3. QED
        BY <2>2, <2>3, <3>2, <4>2 DEF TrueItem, RunItem
    <3>6. Reports(Reported(r, j), a, v) /\ Reports(Reported(s, k), a, v)
      BY <2>3, <3>2, <3>4 DEF Reports
    <3>7. r = s /\ j = k
      BY <1>1, <3>5, <3>6 DEF ReportsInductive
    <3>8. QED
      BY <3>2, <3>4, <3>7
  <2>4. QED
    BY <2>2, <2>3 DEF ItemsTruthful, TrueItem
<1>2. QED
  BY <1>1, RunsInductiveInit, RunsInductiveStep, ReportsInit, ReportsStep, PTL DEF RunsSpec
=============================================================================
