------------------------- MODULE ApplyPipelineProofs -------------------------
(***************************************************************************)
(* Proofs about ApplyPipeline, for any requests, nodes, plans, pools and   *)
(* bounds.  Inductive says of each request what its place in the code      *)
(* implies: which places have a transaction open, what an aborted one has  *)
(* reported, where the writes a report counts are, and what the runtime    *)
(* was told; and of each locked row whose transaction has it.              *)
(*                                                                         *)
(* The second half is about RebaseEngine, whose plan decides a request:    *)
(* what is proved of the engine holds of every pair of versions, and the   *)
(* last theorem joins the two modules at the decision both of them model.  *)
(* A diff is computed by recursion over sorted lists; AllNaturals carries  *)
(* the induction, on the number of clauses that are left to merge.         *)
(***************************************************************************)
EXTENDS ApplyPipeline, RebaseEngine, FiniteSetTheorems, SequenceTheorems, WellFoundedInduction,
        TLAPS

RequestRow == [pc : PCs, path : Paths, decision : Decisions, todo : Seq(Nodes),
               result : [Nodes -> {None, "applied", "failed"}], wrote : SUBSET Nodes,
               aborted : BOOLEAN, conns : 0..1, aligned : Nat, signalSent : BOOLEAN,
               replayed : BOOLEAN]

Typed ==
    /\ req \in [Requests -> RequestRow]
    /\ node \in [Nodes -> NodeStates] /\ row \in [Nodes -> Requests \union {None}]
    /\ runtime \in [Requests -> SUBSET {"signal", "replay"}]
    /\ checkpoints \in Seq(BOOLEAN) /\ Len(checkpoints) <= MaxCheckpoints
    /\ \A r \in Requests : req[r].aligned <= Len(checkpoints)
    /\ pool \in PoolSizes /\ faults \in 0..MaxFaults

\* Where a request of the RLS path has a transaction open, and where only such
\* a request can be.
InTransaction == {"align", "read", "write", "commit", "only_align", "only_replay", "end_replay",
                  "list", "cancel"}
RlsOnly == Begins \union {"commit", "end_replay", "list", "cancel"}

Connection(r) ==
    /\ req[r].conns = IF Rls(r) /\ req[r].pc \in InTransaction THEN 1 ELSE 0
    /\ req[r].pc \in RlsOnly => Rls(r)

\* Where the writes of a transaction are not committed yet.
Writing == {"read", "write", "commit"}

\* An aborted transaction has reported the failure; nothing else it reports is
\* taken back, and what a request reports as applied is Stale or will be.
Report(r) ==
    /\ At(r, "write") => req[r].todo # <<>> /\ ~req[r].aborted
    /\ At(r, "idle") \/ ~Rls(r) => req[r].wrote = {} /\ ~req[r].aborted
    /\ req[r].aborted => \E n \in Nodes : req[r].result[n] = "failed"
    /\ req[r].pc # "error" =>
        \A n \in Nodes : req[r].result[n] = "applied" =>
            node[n] = "Stale" \/ req[r].aborted \/ (req[r].pc \in Writing /\ n \in req[r].wrote)

Told(r) ==
    /\ At(r, "idle") => runtime[r] = {} /\ req[r].decision = "none"
    /\ At(r, "replay") => "signal" \in runtime[r]
    /\ req[r].pc \in {"begin_replay", "only_align", "only_replay", "end_replay"}
        => req[r].decision = "none"
    /\ req[r].signalSent => "signal" \in runtime[r]
    /\ req[r].replayed => "replay" \in runtime[r]
    /\ "replay" \in runtime[r] /\ req[r].decision = "proceed" => "signal" \in runtime[r]

RequestOK == \A r \in Requests : Connection(r) /\ Report(r) /\ Told(r)

\* A locked row belongs to a transaction that can still commit its write.
Locks ==
    \A n \in Nodes : row[n] # None =>
        /\ Rls(row[n]) /\ req[row[n]].pc \in Writing
        /\ ~req[row[n]].aborted /\ n \in req[row[n]].wrote

Inductive == Typed /\ RequestOK /\ Locks

\* One step of the request r.
RequestStep(r) == ReceiveApply(r) \/ ReceiveReplay(r) \/ Step(r)

-----------------------------------------------------------------------------
(* Types. *)

\* The newest of some checkpoints exists, and is one of them.
LEMMA NewestIsOne ==
    ASSUME NEW k \in Nat, NEW C \in SUBSET (1..k), C # {} PROVE Newest(C) \in C
<1> DEFINE T == {k - c : c \in C}
<1>1. T \subseteq Nat /\ T # {}
  <2>1. \A c \in C : c \in Nat /\ c <= k /\ k - c \in Nat
    OBVIOUS
  <2>2. QED
    BY <2>1
<1>2. PICK x \in T : \A y \in T : ~(<<y, x>> \in OpToRel(<, Nat))
  <2>1. IsWellFoundedOn(OpToRel(<, Nat), Nat)
    BY NatLessThanWellFounded
  <2>2. QED
    BY <1>1, <2>1, WFMin
<1>3. \A y \in T : ~(y < x)
  BY <1>1, <1>2 DEF OpToRel
<1>4. PICK c \in C : x = k - c
  OBVIOUS
<1>5. \A d \in C : d <= c
  <2> TAKE d \in C
  <2>1. k - d \in T
    OBVIOUS
  <2>2. ~(k - d < k - c)
    BY <1>3, <1>4, <2>1
  <2>3. QED
    BY <2>2
<1>6. QED
  BY <1>5 DEF Newest

\* Alignment takes a checkpoint there is, or 0.
LEMMA BestEffortType ==
    ASSUME checkpoints \in Seq(BOOLEAN) PROVE BestEffort \in 0..Len(checkpoints)
<1> DEFINE active == {c \in DOMAIN checkpoints : checkpoints[c]}
<1>1. DOMAIN checkpoints = 1..Len(checkpoints) /\ Len(checkpoints) \in Nat
  OBVIOUS
<1>2. ASSUME NEW C \in SUBSET DOMAIN checkpoints PROVE Newest(C) \in 0..Len(checkpoints)
  <2>1. CASE C = {}
    BY <1>1, <2>1 DEF Newest
  <2>2. CASE C # {}
    <3>1. C \in SUBSET (1..Len(checkpoints))
      BY <1>1
    <3>2. Newest(C) \in C
      BY <1>1, <2>2, <3>1, NewestIsOne, Zenon
    <3>3. QED
      BY <1>1, <3>1, <3>2
  <2>3. QED
    BY <2>1, <2>2
<1>3. QED
  BY <1>2 DEF BestEffort

\* What Reported makes of the requests, row by row.
LEMMA ReportedRow ==
    ASSUME req \in [Requests -> RequestRow], NEW r \in Requests, req[r].todo # <<>>,
           NEW result \in {"applied", "failed"}
    PROVE  /\ Reported(r, result) \in [Requests -> RequestRow]
           /\ Reported(r, result)[r] =
                [req[r] EXCEPT !.result = [req[r].result EXCEPT ![Head(req[r].todo)] = result],
                               !.todo = Tail(req[r].todo), !.pc = "read"]
           /\ Reported(r, result)[r].aligned = req[r].aligned
           /\ \A b \in Requests \ {r} : Reported(r, result)[b] = req[b]
<1> DEFINE n == Head(req[r].todo)
           x == [req[r] EXCEPT !.result = [req[r].result EXCEPT ![n] = result],
                               !.todo = Tail(req[r].todo), !.pc = "read"]
<1>1. req[r] \in RequestRow
  OBVIOUS
<1>2. req[r].todo \in Seq(Nodes)
  BY <1>1 DEF RequestRow
<1>3. n \in Nodes /\ Tail(req[r].todo) \in Seq(Nodes)
  BY <1>2, HeadTailProperties
<1>4. [req[r].result EXCEPT ![n] = result] \in [Nodes -> {None, "applied", "failed"}]
  BY <1>1, <1>3 DEF RequestRow
<1>5. x \in RequestRow
  BY <1>1, <1>3, <1>4 DEF RequestRow, PCs
<1>6. Reported(r, result) = [req EXCEPT ![r] = x]
  BY <1>1 DEF Reported, RequestRow
<1>7. x.aligned = req[r].aligned
  BY <1>1 DEF RequestRow
<1> HIDE DEF x
<1>8. /\ Reported(r, result) \in [Requests -> RequestRow] /\ Reported(r, result)[r] = x
      /\ \A b \in Requests \ {r} : Reported(r, result)[b] = req[b]
  BY <1>5, <1>6
<1>9. QED
  BY <1>7, <1>8 DEF x

\* A step of a request changes its own row only, and keeps it typed.
LEMMA RequestRows ==
    ASSUME Typed, RequestOK, NEW r \in Requests, RequestStep(r)
    PROVE  /\ req' \in [Requests -> RequestRow]
           /\ \A b \in Requests \ {r} : req'[b] = req[b]
           /\ req'[r].aligned <= Len(checkpoints)
<1> DEFINE Goal == /\ req' \in [Requests -> RequestRow]
                   /\ \A b \in Requests \ {r} : req'[b] = req[b]
                   /\ req'[r].aligned <= Len(checkpoints)
<1>1. req \in [Requests -> RequestRow] /\ req[r] \in RequestRow /\ req[r].aligned <= Len(checkpoints)
  BY DEF Typed
<1>0. 0 \in 0..1 /\ 1 \in 0..1
  OBVIOUS
<1>2. ASSUME \E x \in RequestRow : req' = [req EXCEPT ![r] = x] /\ x.aligned <= Len(checkpoints)
      PROVE  Goal
  BY <1>1, <1>2
<1>3. ASSUME NEW p \in PCs, req' = [req EXCEPT ![r].pc = p] PROVE Goal
  BY <1>1, <1>3 DEF RequestRow
<1>4. ASSUME NEW p \in PCs, NEW c \in 0..1, req' = [req EXCEPT ![r].pc = p, ![r].conns = c] PROVE Goal
  BY <1>1, <1>4 DEF RequestRow
<1>5. ASSUME req[r].todo # <<>>, NEW result \in {"applied", "failed"}, req' = Reported(r, result)
      PROVE  Goal
  <2>1. /\ Reported(r, result) \in [Requests -> RequestRow]
        /\ Reported(r, result)[r].aligned = req[r].aligned
        /\ \A b \in Requests \ {r} : Reported(r, result)[b] = req[b]
    BY <1>1, <1>5, ReportedRow
  <2>2. QED
    BY <1>1, <1>5, <2>1
<1>6. At(r, "write") => req[r].todo # <<>>
  BY DEF RequestOK, Report
<1>7. CASE ReceiveApply(r)
  <2>1. PICK path \in Paths, tier \in RiskTiers, class \in DecisionClasses, items \in ItemLists :
            req' = [req EXCEPT ![r].path = path, ![r].decision = Evaluate(tier, class),
                               ![r].todo = IF Evaluate(tier, class) = "proceed" THEN items ELSE <<>>,
                               ![r].pc = IF Evaluate(tier, class) # "proceed" THEN "audit"
                                         ELSE IF path = "rls" THEN "begin_read" ELSE "align"]
    BY <1>7 DEF ReceiveApply
  <2> DEFINE d == Evaluate(tier, class)
             todo == IF Evaluate(tier, class) = "proceed" THEN items ELSE <<>>
             p == IF Evaluate(tier, class) # "proceed" THEN "audit"
                  ELSE IF path = "rls" THEN "begin_read" ELSE "align"
             x == [req[r] EXCEPT !.path = path, !.decision = d, !.todo = todo, !.pc = p]
  <2>2. Evaluate(tier, class) \in Decisions /\ todo \in Seq(Nodes) /\ p \in PCs
    BY PipelineAssumption DEF Evaluate, Decisions, PCs
  <2>3. x \in RequestRow /\ x.aligned = req[r].aligned
    BY <1>1, <2>1, <2>2 DEF RequestRow
  <2>4. req' = [req EXCEPT ![r].path = path, ![r].decision = d, ![r].todo = todo, ![r].pc = p]
    BY <2>1
  <2> HIDE DEF d, todo, p
  <2>5. req' = [req EXCEPT ![r] = x]
    BY <1>1, <2>4 DEF RequestRow
  <2>6. QED
    BY <1>1, <1>2, <2>3, <2>5
<1>8. CASE ReceiveReplay(r)
  <2>1. PICK path \in Paths, p \in PCs : req' = [req EXCEPT ![r].path = path, ![r].pc = p]
    BY <1>8 DEF ReceiveReplay, PCs
  <2>2. QED
    BY <1>1, <2>1 DEF RequestRow
<1>9. CASE Begin(r)
  <2>1. PICK p \in PCs : req' = [req EXCEPT ![r].conns = 1, ![r].pc = p]
    BY <1>1, <1>9 DEF Begin, PCs, Begins, RequestRow
  <2> DEFINE x == [req[r] EXCEPT !.conns = 1, !.pc = p]
  <2>2. x \in RequestRow /\ x.aligned = req[r].aligned
    BY <1>0, <1>1, <2>1 DEF RequestRow
  <2>3. req' = [req EXCEPT ![r] = x]
    BY <1>1, <2>1 DEF RequestRow
  <2>4. QED
    BY <1>1, <1>2, <2>2, <2>3
<1>10. CASE BeginTimesOut(r)
  BY <1>3, <1>10 DEF BeginTimesOut, Goto, PCs
<1>11. CASE Align(r)
  <2>1. PICK p \in PCs : req' = [req EXCEPT ![r].aligned = BestEffort, ![r].conns = 0, ![r].pc = p]
    BY <1>11 DEF Align, PCs
  <2>2. BestEffort \in Nat /\ BestEffort <= Len(checkpoints)
    BY BestEffortType DEF Typed
  <2> DEFINE x == [req[r] EXCEPT !.aligned = BestEffort, !.conns = 0, !.pc = p]
  <2>3. x \in RequestRow /\ x.aligned = BestEffort
    BY <1>0, <1>1, <2>1, <2>2 DEF RequestRow
  <2>4. req' = [req EXCEPT ![r] = x]
    BY <1>1, <2>1 DEF RequestRow
  <2>5. QED
    BY <1>2, <2>2, <2>3, <2>4
<1>12. CASE AlignFails(r) \/ CommitFails(r) \/ AlignReplayFails(r)
  BY <1>4, <1>12 DEF AlignFails, CommitFails, AlignReplayFails, Fail, PCs
<1>13. CASE ReadNode(r) \/ NodeNotFound(r)
  <2>1. \/ req' = [req EXCEPT ![r].pc = "write"] \/ req' = Reported(r, "failed")
        \/ req' = Reported(r, "applied")
    BY <1>13 DEF ReadNode, NodeNotFound
  <2>2. req[r].todo # <<>>
    BY <1>13 DEF ReadNode, NodeNotFound
  <2>3. QED
    BY <1>3, <1>5, <2>1, <2>2 DEF PCs
<1>14. CASE NodesDone(r)
  BY <1>3, <1>14 DEF NodesDone, Goto, PCs
<1>15. CASE WriteNode(r)
  <2> DEFINE n == Head(req[r].todo)
  <2>1. req[r].todo # <<>> /\ n \in Nodes
    BY <1>1, <1>6, <1>15, HeadTailProperties DEF WriteNode, RequestRow
  <2>2. \/ req' = Reported(r, "applied")
        \/ req' = [Reported(r, "applied") EXCEPT ![r].wrote = @ \union {n}]
    BY <1>15 DEF WriteNode
  <2> DEFINE R == Reported(r, "applied")
  <2>3. /\ R \in [Requests -> RequestRow] /\ R[r].aligned = req[r].aligned
        /\ \A b \in Requests \ {r} : R[b] = req[b]
    BY <1>1, <2>1, ReportedRow
  <2> HIDE DEF R, n
  <2>4. CASE req' = [R EXCEPT ![r].wrote = @ \union {n}]
    BY <1>1, <2>1, <2>3, <2>4 DEF RequestRow
  <2>5. QED
    BY <1>1, <2>2, <2>3, <2>4 DEF R, n
<1>16. CASE WriteFails(r)
  <2>1. req[r].todo # <<>>
    BY <1>6, <1>16 DEF WriteFails
  <2>2. req' = [Reported(r, "failed") EXCEPT ![r].aborted = Rls(r), ![r].wrote = {}] /\ Rls(r) \in BOOLEAN
    BY <1>16 DEF WriteFails, Aborted, Rls
  <2> DEFINE R == Reported(r, "failed")
  <2>3. /\ R \in [Requests -> RequestRow] /\ R[r].aligned = req[r].aligned
        /\ \A b \in Requests \ {r} : R[b] = req[b]
    BY <1>1, <2>1, ReportedRow
  <2> DEFINE rls == Rls(r)
             x == [R[r] EXCEPT !.aborted = rls, !.wrote = {}]
  <2>4. rls \in BOOLEAN /\ req' = [R EXCEPT ![r].aborted = rls, ![r].wrote = {}]
    BY <2>2
  <2> HIDE DEF R, rls
  <2>5. x \in RequestRow /\ x.aligned = req[r].aligned
    BY <2>3, <2>4 DEF RequestRow
  <2>6. req' = [R EXCEPT ![r] = x]
    BY <2>3, <2>4 DEF RequestRow
  <2> HIDE DEF x
  <2>7. req' \in [Requests -> RequestRow] /\ req'[r].aligned = req[r].aligned
    BY <2>3, <2>5, <2>6
  <2>8. \A c \in Requests \ {r} : req'[c] = req[c]
    BY <2>3, <2>6
  <2>9. req'[r].aligned <= Len(checkpoints)
    BY <1>1, <2>7
  <2>10. QED
    BY <2>7, <2>8, <2>9
<1>17. CASE Commit(r)
  <2>1. req' = [req EXCEPT ![r].pc = "signal", ![r].conns = 0] /\ "signal" \in PCs
    BY <1>17 DEF Commit, PCs
  <2>2. QED
    BY <1>0, <1>4, <2>1
<1>18. CASE NotReady(r) \/ SignalFails(r)
  BY <1>3, <1>18 DEF NotReady, SignalFails, Goto, PCs
<1>19. CASE Signal(r)
  <2>1. PICK p \in PCs : req' = [req EXCEPT ![r].signalSent = TRUE, ![r].pc = p]
    BY <1>19 DEF Signal, PCs
  <2>2. QED
    BY <1>1, <2>1 DEF RequestRow
<1>20. AfterReplay(r) \in PCs
  BY DEF AfterReplay, PCs
<1>21. CASE Replay(r)
  BY <1>1, <1>20, <1>21 DEF Replay, RequestRow
<1>22. CASE ReplayFails(r)
  BY <1>3, <1>20, <1>22 DEF ReplayFails, Goto
<1>23. CASE AlignReplay(r)
  <2>1. PICK c \in DOMAIN checkpoints \union {BestEffort} :
            req' = [req EXCEPT ![r].aligned = c,
                               ![r].pc = IF c # 0 THEN "only_replay"
                                         ELSE IF Rls(r) THEN "end_replay" ELSE "answered"]
    BY <1>23 DEF AlignReplay
  <2> DEFINE p == IF c # 0 THEN "only_replay" ELSE IF Rls(r) THEN "end_replay" ELSE "answered"
             x == [req[r] EXCEPT !.aligned = c, !.pc = p]
  <2>0. p \in PCs
    BY DEF PCs
  <2>2. c \in Nat /\ c <= Len(checkpoints)
    BY BestEffortType DEF Typed
  <2>3. req' = [req EXCEPT ![r].aligned = c, ![r].pc = p]
    BY <2>1
  <2> HIDE DEF p
  <2>4. x \in RequestRow /\ x.aligned = c
    BY <1>1, <2>0, <2>2 DEF RequestRow
  <2>5. req' = [req EXCEPT ![r] = x]
    BY <1>1, <2>3 DEF RequestRow
  <2>6. QED
    BY <1>2, <2>2, <2>4, <2>5
<1>24. CASE EndReplay(r)
  <2>1. PICK p \in PCs : req' = [req EXCEPT ![r].pc = p, ![r].conns = 0]
    BY <1>24 DEF EndReplay, PCs
  <2>2. QED
    BY <1>0, <1>4, <2>1
<1>25. CASE Audit(r)
  BY <1>3, <1>25 DEF Audit, Goto, PCs
<1>26. CASE ListApprovals(r) \/ CancelApprovals(r)
  <2>1. CASE ListApprovals(r)
    BY <1>3, <2>1 DEF ListApprovals, Goto, PCs
  <2>2. CASE CancelApprovals(r)
    <3>1. req' = [req EXCEPT ![r].pc = "answered", ![r].conns = 0] /\ "answered" \in PCs
      BY <2>2 DEF CancelApprovals, PCs
    <3>2. QED
      BY <1>0, <1>4, <3>1
  <2>3. QED
    BY <1>26, <2>1, <2>2
<1>27. QED
  BY <1>7, <1>8, <1>9, <1>10, <1>11, <1>12, <1>13, <1>14, <1>15, <1>16, <1>17, <1>18, <1>19,
     <1>21, <1>22, <1>23, <1>24, <1>25, <1>26 DEF RequestStep, Step

\* Nothing un-stales a node, what the runtime got stays got, and a request
\* tells the runtime nothing in another's name.
LEMMA Surroundings ==
    ASSUME Typed, RequestOK, NEW r \in Requests, RequestStep(r)
    PROVE  /\ node' \in [Nodes -> NodeStates]
           /\ \A n \in Nodes : node[n] = "Stale" => node'[n] = "Stale"
           /\ row' \in [Nodes -> Requests \union {None}]
           /\ runtime' \in [Requests -> SUBSET {"signal", "replay"}]
           /\ runtime[r] \subseteq runtime'[r]
           /\ \A b \in Requests \ {r} : runtime'[b] = runtime[b]
           /\ checkpoints' = checkpoints /\ faults' \in 0..MaxFaults
<1> DEFINE Unlock == [n \in Nodes |-> IF row[n] = r THEN None ELSE row[n]]
<1>1. /\ node \in [Nodes -> NodeStates] /\ row \in [Nodes -> Requests \union {None}]
      /\ runtime \in [Requests -> SUBSET {"signal", "replay"}]
  BY DEF Typed
<1>2. faults \in 0..MaxFaults /\ MaxFaults \in Nat
  BY PipelineAssumption DEF Typed
<1>3. Fault => faults' \in 0..MaxFaults
  BY <1>2 DEF Fault
<1>4. Unlock \in [Nodes -> Requests \union {None}]
  BY <1>1
<1>5. Committed(r) \in [Nodes -> NodeStates]
      /\ \A n \in Nodes : node[n] = "Stale" => Committed(r)[n] = "Stale"
  BY <1>1 DEF Committed, NodeStates
<1>6. CASE WriteNode(r)
  <2> DEFINE n == Head(req[r].todo)
  <2>1. n \in Nodes
    <3>1. req[r].todo \in Seq(Nodes) /\ req[r].todo # <<>>
      BY <1>6 DEF WriteNode, Typed, RequestOK, Report, RequestRow
    <3>2. QED
      BY <3>1, HeadTailProperties
  <2>2. /\ row' = row \/ row' = [row EXCEPT ![n] = r]
        /\ node' = node \/ node' = [node EXCEPT ![n] = "Stale"]
        /\ UNCHANGED <<checkpoints, runtime, faults>>
    BY <1>6 DEF WriteNode
  <2> HIDE DEF n
  <2>3. QED
    BY <1>1, <1>2, <2>1, <2>2 DEF NodeStates
<1>7. CASE Commit(r) \/ CommitFails(r)
  BY <1>1, <1>2, <1>3, <1>4, <1>5, <1>7 DEF Commit, CommitFails, Fail, Unlocked
<1>8. CASE WriteFails(r) \/ AlignFails(r) \/ AlignReplayFails(r)
  BY <1>1, <1>2, <1>3, <1>4, <1>8 DEF WriteFails, AlignFails, AlignReplayFails, Aborted, Fail
<1>9. CASE Signal(r) \/ SignalFails(r) \/ Replay(r) \/ ReplayFails(r)
  BY <1>1, <1>2, <1>3, <1>9 DEF Signal, SignalFails, Replay, ReplayFails
<1>10. CASE \/ ReceiveApply(r) \/ ReceiveReplay(r) \/ Begin(r) \/ BeginTimesOut(r) \/ Align(r)
            \/ ReadNode(r) \/ NodeNotFound(r) \/ NodesDone(r) \/ NotReady(r) \/ AlignReplay(r)
            \/ EndReplay(r) \/ Audit(r) \/ ListApprovals(r) \/ CancelApprovals(r)
  BY <1>1, <1>2, <1>3, <1>10 DEF ReceiveApply, ReceiveReplay, Begin, BeginTimesOut, Align,
     ReadNode, NodeNotFound, NodesDone, NotReady, AlignReplay, EndReplay, Audit, ListApprovals,
     CancelApprovals
<1>11. QED
  BY <1>6, <1>7, <1>8, <1>9, <1>10 DEF RequestStep, Step

\* Every step keeps the types; a new checkpoint only adds places to align to.
LEMMA TypedStep ==
    ASSUME Typed, RequestOK, [Next]_vars PROVE Typed'
<1>1. ASSUME NEW r \in Requests, RequestStep(r), pool' = pool PROVE Typed'
  BY <1>1, RequestRows, Surroundings DEF Typed
<1>2. ASSUME CheckpointStep, pool' = pool PROVE Typed'
  <2>1. /\ UNCHANGED <<node, row, req, runtime, faults>>
        /\ checkpoints' \in Seq(BOOLEAN) /\ Len(checkpoints') <= MaxCheckpoints
        /\ Len(checkpoints') >= Len(checkpoints)
    <3>1. checkpoints \in Seq(BOOLEAN) /\ Len(checkpoints) \in Nat
          /\ Len(checkpoints) <= MaxCheckpoints /\ MaxCheckpoints \in Nat
          /\ DOMAIN checkpoints = 1..Len(checkpoints)
      BY PipelineAssumption DEF Typed
    <3>2. CASE CreateCheckpoint
      BY <3>1, <3>2, AppendProperties DEF CreateCheckpoint
    <3>3. ASSUME NEW c \in DOMAIN checkpoints, SetStatus(c)
          PROVE  /\ checkpoints' \in Seq(BOOLEAN) /\ Len(checkpoints') = Len(checkpoints)
                 /\ UNCHANGED <<node, row, req, runtime, faults>>
      <4>1. PICK active \in BOOLEAN : checkpoints' = [checkpoints EXCEPT ![c] = active]
        BY <3>3 DEF SetStatus
      <4>2. QED
        BY <3>1, <3>3, <4>1, ExceptSeq DEF SetStatus
    <3>4. CASE ExpireCheckpoints
      <4>1. PICK C \in SUBSET DOMAIN checkpoints :
                checkpoints' = [c \in 1..Len(checkpoints) |-> checkpoints[c] /\ c \notin C]
        BY <3>1, <3>4 DEF ExpireCheckpoints
      <4>2. \A c \in 1..Len(checkpoints) : (checkpoints[c] /\ c \notin C) \in BOOLEAN
        OBVIOUS
      <4>3. checkpoints' \in Seq(BOOLEAN) /\ Len(checkpoints') = Len(checkpoints)
        BY <3>1, <4>1, <4>2, IsASeq
      <4>4. QED
        BY <3>1, <3>4, <4>3 DEF ExpireCheckpoints
    <3>5. QED
      BY <1>2, <3>1, <3>2, <3>3, <3>4 DEF CheckpointStep
  <2>2. \A r \in Requests : req'[r].aligned <= Len(checkpoints')
    BY <2>1 DEF Typed, RequestRow
  <2>3. QED
    BY <1>2, <2>1, <2>2 DEF Typed
<1>3. CASE UNCHANGED vars
  BY <1>3 DEF vars, Typed
<1>4. QED
  BY <1>1, <1>2, <1>3 DEF Next, RequestStep

-----------------------------------------------------------------------------
(* What a step makes of its request's row. *)

SameWork(r) ==
    /\ req'[r].path = req[r].path /\ req'[r].result = req[r].result /\ req'[r].todo = req[r].todo
    /\ req'[r].wrote = req[r].wrote /\ req'[r].aborted = req[r].aborted

SameTold(r) ==
    /\ req'[r].decision = req[r].decision /\ req'[r].signalSent = req[r].signalSent
    /\ req'[r].replayed = req[r].replayed

\* The next node is reported, and the rest is left.
Reports(r, result) ==
    /\ req[r].todo # <<>> /\ Head(req[r].todo) \in Nodes
    /\ req'[r].pc = "read" /\ req'[r].path = req[r].path /\ req'[r].conns = req[r].conns
    /\ req'[r].result = [req[r].result EXCEPT ![Head(req[r].todo)] = result]
    /\ SameTold(r)

\* A request is received on one of its paths, with nothing done yet.
LEMMA Received ==
    ASSUME Typed, NEW r \in Requests
    PROVE  /\ ReceiveApply(r) =>
                /\ At(r, "idle") /\ req'[r].pc \in {"audit", "begin_read", "align"}
                /\ req'[r].pc = "begin_read" => req'[r].path = "rls"
                /\ req'[r].pc = "align" => req'[r].path # "rls"
                /\ req'[r].result = req[r].result /\ req'[r].conns = req[r].conns
                /\ req'[r].wrote = req[r].wrote /\ req'[r].aborted = req[r].aborted
                /\ req'[r].signalSent = req[r].signalSent /\ req'[r].replayed = req[r].replayed
                /\ UNCHANGED <<node, row, runtime>>
           /\ ReceiveReplay(r) =>
                /\ At(r, "idle") /\ req'[r].pc \in {"begin_replay", "only_align"}
                /\ (req'[r].path = "rls") = (req'[r].pc = "begin_replay")
                /\ req'[r].result = req[r].result /\ req'[r].conns = req[r].conns
                /\ req'[r].wrote = req[r].wrote /\ req'[r].aborted = req[r].aborted
                /\ SameTold(r) /\ UNCHANGED <<node, row, runtime>>
<1>1. req \in [Requests -> RequestRow]
  BY DEF Typed
<1>2. ASSUME ReceiveApply(r)
      PROVE  /\ At(r, "idle") /\ req'[r].pc \in {"audit", "begin_read", "align"}
             /\ req'[r].pc = "begin_read" => req'[r].path = "rls"
             /\ req'[r].pc = "align" => req'[r].path # "rls"
             /\ req'[r].result = req[r].result /\ req'[r].conns = req[r].conns
             /\ req'[r].wrote = req[r].wrote /\ req'[r].aborted = req[r].aborted
             /\ req'[r].signalSent = req[r].signalSent /\ req'[r].replayed = req[r].replayed
             /\ UNCHANGED <<node, row, runtime>>
  <2>1. PICK path \in Paths, tier \in RiskTiers, class \in DecisionClasses, items \in ItemLists :
            req' = [req EXCEPT ![r].path = path, ![r].decision = Evaluate(tier, class),
                               ![r].todo = IF Evaluate(tier, class) = "proceed" THEN items ELSE <<>>,
                               ![r].pc = IF Evaluate(tier, class) # "proceed" THEN "audit"
                                         ELSE IF path = "rls" THEN "begin_read" ELSE "align"]
    BY <1>2 DEF ReceiveApply
  <2> DEFINE d == Evaluate(tier, class)
             todo == IF Evaluate(tier, class) = "proceed" THEN items ELSE <<>>
             p == IF Evaluate(tier, class) # "proceed" THEN "audit"
                  ELSE IF path = "rls" THEN "begin_read" ELSE "align"
  <2>2. /\ p \in {"audit", "begin_read", "align"} /\ (p = "begin_read" => path = "rls")
        /\ (p = "align" => path # "rls")
    OBVIOUS
  <2>3. req' = [req EXCEPT ![r].path = path, ![r].decision = d, ![r].todo = todo, ![r].pc = p]
    BY <2>1
  <2> HIDE DEF d, todo, p
  <2>4. At(r, "idle") /\ UNCHANGED <<node, row, runtime>>
    BY <1>2 DEF ReceiveApply
  <2>5. QED
    BY <1>1, <2>2, <2>3, <2>4 DEF RequestRow
<1>3. ASSUME ReceiveReplay(r)
      PROVE  /\ At(r, "idle") /\ req'[r].pc \in {"begin_replay", "only_align"}
             /\ (req'[r].path = "rls") = (req'[r].pc = "begin_replay")
             /\ req'[r].result = req[r].result /\ req'[r].conns = req[r].conns
             /\ req'[r].wrote = req[r].wrote /\ req'[r].aborted = req[r].aborted
             /\ SameTold(r) /\ UNCHANGED <<node, row, runtime>>
  BY <1>1, <1>3 DEF ReceiveReplay, RequestRow, SameTold, Paths
<1>4. QED
  BY <1>2, <1>3

\* The steps that touch neither nodes nor the report.
LEMMA Passed ==
    ASSUME Typed, NEW r \in Requests
    PROVE  /\ Begin(r) => /\ req[r].pc \in Begins /\ req'[r].conns = 1 /\ SameWork(r) /\ SameTold(r)
                          /\ req'[r].pc = CASE req[r].pc = "begin_read" -> "align"
                                             [] req[r].pc = "begin_write" -> "read"
                                             [] req[r].pc = "begin_block" -> "list"
                                             [] req[r].pc = "begin_replay" -> "only_align"
                          /\ UNCHANGED <<node, row, runtime>>
           /\ BeginTimesOut(r) =>
                /\ req[r].pc \in Begins /\ req'[r].conns = req[r].conns /\ SameWork(r) /\ SameTold(r)
                /\ req'[r].pc \in {"answered", "error"} /\ UNCHANGED <<node, row, runtime>>
           /\ Align(r) =>
                /\ At(r, "align") /\ req'[r].conns = 0 /\ SameWork(r) /\ SameTold(r)
                /\ req'[r].pc = IF Rls(r) THEN "begin_write" ELSE "read"
                /\ UNCHANGED <<node, row, runtime>>
           /\ AlignFails(r) \/ AlignReplayFails(r) =>
                /\ req'[r].pc = "error" /\ req'[r].conns = 0 /\ SameWork(r) /\ SameTold(r)
                /\ row' = Unlocked(r) /\ UNCHANGED <<node, runtime>>
                /\ req[r].pc \in {"align", "only_align"}
           /\ NodesDone(r) =>
                /\ At(r, "read") /\ req'[r].conns = req[r].conns /\ SameWork(r) /\ SameTold(r)
                /\ req'[r].pc = IF Rls(r) THEN "commit" ELSE "signal"
                /\ UNCHANGED <<node, row, runtime>>
           /\ AlignReplay(r) =>
                /\ At(r, "only_align") /\ req'[r].conns = req[r].conns /\ SameWork(r) /\ SameTold(r)
                /\ req'[r].pc \in {"only_replay", "end_replay", "answered"}
                /\ req'[r].pc = "end_replay" => Rls(r)
                /\ req'[r].pc = "answered" => ~Rls(r)
                /\ UNCHANGED <<node, row, runtime>>
           /\ EndReplay(r) =>
                /\ At(r, "end_replay") /\ req'[r].conns = 0 /\ SameWork(r) /\ SameTold(r)
                /\ req'[r].pc \in {"answered", "error"} /\ UNCHANGED <<node, row, runtime>>
           /\ Audit(r) =>
                /\ At(r, "audit") /\ req'[r].conns = req[r].conns /\ SameWork(r) /\ SameTold(r)
                /\ req'[r].pc \in {"begin_block", "answered"} /\ (req'[r].pc = "begin_block" => Rls(r))
                /\ UNCHANGED <<node, row, runtime>>
           /\ ListApprovals(r) =>
                /\ At(r, "list") /\ req'[r].pc = "cancel" /\ req'[r].conns = req[r].conns
                /\ SameWork(r) /\ SameTold(r) /\ UNCHANGED <<node, row, runtime>>
           /\ CancelApprovals(r) =>
                /\ At(r, "cancel") /\ req'[r].pc = "answered" /\ req'[r].conns = 0
                /\ SameWork(r) /\ SameTold(r) /\ UNCHANGED <<node, row, runtime>>
           /\ NotReady(r) =>
                /\ At(r, "signal") /\ req'[r].pc = "audit" /\ req'[r].conns = req[r].conns
                /\ SameWork(r) /\ SameTold(r) /\ UNCHANGED <<node, row, runtime>>
<1>1. req \in [Requests -> RequestRow] /\ req[r] \in RequestRow
  BY DEF Typed
<1> USE <1>1 DEF RequestRow, SameWork, SameTold
<1>2. ASSUME Begin(r)
      PROVE  /\ req[r].pc \in Begins /\ req'[r].conns = 1 /\ SameWork(r) /\ SameTold(r)
             /\ req'[r].pc = CASE req[r].pc = "begin_read" -> "align"
                                [] req[r].pc = "begin_write" -> "read"
                                [] req[r].pc = "begin_block" -> "list"
                                [] req[r].pc = "begin_replay" -> "only_align"
             /\ UNCHANGED <<node, row, runtime>>
  <2> DEFINE p == CASE req[r].pc = "begin_read" -> "align"
                    [] req[r].pc = "begin_write" -> "read"
                    [] req[r].pc = "begin_block" -> "list"
                    [] req[r].pc = "begin_replay" -> "only_align"
  <2>1. req' = [req EXCEPT ![r].conns = 1, ![r].pc = p]
    BY <1>2 DEF Begin
  <2>2. req[r].pc \in Begins /\ UNCHANGED <<node, row, runtime>>
    BY <1>2 DEF Begin
  <2> HIDE DEF p
  <2>3. req'[r].conns = 1 /\ req'[r].pc = p /\ SameWork(r) /\ SameTold(r)
    BY <2>1
  <2>4. QED
    BY <2>2, <2>3 DEF p
<1>3. BeginTimesOut(r) =>
        /\ req[r].pc \in Begins /\ req'[r].conns = req[r].conns /\ SameWork(r) /\ SameTold(r)
        /\ req'[r].pc \in {"answered", "error"} /\ UNCHANGED <<node, row, runtime>>
  BY DEF BeginTimesOut, Goto
<1>4. ASSUME Align(r)
      PROVE  /\ At(r, "align") /\ req'[r].conns = 0 /\ SameWork(r) /\ SameTold(r)
             /\ req'[r].pc = IF Rls(r) THEN "begin_write" ELSE "read"
             /\ UNCHANGED <<node, row, runtime>>
  BY <1>4 DEF Align, Rls
<1>5. AlignFails(r) \/ AlignReplayFails(r) =>
        /\ req'[r].pc = "error" /\ req'[r].conns = 0 /\ SameWork(r) /\ SameTold(r)
        /\ row' = Unlocked(r) /\ UNCHANGED <<node, runtime>>
        /\ req[r].pc \in {"align", "only_align"}
  BY DEF AlignFails, AlignReplayFails, Fail, Unlocked, At
<1>6. NodesDone(r) =>
        /\ At(r, "read") /\ req'[r].conns = req[r].conns /\ SameWork(r) /\ SameTold(r)
        /\ req'[r].pc = IF Rls(r) THEN "commit" ELSE "signal"
        /\ UNCHANGED <<node, row, runtime>>
  BY DEF NodesDone, Goto, Rls
<1>7. ASSUME AlignReplay(r)
      PROVE  /\ At(r, "only_align") /\ req'[r].conns = req[r].conns /\ SameWork(r) /\ SameTold(r)
             /\ req'[r].pc \in {"only_replay", "end_replay", "answered"}
             /\ req'[r].pc = "end_replay" => Rls(r)
             /\ req'[r].pc = "answered" => ~Rls(r)
             /\ UNCHANGED <<node, row, runtime>>
  <2>1. PICK c : req' = [req EXCEPT ![r].aligned = c,
                                    ![r].pc = IF c # 0 THEN "only_replay"
                                              ELSE IF Rls(r) THEN "end_replay" ELSE "answered"]
    BY <1>7 DEF AlignReplay
  <2> DEFINE p == IF c # 0 THEN "only_replay" ELSE IF Rls(r) THEN "end_replay" ELSE "answered"
  <2>2. /\ p \in {"only_replay", "end_replay", "answered"} /\ (p = "end_replay" => Rls(r))
        /\ (p = "answered" => ~Rls(r))
    OBVIOUS
  <2>3. req' = [req EXCEPT ![r].aligned = c, ![r].pc = p]
    BY <2>1
  <2>4. At(r, "only_align") /\ UNCHANGED <<node, row, runtime>>
    BY <1>7 DEF AlignReplay
  <2> HIDE DEF p
  <2>5. QED
    BY <2>2, <2>3, <2>4
<1>8. EndReplay(r) =>
        /\ At(r, "end_replay") /\ req'[r].conns = 0 /\ SameWork(r) /\ SameTold(r)
        /\ req'[r].pc \in {"answered", "error"} /\ UNCHANGED <<node, row, runtime>>
  BY DEF EndReplay
<1>9. Audit(r) =>
        /\ At(r, "audit") /\ req'[r].conns = req[r].conns /\ SameWork(r) /\ SameTold(r)
        /\ req'[r].pc \in {"begin_block", "answered"} /\ (req'[r].pc = "begin_block" => Rls(r))
        /\ UNCHANGED <<node, row, runtime>>
  BY DEF Audit, Goto, Rls
<1>10. /\ ListApprovals(r) =>
            /\ At(r, "list") /\ req'[r].pc = "cancel" /\ req'[r].conns = req[r].conns
            /\ SameWork(r) /\ SameTold(r) /\ UNCHANGED <<node, row, runtime>>
       /\ CancelApprovals(r) =>
            /\ At(r, "cancel") /\ req'[r].pc = "answered" /\ req'[r].conns = 0
            /\ SameWork(r) /\ SameTold(r) /\ UNCHANGED <<node, row, runtime>>
       /\ NotReady(r) =>
            /\ At(r, "signal") /\ req'[r].pc = "audit" /\ req'[r].conns = req[r].conns
            /\ SameWork(r) /\ SameTold(r) /\ UNCHANGED <<node, row, runtime>>
  BY DEF ListApprovals, CancelApprovals, NotReady, Goto
<1> HIDE DEF SameWork, SameTold
<1>11. QED
  BY <1>2, <1>3, <1>4, <1>5, <1>6, <1>7, <1>8, <1>9, <1>10

\* The steps that read and write nodes, and end the transaction that did.
LEMMA Worked ==
    ASSUME Typed, RequestOK, NEW r \in Requests
    PROVE  /\ ReadNode(r) \/ NodeNotFound(r) =>
                /\ At(r, "read") /\ UNCHANGED <<node, row, runtime>>
                /\ req'[r].wrote = req[r].wrote /\ req'[r].aborted = req[r].aborted
                /\ \/ Reports(r, "failed")
                   \/ /\ Reports(r, "applied") /\ ~req[r].aborted
                      /\ Head(req[r].todo) \in req[r].wrote \/ node[Head(req[r].todo)] = "Stale"
                   \/ /\ req'[r].pc = "write" /\ req[r].todo # <<>> /\ ~req[r].aborted
                      /\ req'[r].conns = req[r].conns /\ SameWork(r) /\ SameTold(r)
           /\ WriteNode(r) =>
                /\ At(r, "write") /\ Reports(r, "applied") /\ UNCHANGED runtime
                /\ req'[r].aborted = req[r].aborted
                /\ row[Head(req[r].todo)] \in {None, r}
                /\ \/ /\ Rls(r) /\ row' = [row EXCEPT ![Head(req[r].todo)] = r] /\ UNCHANGED node
                      /\ req'[r].wrote = req[r].wrote \union {Head(req[r].todo)}
                   \/ /\ ~Rls(r) /\ node' = [node EXCEPT ![Head(req[r].todo)] = "Stale"]
                      /\ req'[r].wrote = req[r].wrote /\ UNCHANGED row
           /\ WriteFails(r) =>
                /\ At(r, "write") /\ Reports(r, "failed") /\ UNCHANGED <<node, runtime>>
                /\ req'[r].aborted = Rls(r) /\ req'[r].wrote = {} /\ row' = Unlocked(r)
           /\ Commit(r) =>
                /\ At(r, "commit") /\ req'[r].pc = "signal" /\ req'[r].conns = 0
                /\ SameWork(r) /\ SameTold(r)
                /\ node' = Committed(r) /\ row' = Unlocked(r) /\ UNCHANGED runtime
           /\ CommitFails(r) =>
                /\ At(r, "commit") /\ req'[r].pc = "error" /\ req'[r].conns = 0
                /\ SameWork(r) /\ SameTold(r) /\ row' = Unlocked(r) /\ UNCHANGED runtime
<1>1. req \in [Requests -> RequestRow] /\ req[r] \in RequestRow
  BY DEF Typed
<1> DEFINE n == Head(req[r].todo)
<1>2. req[r].todo # <<>> => n \in Nodes
  <2>1. req[r].todo \in Seq(Nodes)
    BY <1>1 DEF RequestRow
  <2>2. QED
    BY <2>1, HeadTailProperties
<1>3. ASSUME NEW result \in {"applied", "failed"}, req[r].todo # <<>>, req' = Reported(r, result)
      PROVE  Reports(r, result) /\ req'[r].wrote = req[r].wrote /\ req'[r].aborted = req[r].aborted
  <2> DEFINE R == Reported(r, result)
  <2>1. /\ R \in [Requests -> RequestRow]
        /\ R[r] = [req[r] EXCEPT !.result = [req[r].result EXCEPT ![n] = result],
                                 !.todo = Tail(req[r].todo), !.pc = "read"]
    BY <1>1, <1>3, ReportedRow
  <2>2. req' = R
    BY <1>3
  <2> HIDE DEF R
  <2>3. req'[r] = [req[r] EXCEPT !.result = [req[r].result EXCEPT ![n] = result],
                                 !.todo = Tail(req[r].todo), !.pc = "read"]
    BY <2>1, <2>2
  <2>4. QED
    BY <1>1, <1>2, <1>3, <2>3 DEF Reports, SameTold, RequestRow
<1>4. ASSUME ReadNode(r) \/ NodeNotFound(r)
      PROVE  /\ At(r, "read") /\ UNCHANGED <<node, row, runtime>>
             /\ req'[r].wrote = req[r].wrote /\ req'[r].aborted = req[r].aborted
             /\ \/ Reports(r, "failed")
                \/ /\ Reports(r, "applied") /\ ~req[r].aborted
                   /\ n \in req[r].wrote \/ node[n] = "Stale"
                \/ /\ req'[r].pc = "write" /\ req[r].todo # <<>> /\ ~req[r].aborted
                   /\ req'[r].conns = req[r].conns /\ SameWork(r) /\ SameTold(r)
  <2>1. At(r, "read") /\ UNCHANGED <<node, row, runtime>> /\ req[r].todo # <<>>
    BY <1>4 DEF ReadNode, NodeNotFound
  <2>2. \/ req' = Reported(r, "failed")
        \/ /\ req' = Reported(r, "applied") /\ ~req[r].aborted
           /\ n \in req[r].wrote \/ node[n] = "Stale"
        \/ req' = [req EXCEPT ![r].pc = "write"] /\ ~req[r].aborted
    BY <1>4 DEF ReadNode, NodeNotFound
  <2> HIDE DEF n
  <2>3. CASE req' = [req EXCEPT ![r].pc = "write"] /\ ~req[r].aborted
    BY <1>1, <2>1, <2>3 DEF SameWork, SameTold, RequestRow
  <2>4. QED
    BY <1>3, <2>1, <2>2, <2>3
<1>5. At(r, "write") => req[r].todo # <<>>
  BY DEF RequestOK, Report
<1>6. ASSUME WriteNode(r)
      PROVE  /\ At(r, "write") /\ Reports(r, "applied") /\ UNCHANGED runtime
             /\ req'[r].aborted = req[r].aborted /\ row[n] \in {None, r}
             /\ \/ /\ Rls(r) /\ row' = [row EXCEPT ![n] = r] /\ UNCHANGED node
                   /\ req'[r].wrote = req[r].wrote \union {n}
                \/ /\ ~Rls(r) /\ node' = [node EXCEPT ![n] = "Stale"]
                   /\ req'[r].wrote = req[r].wrote /\ UNCHANGED row
  <2>1. At(r, "write") /\ UNCHANGED runtime /\ row[n] \in {None, r} /\ req[r].todo # <<>>
    BY <1>5, <1>6 DEF WriteNode
  <2>2. \/ /\ Rls(r) /\ row' = [row EXCEPT ![n] = r] /\ UNCHANGED node
           /\ req' = [Reported(r, "applied") EXCEPT ![r].wrote = @ \union {n}]
        \/ /\ ~Rls(r) /\ node' = [node EXCEPT ![n] = "Stale"] /\ UNCHANGED row
           /\ req' = Reported(r, "applied")
    BY <1>6 DEF WriteNode
  <2> DEFINE R == Reported(r, "applied")
  <2>3. /\ R \in [Requests -> RequestRow]
        /\ R[r] = [req[r] EXCEPT !.result = [req[r].result EXCEPT ![n] = "applied"],
                                 !.todo = Tail(req[r].todo), !.pc = "read"]
    BY <1>1, <2>1, ReportedRow
  <2>4. CASE req' = [R EXCEPT ![r].wrote = @ \union {n}]
    <3>1. Reports(r, "applied") /\ req'[r].aborted = req[r].aborted
          /\ req'[r].wrote = req[r].wrote \union {n}
      <4> HIDE DEF R
      <4>1. /\ req'[r].pc = R[r].pc /\ req'[r].path = R[r].path /\ req'[r].conns = R[r].conns
            /\ req'[r].result = R[r].result /\ req'[r].aborted = R[r].aborted
            /\ req'[r].decision = R[r].decision /\ req'[r].signalSent = R[r].signalSent
            /\ req'[r].replayed = R[r].replayed /\ req'[r].wrote = R[r].wrote \union {n}
        BY <2>3, <2>4 DEF RequestRow
      <4>2. QED
        BY <1>1, <1>2, <2>1, <2>3, <4>1 DEF Reports, SameTold, RequestRow
    <3>2. QED
      BY <2>1, <2>2, <3>1, <1>3
  <2>5. CASE req' = R
    BY <1>3, <2>1, <2>2, <2>4, <2>5
  <2>6. QED
    BY <2>2, <2>4, <2>5
<1>7. ASSUME WriteFails(r)
      PROVE  /\ At(r, "write") /\ Reports(r, "failed") /\ UNCHANGED <<node, runtime>>
             /\ req'[r].aborted = Rls(r) /\ req'[r].wrote = {} /\ row' = Unlocked(r)
  <2>1. At(r, "write") /\ UNCHANGED <<node, runtime>> /\ row' = Unlocked(r) /\ req[r].todo # <<>>
    BY <1>5, <1>7 DEF WriteFails, Aborted, Unlocked
  <2> DEFINE R == Reported(r, "failed")
             b == Rls(r)
  <2>2. req' = [R EXCEPT ![r].aborted = b, ![r].wrote = {}]
    BY <1>7 DEF WriteFails, Aborted
  <2>3. /\ R \in [Requests -> RequestRow]
        /\ R[r] = [req[r] EXCEPT !.result = [req[r].result EXCEPT ![n] = "failed"],
                                 !.todo = Tail(req[r].todo), !.pc = "read"]
    BY <1>1, <2>1, ReportedRow
  <2> HIDE DEF R, b
  <2>4. /\ req'[r].pc = R[r].pc /\ req'[r].path = R[r].path /\ req'[r].conns = R[r].conns
        /\ req'[r].result = R[r].result /\ req'[r].aborted = b
        /\ req'[r].decision = R[r].decision /\ req'[r].signalSent = R[r].signalSent
        /\ req'[r].replayed = R[r].replayed /\ req'[r].wrote = {}
    BY <2>2, <2>3 DEF RequestRow
  <2>5. Reports(r, "failed")
    BY <1>1, <1>2, <2>1, <2>3, <2>4 DEF Reports, SameTold, RequestRow
  <2>6. QED
    BY <2>1, <2>4, <2>5 DEF b
<1>8. /\ Commit(r) =>
            /\ At(r, "commit") /\ req'[r].pc = "signal" /\ req'[r].conns = 0
            /\ SameWork(r) /\ SameTold(r)
            /\ node' = Committed(r) /\ row' = Unlocked(r) /\ UNCHANGED runtime
      /\ CommitFails(r) =>
            /\ At(r, "commit") /\ req'[r].pc = "error" /\ req'[r].conns = 0
            /\ SameWork(r) /\ SameTold(r) /\ row' = Unlocked(r) /\ UNCHANGED runtime
  BY <1>1 DEF Commit, CommitFails, Fail, Unlocked, SameWork, SameTold, RequestRow
<1>9. QED
  BY <1>4, <1>6, <1>7, <1>8

\* The calls of the runtime.
LEMMA Sent ==
    ASSUME Typed, NEW r \in Requests
    PROVE  /\ Signal(r) =>
                /\ At(r, "signal") /\ req'[r].pc \in {"audit", "replay"}
                /\ req'[r].conns = req[r].conns /\ SameWork(r) /\ UNCHANGED <<node, row>>
                /\ req'[r].decision = req[r].decision /\ req'[r].replayed = req[r].replayed
                /\ "signal" \in runtime'[r]
                /\ "replay" \in runtime'[r] => "replay" \in runtime[r]
           /\ SignalFails(r) =>
                /\ At(r, "signal") /\ req'[r].pc = "audit"
                /\ req'[r].conns = req[r].conns /\ SameWork(r) /\ SameTold(r)
                /\ UNCHANGED <<node, row>>
                /\ "replay" \in runtime'[r] => "replay" \in runtime[r]
           /\ Replay(r) \/ ReplayFails(r) =>
                /\ \/ At(r, "replay") /\ req'[r].pc = "audit"
                   \/ At(r, "only_replay") /\ req'[r].pc = IF Rls(r) THEN "end_replay" ELSE "answered"
                /\ req'[r].conns = req[r].conns /\ SameWork(r) /\ UNCHANGED <<node, row>>
                /\ req'[r].decision = req[r].decision /\ req'[r].signalSent = req[r].signalSent
                /\ req'[r].replayed = req[r].replayed \/ "replay" \in runtime'[r]
<1>1. /\ req \in [Requests -> RequestRow] /\ req[r] \in RequestRow
      /\ runtime \in [Requests -> SUBSET {"signal", "replay"}]
  BY DEF Typed
<1> DEFINE Signalled == [runtime EXCEPT ![r] = @ \union {"signal"}]
<1>2. /\ "signal" \in Signalled[r]
      /\ "replay" \in Signalled[r] => "replay" \in runtime[r]
      /\ "replay" \in [runtime EXCEPT ![r] = @ \union {"replay"}][r]
  BY <1>1
<1>3. Signal(r) =>
        /\ At(r, "signal") /\ req'[r].pc \in {"audit", "replay"}
        /\ req'[r].conns = req[r].conns /\ SameWork(r) /\ UNCHANGED <<node, row>>
        /\ req'[r].decision = req[r].decision /\ req'[r].replayed = req[r].replayed
        /\ runtime' = Signalled
  BY <1>1 DEF Signal, SameWork, RequestRow
<1>4. SignalFails(r) =>
        /\ At(r, "signal") /\ req'[r].pc = "audit"
        /\ req'[r].conns = req[r].conns /\ SameWork(r) /\ SameTold(r)
        /\ UNCHANGED <<node, row>> /\ runtime' \in {runtime, Signalled}
  BY <1>1 DEF SignalFails, Goto, SameWork, SameTold, RequestRow
<1>5. ASSUME Replay(r) \/ ReplayFails(r)
      PROVE  /\ \/ At(r, "replay") /\ req'[r].pc = "audit"
                \/ At(r, "only_replay") /\ req'[r].pc = IF Rls(r) THEN "end_replay" ELSE "answered"
             /\ req'[r].conns = req[r].conns /\ SameWork(r) /\ UNCHANGED <<node, row>>
             /\ req'[r].decision = req[r].decision /\ req'[r].signalSent = req[r].signalSent
             /\ req'[r].replayed = req[r].replayed \/ "replay" \in runtime'[r]
  <2> DEFINE p == AfterReplay(r)
  <2>1. /\ \/ At(r, "replay") /\ p = "audit"
           \/ At(r, "only_replay") /\ p = IF Rls(r) THEN "end_replay" ELSE "answered"
        /\ UNCHANGED <<node, row>>
    <3>1. (At(r, "replay") \/ At(r, "only_replay")) /\ UNCHANGED <<node, row>>
      BY <1>5 DEF Replay, ReplayFails
    <3>2. At(r, "replay") => p = "audit"
      BY DEF AfterReplay, At
    <3>3. At(r, "only_replay") => p = IF Rls(r) THEN "end_replay" ELSE "answered"
      BY DEF AfterReplay, At
    <3> HIDE DEF p
    <3>4. QED
      BY <3>1, <3>2, <3>3
  <2>2. \/ req' = [req EXCEPT ![r].replayed = TRUE, ![r].pc = p] /\ "replay" \in runtime'[r]
        \/ req' = [req EXCEPT ![r].pc = p]
    BY <1>2, <1>5 DEF Replay, ReplayFails, Goto
  <2> HIDE DEF p
  <2>3. /\ req'[r].pc = p /\ req'[r].conns = req[r].conns /\ SameWork(r)
        /\ req'[r].decision = req[r].decision /\ req'[r].signalSent = req[r].signalSent
        /\ req'[r].replayed = req[r].replayed \/ "replay" \in runtime'[r]
    BY <1>1, <2>2 DEF SameWork, RequestRow
  <2>4. QED
    BY <2>1, <2>3
<1>6. QED
  BY <1>2, <1>3, <1>4, <1>5

-----------------------------------------------------------------------------
(* Each part of the invariant, over the steps of a request. *)

\* A connection is held in a transaction of the RLS path and nowhere else.
LEMMA ConnectionStep ==
    ASSUME Typed, RequestOK, NEW r \in Requests, RequestStep(r) PROVE Connection(r)'
<1>1. Connection(r)
  BY DEF RequestOK
<1> USE <1>1 DEF Connection, InTransaction, RlsOnly, Begins, Rls, At
<1>2. CASE ReceiveApply(r) \/ ReceiveReplay(r)
  BY <1>2, Received DEF Paths
<1>3. CASE Begin(r) \/ BeginTimesOut(r) \/ Align(r) \/ AlignFails(r) \/ AlignReplayFails(r)
  BY <1>3, Passed DEF SameWork
<1>4. CASE NodesDone(r) \/ AlignReplay(r) \/ EndReplay(r) \/ Audit(r)
  BY <1>4, Passed DEF SameWork
<1>5. CASE ListApprovals(r) \/ CancelApprovals(r) \/ NotReady(r)
  BY <1>5, Passed DEF SameWork
<1>6. CASE ReadNode(r) \/ NodeNotFound(r) \/ WriteNode(r) \/ WriteFails(r)
  BY <1>6, Worked DEF SameWork, Reports
<1>7. CASE Commit(r) \/ CommitFails(r)
  BY <1>7, Worked DEF SameWork
<1>8. CASE Signal(r) \/ SignalFails(r) \/ Replay(r) \/ ReplayFails(r)
  BY <1>8, Sent DEF SameWork
<1>9. QED
  BY <1>2, <1>3, <1>4, <1>5, <1>6, <1>7, <1>8 DEF RequestStep, Step

\* The runtime is told of a replay only after the signal, or by a request of
\* POST /replay, which decides nothing.
LEMMA ToldStep ==
    ASSUME Typed, RequestOK, NEW r \in Requests, RequestStep(r) PROVE Told(r)'
<1>1. Told(r) /\ runtime[r] \subseteq runtime'[r]
  BY Surroundings DEF RequestOK
<1> USE <1>1 DEF Told, At
<1>2. CASE ReceiveApply(r) \/ ReceiveReplay(r)
  BY <1>2, Received DEF SameTold
<1>3. CASE Begin(r) \/ BeginTimesOut(r) \/ Align(r) \/ AlignFails(r) \/ AlignReplayFails(r)
  BY <1>3, Passed DEF SameTold, Begins
<1>4. CASE NodesDone(r) \/ AlignReplay(r) \/ EndReplay(r) \/ Audit(r)
  BY <1>4, Passed DEF SameTold
<1>5. CASE ListApprovals(r) \/ CancelApprovals(r) \/ NotReady(r)
  BY <1>5, Passed DEF SameTold
<1>6. CASE ReadNode(r) \/ NodeNotFound(r) \/ WriteNode(r) \/ WriteFails(r)
  BY <1>6, Worked DEF SameTold, Reports
<1>7. CASE Commit(r) \/ CommitFails(r)
  BY <1>7, Worked DEF SameTold
<1>8. CASE Signal(r) \/ SignalFails(r)
  BY <1>8, Sent DEF SameTold
<1>9. CASE Replay(r) \/ ReplayFails(r)
  BY <1>9, Sent
<1>10. QED
  BY <1>2, <1>3, <1>4, <1>5, <1>6, <1>7, <1>8, <1>9 DEF RequestStep, Step

\* What a request reports as applied stays Stale, or stays in the transaction
\* it was written in until the commit.
LEMMA ReportStep ==
    ASSUME Typed, RequestOK, NEW r \in Requests, RequestStep(r) PROVE Report(r)'
<1>1. Report(r) /\ \A n \in Nodes : node[n] = "Stale" => node'[n] = "Stale"
  BY Surroundings DEF RequestOK
<1>2. req[r] \in RequestRow
  BY DEF Typed
<1>3. ASSUME SameWork(r), req'[r].pc \notin {"write", "idle"}, req[r].pc # "error",
             req[r].pc \in Writing => ~Rls(r) \/ req'[r].pc \in Writing \union {"error"}
      PROVE  Report(r)'
  BY <1>1, <1>3 DEF Report, SameWork, Rls, At
<1>4. CASE ReceiveApply(r) \/ ReceiveReplay(r)
  BY <1>1, <1>4, Received DEF Report, Rls, At
<1>5. CASE Begin(r) \/ BeginTimesOut(r) \/ Align(r) \/ AlignFails(r) \/ AlignReplayFails(r)
  BY <1>3, <1>5, Passed DEF Begins, Writing, At
<1>6. CASE NodesDone(r) \/ AlignReplay(r) \/ EndReplay(r) \/ Audit(r)
  BY <1>3, <1>6, Passed DEF Writing, At
<1>7. CASE ListApprovals(r) \/ CancelApprovals(r) \/ NotReady(r)
  BY <1>3, <1>7, Passed DEF Writing, At
<1>8. CASE Signal(r) \/ SignalFails(r) \/ Replay(r) \/ ReplayFails(r)
  BY <1>3, <1>8, Sent DEF Writing, At
<1>9. CASE CommitFails(r)
  BY <1>3, <1>9, Worked DEF Writing, At
<1>10. CASE Commit(r)
  <2>1. At(r, "commit") /\ req'[r].pc = "signal" /\ SameWork(r) /\ node' = Committed(r)
    BY <1>10, Worked
  <2>2. \A n \in req[r].wrote : node'[n] = "Stale"
    BY <1>2, <2>1 DEF Committed, RequestRow
  <2>3. QED
    BY <1>1, <2>1, <2>2 DEF Report, SameWork, Rls, At
<1>11. ASSUME NEW result \in {"applied", "failed"}, Reports(r, result)
       PROVE  \A m \in Nodes : req'[r].result[m] =
                IF m = Head(req[r].todo) THEN result ELSE req[r].result[m]
  BY <1>2, <1>11 DEF Reports, RequestRow
<1>12. CASE ReadNode(r) \/ NodeNotFound(r)
  <2>1. /\ At(r, "read") /\ req'[r].wrote = req[r].wrote /\ req'[r].aborted = req[r].aborted
        /\ \/ Reports(r, "failed")
           \/ /\ Reports(r, "applied") /\ ~req[r].aborted
              /\ Head(req[r].todo) \in req[r].wrote \/ node[Head(req[r].todo)] = "Stale"
           \/ /\ req'[r].pc = "write" /\ req[r].todo # <<>> /\ ~req[r].aborted /\ SameWork(r)
    BY <1>12, Worked
  <2>2. CASE Reports(r, "failed")
    <3>1. \E m \in Nodes : req'[r].result[m] = "failed"
      BY <1>11, <2>2 DEF Reports
    <3>2. QED
      BY <1>1, <1>11, <2>1, <2>2, <3>1 DEF Report, Reports, Writing, Rls, At
  <2>3. CASE /\ Reports(r, "applied") /\ ~req[r].aborted
             /\ Head(req[r].todo) \in req[r].wrote \/ node[Head(req[r].todo)] = "Stale"
    BY <1>1, <1>11, <2>1, <2>3 DEF Report, Reports, Writing, Rls, At
  <2>4. CASE req'[r].pc = "write" /\ req[r].todo # <<>> /\ ~req[r].aborted /\ SameWork(r)
    BY <1>1, <2>1, <2>4 DEF Report, SameWork, Writing, Rls, At
  <2>5. QED
    BY <2>1, <2>2, <2>3, <2>4
<1>13. CASE WriteNode(r)
  <2> DEFINE n == Head(req[r].todo)
  <2>1. /\ At(r, "write") /\ Reports(r, "applied") /\ req'[r].aborted = req[r].aborted
        /\ \/ Rls(r) /\ node' = node /\ req'[r].wrote = req[r].wrote \union {n}
           \/ /\ ~Rls(r) /\ node' = [node EXCEPT ![n] = "Stale"]
              /\ req'[r].wrote = req[r].wrote
    BY <1>13, Worked
  <2>2. n \in req'[r].wrote \/ node'[n] = "Stale"
    <3>1. n \in Nodes /\ node \in [Nodes -> NodeStates]
      BY <2>1 DEF Reports, Typed
    <3>2. QED
      BY <2>1, <3>1
  <2>3. req[r].wrote \subseteq req'[r].wrote
    BY <2>1
  <2>4. (~Rls(r))' => req'[r].wrote = {}
    BY <1>1, <2>1 DEF Report, Reports, Rls
  <2>5. QED
    BY <1>1, <1>11, <2>1, <2>2, <2>3, <2>4 DEF Report, Reports, Writing, Rls, At
<1>14. CASE WriteFails(r)
  <2>1. /\ At(r, "write") /\ Reports(r, "failed") /\ req'[r].aborted = Rls(r)
        /\ req'[r].wrote = {} /\ node' = node
    BY <1>14, Worked
  <2>2. \E m \in Nodes : req'[r].result[m] = "failed"
    BY <1>11, <2>1 DEF Reports
  <2>3. (~Rls(r))' => ~Rls(r) /\ req[r].wrote = {} /\ ~req[r].aborted
    BY <1>1, <2>1 DEF Report, Reports, Rls
  <2>4. QED
    BY <1>1, <1>11, <2>1, <2>2, <2>3 DEF Report, Reports, Writing, Rls, At
<1>15. QED
  BY <1>4, <1>5, <1>6, <1>7, <1>8, <1>9, <1>10, <1>12, <1>13, <1>14 DEF RequestStep, Step

\* The lock of n is in order.
LockOK(n) ==
    row[n] # None =>
        /\ Rls(row[n]) /\ req[row[n]].pc \in Writing
        /\ ~req[row[n]].aborted /\ n \in req[row[n]].wrote

\* A lock is taken with the write it protects, and given up with it.
LEMMA LocksStep ==
    ASSUME Typed, RequestOK, Locks, NEW r \in Requests, RequestStep(r) PROVE Locks'
<1>1. /\ row \in [Nodes -> Requests \union {None}] /\ r # None
      /\ \A b \in Requests \ {r} : req'[b] = req[b]
  BY RequestRows, PipelineAssumption DEF Typed
<1>2. \A n \in Nodes : LockOK(n)
  BY DEF Locks, LockOK
<1>3. ASSUME NEW n \in Nodes, row'[n] = row[n], row[n] # r PROVE LockOK(n)'
  BY <1>1, <1>2, <1>3 DEF LockOK, Rls
<1>4. ASSUME row' = Unlocked(r) PROVE \A n \in Nodes : LockOK(n)'
  <2> TAKE n \in Nodes
  <2>1. row'[n] = IF row[n] = r THEN None ELSE row[n]
    BY <1>4 DEF Unlocked
  <2>2. CASE row[n] = r
    BY <2>1, <2>2 DEF LockOK
  <2>3. CASE row[n] # r
    BY <1>3, <2>1, <2>3
  <2>4. QED
    BY <2>2, <2>3
<1>5. ASSUME row' = row, req[r].pc \notin Writing PROVE \A n \in Nodes : LockOK(n)'
  <2> TAKE n \in Nodes
  <2>1. row[n] # r
    BY <1>1, <1>2, <1>5 DEF LockOK
  <2>2. QED
    BY <1>3, <1>5, <2>1
<1>6. ASSUME row' = row, Rls(r)' = Rls(r), Rls(r) => req'[r].pc \in Writing,
             req'[r].aborted = req[r].aborted, req[r].wrote \subseteq req'[r].wrote
      PROVE  \A n \in Nodes : LockOK(n)'
  <2> TAKE n \in Nodes
  <2>1. CASE row[n] = r
    BY <1>1, <1>2, <1>6, <2>1 DEF LockOK, Rls
  <2>2. CASE row[n] # r
    BY <1>3, <1>6, <2>2
  <2>3. QED
    BY <2>1, <2>2
<1>7. CASE ReceiveApply(r) \/ ReceiveReplay(r)
  BY <1>5, <1>7, Received DEF Locks, LockOK, Writing, At
<1>8. CASE Begin(r) \/ BeginTimesOut(r) \/ Align(r) \/ AlignReplay(r) \/ EndReplay(r) \/ Audit(r)
  BY <1>5, <1>8, Passed DEF Locks, LockOK, Writing, Begins, At
<1>9. CASE ListApprovals(r) \/ CancelApprovals(r) \/ NotReady(r)
  BY <1>5, <1>9, Passed DEF Locks, LockOK, Writing, At
<1>10. CASE AlignFails(r) \/ AlignReplayFails(r)
  BY <1>4, <1>10, Passed DEF Locks, LockOK
<1>11. CASE Signal(r) \/ SignalFails(r) \/ Replay(r) \/ ReplayFails(r)
  BY <1>5, <1>11, Sent DEF Locks, LockOK, Writing, At
<1>12. CASE Commit(r) \/ CommitFails(r) \/ WriteFails(r)
  BY <1>4, <1>12, Worked DEF Locks, LockOK
<1>13. CASE NodesDone(r)
  BY <1>6, <1>13, Passed DEF Locks, LockOK, SameWork, Writing, Rls
<1>14. CASE ReadNode(r) \/ NodeNotFound(r)
  BY <1>6, <1>14, Worked DEF Locks, LockOK, SameWork, Reports, Writing, Rls
<1>15. CASE WriteNode(r)
  <2> DEFINE n == Head(req[r].todo)
  <2>1. /\ At(r, "write") /\ n \in Nodes /\ req'[r].pc = "read" /\ req'[r].path = req[r].path
        /\ req'[r].aborted = req[r].aborted /\ ~req[r].aborted
        /\ \/ Rls(r) /\ row' = [row EXCEPT ![n] = r] /\ req'[r].wrote = req[r].wrote \union {n}
           \/ req'[r].wrote = req[r].wrote /\ UNCHANGED row
    BY <1>15, Worked DEF Reports, RequestOK, Report
  <2>2. CASE UNCHANGED row /\ req'[r].wrote = req[r].wrote
    BY <1>6, <2>1, <2>2 DEF Locks, LockOK, Writing, Rls
  <2>3. CASE Rls(r) /\ row' = [row EXCEPT ![n] = r] /\ req'[r].wrote = req[r].wrote \union {n}
    <3>1. ASSUME NEW m \in Nodes PROVE LockOK(m)'
      <4>1. row'[m] = IF m = n THEN r ELSE row[m]
        BY <1>1, <2>1, <2>3
      <4> HIDE DEF n
      <4>2. CASE row'[m] = r
        <5>1. m \in req'[r].wrote
          BY <1>1, <1>2, <2>3, <4>1, <4>2 DEF LockOK
        <5>2. QED
          BY <2>1, <2>3, <4>2, <5>1 DEF LockOK, Writing, Rls
      <4>3. CASE row'[m] # r
        BY <1>3, <4>1, <4>3
      <4>4. QED
        BY <4>2, <4>3
    <3>2. QED
      BY <3>1 DEF Locks, LockOK
  <2>4. QED
    BY <2>1, <2>2, <2>3
<1>16. QED
  BY <1>7, <1>8, <1>9, <1>10, <1>11, <1>12, <1>13, <1>14, <1>15 DEF RequestStep, Step

-----------------------------------------------------------------------------
(* The invariant. *)

\* Before the first request everything holds.
LEMMA InductiveInit ==
    ASSUME Init PROVE Inductive
<1>1. Idle \in RequestRow
  <2>1. <<>> \in Seq(Nodes) /\ 0 \in 0..1
    OBVIOUS
  <2>2. QED
    BY <2>1 DEF Idle, RequestRow, PCs, Paths, Decisions
<1>2. Typed
  <2>1. MaxCheckpoints \in Nat /\ MaxFaults \in Nat /\ <<>> \in Seq(BOOLEAN) /\ Len(<<>>) = 0
    BY PipelineAssumption
  <2>2. QED
    BY <1>1, <2>1 DEF Init, Typed, Idle, NodeStates
<1>3. RequestOK
  BY DEF Init, Idle, RequestOK, Connection, Report, Told, InTransaction, RlsOnly, Begins, Rls, At, None
<1>4. Locks
  BY DEF Init, Locks
<1>5. QED
  BY <1>2, <1>3, <1>4 DEF Inductive

\* What is said of a request outlives the steps of the others.
LEMMA InductiveStep ==
    ASSUME Inductive, [Next]_vars PROVE Inductive'
<1>1. Typed /\ RequestOK /\ Locks /\ Typed'
  BY TypedStep DEF Inductive
<1>2. ASSUME NEW r \in Requests, RequestStep(r) PROVE RequestOK' /\ Locks'
  <2>1. /\ \A b \in Requests \ {r} : req'[b] = req[b] /\ runtime'[b] = runtime[b]
        /\ \A n \in Nodes : node[n] = "Stale" => node'[n] = "Stale"
    BY <1>1, <1>2, RequestRows, Surroundings
  <2>2. ASSUME NEW b \in Requests \ {r} PROVE (Connection(b) /\ Report(b) /\ Told(b))'
    <3>1. Connection(b) /\ Report(b) /\ Told(b)
      BY <1>1 DEF RequestOK
    <3>2. req'[b] = req[b] /\ runtime'[b] = runtime[b]
      BY <2>1
    <3>3. Connection(b)' /\ Told(b)'
      BY <3>1, <3>2 DEF Connection, Told, Rls, At
    <3>4. Report(b)'
      BY <2>1, <3>1, <3>2 DEF Report, Rls, At
    <3>5. QED
      BY <3>3, <3>4
  <2>3. (Connection(r) /\ Report(r) /\ Told(r))'
    BY <1>1, <1>2, ConnectionStep, ReportStep, ToldStep
  <2>4. QED
    BY <1>1, <1>2, <2>2, <2>3, LocksStep DEF RequestOK
<1>3. CASE CheckpointStep \/ UNCHANGED vars
  <2>1. UNCHANGED <<node, row, req, runtime>>
    BY <1>3 DEF CheckpointStep, CreateCheckpoint, ExpireCheckpoints, SetStatus, vars
  <2>2. RequestOK'
    BY <1>1, <2>1 DEF RequestOK, Connection, Report, Told, Rls, At
  <2>3. Locks'
    BY <1>1, <2>1 DEF Locks, Rls
  <2>4. QED
    BY <1>1, <2>2, <2>3 DEF Inductive
<1>4. QED
  BY <1>1, <1>2, <1>3 DEF Inductive, Next, RequestStep

\* Inductive holds in every state of the apply pipeline.
THEOREM AlwaysInductive == Spec => []Inductive
<1>1. QED
  BY InductiveInit, InductiveStep, PTL DEF Spec

\* The variables keep their types, and only a transaction of the RLS path is
\* ever aborted.
THEOREM PipelineTypeCorrect == Spec => []PipelineTypeOK
<1>1. ASSUME Inductive PROVE PipelineTypeOK
  <2>1. ASSUME NEW r \in Requests
        PROVE  /\ req[r].pc \in PCs /\ req[r].path \in Paths /\ req[r].decision \in Decisions
               /\ req[r].todo \in Seq(Nodes) /\ req[r].wrote \subseteq Nodes
               /\ req[r].result \in [Nodes -> {None, "applied", "failed"}]
               /\ req[r].conns \in 0..1 /\ req[r].aligned \in 0..Len(checkpoints)
               /\ {req[r].aborted, req[r].signalSent, req[r].replayed} \subseteq BOOLEAN
    <3>1. req[r] \in RequestRow /\ req[r].aligned <= Len(checkpoints)
          /\ checkpoints \in Seq(BOOLEAN)
      BY <1>1 DEF Inductive, Typed
    <3>2. Len(checkpoints) \in Nat /\ req[r].aligned \in Nat
      BY <3>1 DEF RequestRow
    <3>3. req[r].aligned \in 0..Len(checkpoints)
      BY <3>1, <3>2
    <3>4. QED
      BY <3>1, <3>3 DEF RequestRow
  <2>2. \A r \in Requests : req[r].aborted => req[r].path = "rls"
    BY <1>1 DEF Inductive, RequestOK, Report, Rls
  <2>3. QED
    BY <1>1, <2>1, <2>2 DEF Inductive, Typed, PipelineTypeOK
<1>2. QED
  BY <1>1, AlwaysInductive, PTL

\* A request that ended holds no connection and no row lock, and whoever holds a
\* lock can still commit its write.
THEOREM NothingIsLeftBehind == Spec => []NothingLeftBehind
<1>1. ASSUME Inductive PROVE NothingLeftBehind
  <2>1. ASSUME NEW r \in Requests, Ended(r) PROVE req[r].conns = 0
    BY <1>1, <2>1 DEF Inductive, RequestOK, Connection, Ended, InTransaction
  <2>2. ASSUME NEW n \in Nodes, row[n] # None
        PROVE  req[row[n]].conns = 1 /\ ~req[row[n]].aborted /\ n \in req[row[n]].wrote
    <3>1. /\ Rls(row[n]) /\ req[row[n]].pc \in Writing /\ row[n] \in Requests
          /\ ~req[row[n]].aborted /\ n \in req[row[n]].wrote
      BY <1>1, <2>2 DEF Inductive, Typed, Locks
    <3>2. req[row[n]].conns = 1
      BY <1>1, <3>1 DEF Inductive, RequestOK, Connection, Writing, InTransaction
    <3>3. QED
      BY <3>1, <3>2
  <2>3. QED
    BY <2>1, <2>2 DEF NothingLeftBehind
<1>2. QED
  BY <1>1, AlwaysInductive, PTL

\* What an answer counts as applied is Stale, or the answer reports a failure.
THEOREM FalseReportsShow == Spec => []FalseReportShows
<1>1. ASSUME Inductive PROVE FalseReportShows
  BY <1>1 DEF Inductive, RequestOK, Report, FalseReportShows, Writing
<1>2. QED
  BY <1>1, AlwaysInductive, PTL

\* What the answer says of the runtime happened there, signal before replay.
THEOREM RuntimeReportsTrue == Spec => []RuntimeReportTrue
<1>1. ASSUME Inductive PROVE RuntimeReportTrue
  BY <1>1 DEF Inductive, RequestOK, Told, RuntimeReportTrue
<1>2. QED
  BY <1>1, AlwaysInductive, PTL

-----------------------------------------------------------------------------
(***************************************************************************)
(* RebaseEngine.  EngineOK says that the versions are versions and that a  *)
(* plan is the one of the two it was made of; the rest is about what diff, *)
(* risk analysis and planning compute from any two versions.               *)
(***************************************************************************)
\* A version has clauses of its kind in each list.
Version(v) == /\ v = [l \in Lists |-> v[l]]
              /\ \A l \in Lists : v[l] \in Seq(Clauses(l))

EngineOK ==
    /\ Version(base) /\ Version(head)
    /\ plan \in {Absent, PlanOf(Diff(base, head))}

\* The highest of some severities is one, and none is higher.
LEMMA HighestIs ==
    ASSUME NEW S \in SUBSET (0..3)
    PROVE  Highest(S) \in 0..3 /\ \A x \in S : x <= Highest(S)
<1> DEFINE T == S \union {Low}
<1>1. \E m \in T : \A y \in T : m >= y
  <2>1. CASE 3 \in S
    BY <2>1 DEF Low
  <2>2. CASE 3 \notin S /\ 2 \in S
    BY <2>2 DEF Low
  <2>3. CASE 3 \notin S /\ 2 \notin S /\ 1 \in S
    BY <2>3 DEF Low
  <2>4. CASE 3 \notin S /\ 2 \notin S /\ 1 \notin S
    BY <2>4 DEF Low
  <2>5. QED
    BY <2>1, <2>2, <2>3, <2>4
<1>2. Highest(S) = CHOOSE m \in T : \A y \in T : m >= y
  BY DEF Highest, Max
<1>3. Highest(S) \in T /\ \A y \in T : Highest(S) >= y
  BY <1>1, <1>2
<1>4. \A x \in T : x \in 0..3
  BY DEF Low
<1>5. QED
  BY <1>3, <1>4

\* What holds of 0 and is kept by adding 1 holds of every natural.
LEMMA AllNaturals ==
    ASSUME NEW T \in SUBSET Nat, 0 \in T, \A k \in T : k + 1 \in T
    PROVE  T = Nat
<1> SUFFICES ASSUME Nat \ T # {} PROVE FALSE
  OBVIOUS
<1>1. PICK x \in Nat \ T : \A y \in Nat \ T : ~(<<y, x>> \in OpToRel(<, Nat))
  <2>1. IsWellFoundedOn(OpToRel(<, Nat), Nat)
    BY NatLessThanWellFounded
  <2>2. Nat \ T \subseteq Nat
    OBVIOUS
  <2>3. QED
    BY <2>1, <2>2, WFMin
<1>2. \A y \in Nat \ T : ~(y < x)
  BY <1>1 DEF OpToRel
<1>3. x # 0 /\ x - 1 \in Nat /\ x - 1 < x
  OBVIOUS
<1>4. x - 1 \in T
  BY <1>2, <1>3
<1>5. (x - 1) + 1 \in T
  BY <1>4
<1>6. QED
  BY <1>3, <1>5

Points(b, a) == (1 .. Len(b) + 1) \X (1 .. Len(a) + 1)

\* One step of the merge, with f for what is left to do.
Choice(b, a, f, at) ==
    CASE Precedes(b, at[1], a, at[2]) ->
            f[<<at[1] + 1, at[2]>>] \union {Entry("Removed", at[1], b[at[1]], Absent)}
      [] Precedes(a, at[2], b, at[1]) ->
            f[<<at[1], at[2] + 1>>] \union {Entry("Added", at[2], Absent, a[at[2]])}
      [] at[1] <= Len(b) /\ at[2] <= Len(a) /\ b[at[1]].key = a[at[2]].key ->
            f[<<at[1] + 1, at[2] + 1>>]
      [] OTHER -> {}

Rest(b, a) == CHOOSE f : f = [at \in Points(b, a) |-> Choice(b, a, f, at)]

\* The merge is what is left to do at the first point.
LEMMA MergeIs == ASSUME NEW b, NEW a PROVE Merge(b, a) = Rest(b, a)[<<1, 1>>]
BY Zenon DEF Merge, Rest, Points, Choice

\* The clauses that are left at a point, and the points a step leads to.
Left(b, a, at) == (Len(b) + 1 - at[1]) + (Len(a) + 1 - at[2])

\* A step leads to a point of the lists, with fewer clauses left.
LEMMA PointsAre ==
    ASSUME NEW S, NEW b \in Seq(S), NEW a \in Seq(S), NEW at \in Points(b, a)
    PROVE  /\ Left(b, a, at) \in Nat
           /\ Precedes(b, at[1], a, at[2]) =>
                <<at[1] + 1, at[2]>> \in Points(b, a)
                /\ Left(b, a, <<at[1] + 1, at[2]>>) < Left(b, a, at)
           /\ Precedes(a, at[2], b, at[1]) =>
                <<at[1], at[2] + 1>> \in Points(b, a)
                /\ Left(b, a, <<at[1], at[2] + 1>>) < Left(b, a, at)
           /\ at[1] <= Len(b) /\ at[2] <= Len(a) =>
                <<at[1] + 1, at[2] + 1>> \in Points(b, a)
                /\ Left(b, a, <<at[1] + 1, at[2] + 1>>) < Left(b, a, at)
<1>1. Len(b) \in Nat /\ Len(a) \in Nat
  BY LenProperties
<1>2. at[1] \in 1 .. Len(b) + 1 /\ at[2] \in 1 .. Len(a) + 1
  BY DEF Points
<1>3. /\ Precedes(b, at[1], a, at[2]) => at[1] <= Len(b)
      /\ Precedes(a, at[2], b, at[1]) => at[2] <= Len(a)
  BY DEF Precedes
<1>4. \A i, j : <<i, j>>[1] = i /\ <<i, j>>[2] = j
  OBVIOUS
<1>5. \A i \in 1 .. Len(b) + 1, j \in 1 .. Len(a) + 1 : <<i, j>> \in Points(b, a)
  BY DEF Points
<1>6. /\ Left(b, a, <<at[1] + 1, at[2]>>) = (Len(b) + 1 - (at[1] + 1)) + (Len(a) + 1 - at[2])
      /\ Left(b, a, <<at[1], at[2] + 1>>) = (Len(b) + 1 - at[1]) + (Len(a) + 1 - (at[2] + 1))
      /\ Left(b, a, <<at[1] + 1, at[2] + 1>>) = (Len(b) + 1 - (at[1] + 1)) + (Len(a) + 1 - (at[2] + 1))
      /\ Left(b, a, at) = (Len(b) + 1 - at[1]) + (Len(a) + 1 - at[2])
  BY <1>4 DEF Left
<1>7. at[1] <= Len(b) => at[1] + 1 \in 1 .. Len(b) + 1
  BY <1>1, <1>2
<1>8. at[2] <= Len(a) => at[2] + 1 \in 1 .. Len(a) + 1
  BY <1>1, <1>2
<1>9. ASSUME at[1] <= Len(b)
      PROVE  <<at[1] + 1, at[2]>> \in Points(b, a)
             /\ Left(b, a, <<at[1] + 1, at[2]>>) < Left(b, a, at)
  <2>1. <<at[1] + 1, at[2]>> \in Points(b, a)
    BY <1>2, <1>5, <1>7, <1>9
  <2>2. (Len(b) + 1 - (at[1] + 1)) + (Len(a) + 1 - at[2]) < (Len(b) + 1 - at[1]) + (Len(a) + 1 - at[2])
    BY <1>1, <1>2
  <2>3. QED
    BY <1>6, <2>1, <2>2
<1>10. ASSUME at[2] <= Len(a)
       PROVE  <<at[1], at[2] + 1>> \in Points(b, a)
              /\ Left(b, a, <<at[1], at[2] + 1>>) < Left(b, a, at)
  <2>1. <<at[1], at[2] + 1>> \in Points(b, a)
    BY <1>2, <1>5, <1>8, <1>10
  <2>2. (Len(b) + 1 - at[1]) + (Len(a) + 1 - (at[2] + 1)) < (Len(b) + 1 - at[1]) + (Len(a) + 1 - at[2])
    BY <1>1, <1>2
  <2>3. QED
    BY <1>6, <2>1, <2>2
<1>11. ASSUME at[1] <= Len(b), at[2] <= Len(a)
       PROVE  <<at[1] + 1, at[2] + 1>> \in Points(b, a)
              /\ Left(b, a, <<at[1] + 1, at[2] + 1>>) < Left(b, a, at)
  <2>1. <<at[1] + 1, at[2] + 1>> \in Points(b, a)
    BY <1>5, <1>7, <1>8, <1>11
  <2> DEFINE n == Len(b)
             m == Len(a)
             i == at[1]
             j == at[2]
  <2>2. (n + 1 - (i + 1)) + (m + 1 - (j + 1)) < (n + 1 - i) + (m + 1 - j)
    <3>1. n \in Nat /\ m \in Nat /\ i \in Nat /\ j \in Nat
      BY <1>1, <1>2
    <3> HIDE DEF n, m, i, j
    <3>2. QED
      BY <3>1
  <2>3. QED
    BY <1>6, <2>1, <2>2
<1>12. Left(b, a, at) \in Nat
  <2>1. (Len(b) + 1 - at[1]) + (Len(a) + 1 - at[2]) \in Nat
    BY <1>1, <1>2
  <2>2. QED
    BY <1>6, <2>1
<1>13. QED
  BY <1>3, <1>9, <1>10, <1>11, <1>12

Comparable(S) == \A x \in S : x.key \in Nat

Equal(b, a, at) == at[1] <= Len(b) /\ at[2] <= Len(a) /\ b[at[1]].key = a[at[2]].key

\* Strings compare in one way.
LEMMA OneWay ==
    ASSUME NEW S, NEW b \in Seq(S), NEW a \in Seq(S), NEW at \in Points(b, a),
           Comparable(S)
    PROVE  LET p == Precedes(b, at[1], a, at[2])
               q == Precedes(a, at[2], b, at[1])
               r == Equal(b, a, at)
           IN  /\ ~(p /\ q) /\ ~(p /\ r) /\ ~(q /\ r)
               /\ p => at[1] \in DOMAIN b
               /\ q => at[2] \in DOMAIN a
               /\ r => at[1] \in DOMAIN b /\ at[2] \in DOMAIN a
               /\ ~p /\ ~q /\ ~r => at[1] = Len(b) + 1 /\ at[2] = Len(a) + 1
<1>1. /\ Len(b) \in Nat /\ Len(a) \in Nat
      /\ at[1] \in 1 .. Len(b) + 1 /\ at[2] \in 1 .. Len(a) + 1
      /\ DOMAIN b = 1 .. Len(b) /\ DOMAIN a = 1 .. Len(a)
  BY LenProperties DEF Points
<1>2. /\ at[1] <= Len(b) => b[at[1]].key \in Nat
      /\ at[2] <= Len(a) => a[at[2]].key \in Nat
  BY <1>1, ElementOfSeq DEF Comparable
<1>3. QED
  BY <1>1, <1>2 DEF Precedes, Equal

\* What the merge does at a point.
ChosenBy(b, a, f, at) ==
    /\ Precedes(b, at[1], a, at[2]) =>
        Choice(b, a, f, at) = f[<<at[1] + 1, at[2]>>]
            \union {Entry("Removed", at[1], b[at[1]], Absent)}
    /\ Precedes(a, at[2], b, at[1]) =>
        Choice(b, a, f, at) = f[<<at[1], at[2] + 1>>]
            \union {Entry("Added", at[2], Absent, a[at[2]])}
    /\ Equal(b, a, at) => Choice(b, a, f, at) = f[<<at[1] + 1, at[2] + 1>>]
    /\ ~Precedes(b, at[1], a, at[2]) /\ ~Precedes(a, at[2], b, at[1])
        /\ ~Equal(b, a, at) => Choice(b, a, f, at) = {}

\* One of the four cases applies at a point, and only that one.
LEMMA ChoiceIs ==
    ASSUME NEW S, NEW b \in Seq(S), NEW a \in Seq(S), NEW at \in Points(b, a), Comparable(S), NEW f
    PROVE  ChosenBy(b, a, f, at)
<1> DEFINE p == Precedes(b, at[1], a, at[2])
           q == Precedes(a, at[2], b, at[1])
           r == Equal(b, a, at)
           x == f[<<at[1] + 1, at[2]>>]
                    \union {Entry("Removed", at[1], b[at[1]], Absent)}
           y == f[<<at[1], at[2] + 1>>]
                    \union {Entry("Added", at[2], Absent, a[at[2]])}
           z == f[<<at[1] + 1, at[2] + 1>>]
<1>1. ~(p /\ q) /\ ~(p /\ r) /\ ~(q /\ r)
  BY OneWay
<1>2. Choice(b, a, f, at) = (CASE p -> x [] q -> y [] r -> z [] OTHER -> {})
  BY DEF Choice, Equal
<1>3. p \in BOOLEAN /\ q \in BOOLEAN /\ r \in BOOLEAN
  BY DEF Precedes, Equal
<1> HIDE DEF p, q, r, x, y, z
<1>4. /\ p => Choice(b, a, f, at) = x
      /\ q => Choice(b, a, f, at) = y
      /\ r => Choice(b, a, f, at) = z
      /\ ~p /\ ~q /\ ~r => Choice(b, a, f, at) = {}
  BY <1>1, <1>2, <1>3
<1>5. QED
  BY <1>4 DEF p, q, r, x, y, z, ChosenBy

\* A step depends only on the points it leads to.
LEMMA ChoiceIsLocal ==
    ASSUME NEW S, NEW b \in Seq(S), NEW a \in Seq(S), NEW at \in Points(b, a),
           Comparable(S), NEW f, NEW g,
           \A p \in Points(b, a) : Left(b, a, p) < Left(b, a, at) => f[p] = g[p]
    PROVE  Choice(b, a, f, at) = Choice(b, a, g, at)
<1>1. /\ Precedes(b, at[1], a, at[2]) => f[<<at[1] + 1, at[2]>>] = g[<<at[1] + 1, at[2]>>]
      /\ Precedes(a, at[2], b, at[1]) => f[<<at[1], at[2] + 1>>] = g[<<at[1], at[2] + 1>>]
      /\ Equal(b, a, at) => f[<<at[1] + 1, at[2] + 1>>] = g[<<at[1] + 1, at[2] + 1>>]
  BY PointsAre DEF Equal
<1>2. ChosenBy(b, a, f, at) /\ ChosenBy(b, a, g, at)
  BY ChoiceIs
<1>3. QED
  BY <1>1, <1>2 DEF ChosenBy

\* A function that obeys the merge at all points with at most k clauses left.
Obeys(b, a, f, k) ==
    \A at \in Points(b, a) : Left(b, a, at) <= k => f[at] = Choice(b, a, f, at)

\* The merge is defined, whatever the lists.
LEMMA RestIs ==
    ASSUME NEW S, NEW b \in Seq(S), NEW a \in Seq(S), Comparable(S)
    PROVE  \A at \in Points(b, a) : Rest(b, a)[at] = Choice(b, a, Rest(b, a), at)
<1> DEFINE P == Points(b, a)
           T == {k \in Nat : \E f : Obeys(b, a, f, k)}
           Once(f) == [at \in P |-> Choice(b, a, f, at)]
<1>1. \A at \in P : Left(b, a, at) \in Nat
  BY PointsAre
<1>2. ASSUME NEW f, NEW k \in Nat, \A at \in P : Left(b, a, at) < k => f[at] = Choice(b, a, f, at)
      PROVE  Obeys(b, a, Once(f), k)
  <2> SUFFICES ASSUME NEW at \in P, Left(b, a, at) <= k
               PROVE  Once(f)[at] = Choice(b, a, Once(f), at)
    BY DEF Obeys
  <2>1. \A p \in P : Left(b, a, p) < Left(b, a, at) => f[p] = Once(f)[p]
    BY <1>1, <1>2
  <2>2. Choice(b, a, f, at) = Choice(b, a, Once(f), at)
    BY <2>1, ChoiceIsLocal
  <2>3. QED
    BY <2>2
<1>3. 0 \in T
  <2> DEFINE f == [at \in P |-> {}]
  <2>1. \A at \in P : ~(Left(b, a, at) < 0)
    BY <1>1
  <2>2. Obeys(b, a, Once(f), 0)
    BY <1>2, <2>1
  <2>3. QED
    BY <2>2
<1>4. \A k \in T : k + 1 \in T
  <2> TAKE k \in T
  <2>1. PICK f : Obeys(b, a, f, k)
    OBVIOUS
  <2>2. \A at \in P : Left(b, a, at) < k + 1 => f[at] = Choice(b, a, f, at)
    BY <1>1, <2>1 DEF Obeys
  <2>3. Obeys(b, a, Once(f), k + 1)
    BY <1>2, <2>2
  <2>4. QED
    BY <2>3
<1> HIDE DEF T
<1>5. T = Nat
  BY <1>3, <1>4, AllNaturals DEF T
<1>6. Len(b) + Len(a) \in T
  BY <1>5, LenProperties
<1>7. PICK f : Obeys(b, a, f, Len(b) + Len(a))
  BY <1>6 DEF T
<1>8. \A at \in P : Left(b, a, at) <= Len(b) + Len(a)
  BY LenProperties DEF Points, Left
<1>9. \A at \in P : f[at] = Choice(b, a, f, at)
  BY <1>7, <1>8 DEF Obeys
<1>10. Once(f) = Once(Once(f))
  <2>1. \A at \in P : Choice(b, a, f, at) = Choice(b, a, Once(f), at)
    <3> TAKE at \in P
    <3>1. \A p \in P : f[p] = Once(f)[p]
      BY <1>9
    <3>2. QED
      BY <3>1, ChoiceIsLocal
  <2>2. QED
    BY <2>1
<1>11. Rest(b, a) = [at \in P |-> Choice(b, a, Rest(b, a), at)]
  <2> DEFINE g == Once(f)
  <2>1. g = [at \in Points(b, a) |-> Choice(b, a, g, at)]
    BY <1>10
  <2> HIDE DEF g
  <2>2. QED
    BY <2>1 DEF Rest
<1>12. QED
  BY <1>11

-----------------------------------------------------------------------------
\* How often a list has a clause.
Count(s, c) == Cardinality({i \in DOMAIN s : s[i] = c})

\* It is a number.
LEMMA CountIsNat ==
    ASSUME NEW S, NEW s \in Seq(S), NEW c
    PROVE  IsFiniteSet({i \in DOMAIN s : s[i] = c}) /\ Count(s, c) \in Nat
<1>1. DOMAIN s = 1..Len(s) /\ Len(s) \in Nat
  BY LenProperties
<1>2. IsFiniteSet(DOMAIN s)
  BY <1>1, FS_Interval
<1>3. IsFiniteSet({i \in DOMAIN s : s[i] = c})
  BY <1>2, FS_Subset
<1>4. QED
  BY <1>3, FS_CardinalityType DEF Count

\* Every place of b has a place of its own in a that holds the same.
Placed(b, a, m) ==
    /\ \A i \in DOMAIN b : m[i] \in DOMAIN a /\ a[m[i]] = b[i]
    /\ \A i, k \in DOMAIN b : m[i] = m[k] => i = k

\* Then a has each clause at least as often.
LEMMA CountsGrow ==
    ASSUME NEW S, NEW b \in Seq(S), NEW a \in Seq(S), NEW c, NEW m, Placed(b, a, m)
    PROVE  Count(b, c) <= Count(a, c)
<1> DEFINE B == {i \in DOMAIN b : b[i] = c}
           A == {j \in DOMAIN a : a[j] = c}
           f == [i \in B |-> m[i]]
<1>1. f \in Injection(B, A)
  BY DEF Placed, Injection, IsInjective
<1>2. IsFiniteSet(A)
  BY CountIsNat
<1>3. QED
  BY <1>1, <1>2, FS_Injection DEF Count

\* The clauses that go no later than the k-th.
Upto(s, k) == {i \in DOMAIN s : s[i].key < s[k].key \/ (s[i].key = s[k].key /\ i <= k)}

\* Each clause has a place of its own.
LEMMA PlacesAre ==
    ASSUME NEW S, NEW s \in Seq(S), Comparable(S)
    PROVE  /\ \A k \in DOMAIN s : Place(s, k) \in DOMAIN s
           /\ \A k, l \in DOMAIN s : Place(s, k) = Place(s, l) => k = l
           /\ \A n \in DOMAIN s : \E k \in DOMAIN s : Place(s, k) = n
<1> DEFINE D == DOMAIN s
           place == [k \in D |-> Cardinality(Upto(s, k))]
<1>1. D = 1 .. Len(s) /\ Len(s) \in Nat /\ \A k \in D : s[k].key \in Nat
  BY LenProperties, ElementOfSeq DEF Comparable
<1>2. IsFiniteSet(D) /\ Cardinality(D) = Len(s)
  BY <1>1, FS_Interval
<1>3. \A k \in D : Place(s, k) = place[k]
  BY DEF Place, Upto
<1>4. ASSUME NEW k \in D
      PROVE  /\ IsFiniteSet(Upto(s, k)) /\ Cardinality(Upto(s, k)) \in Nat
             /\ Cardinality(Upto(s, k)) \in D
  <2>1. Upto(s, k) \in SUBSET D /\ k \in Upto(s, k)
    BY <1>1 DEF Upto
  <2>2. IsFiniteSet(Upto(s, k)) /\ Cardinality(Upto(s, k)) <= Len(s)
    BY <1>2, <2>1, FS_Subset
  <2>3. Cardinality(Upto(s, k)) \in Nat /\ Cardinality(Upto(s, k)) # 0
    BY <2>1, <2>2, FS_CardinalityType, FS_EmptySet
  <2>4. QED
    BY <1>1, <2>2, <2>3
<1>5. ASSUME NEW k \in D, NEW l \in D, k # l, k \in Upto(s, l) PROVE place[k] # place[l]
  <2>1. Upto(s, k) \subseteq Upto(s, l)
    BY <1>1, <1>5 DEF Upto
  <2>2. l \notin Upto(s, k) /\ l \in Upto(s, l)
    BY <1>1, <1>5 DEF Upto
  <2>3. Upto(s, k) # Upto(s, l)
    BY <2>2
  <2>4. Cardinality(Upto(s, k)) # Cardinality(Upto(s, l))
    BY <1>4, <2>1, <2>3, FS_Subset
  <2>5. QED
    BY <2>4
<1>6. \A k, l \in D : k # l => k \in Upto(s, l) \/ l \in Upto(s, k)
  BY <1>1 DEF Upto
<1>7. \A k, l \in D : place[k] = place[l] => k = l
  BY <1>5, <1>6
<1>8. place \in [D -> D]
  BY <1>4
<1>9. place \in Injection(D, D)
  BY <1>7, <1>8 DEF Injection, IsInjective
<1>10. place \in Surjection(D, D)
  BY <1>2, <1>9, FS_Injection
<1>11. \A n \in D : \E k \in D : place[k] = n
  BY <1>10 DEF Surjection
<1> HIDE DEF place
<1>12. QED
  BY <1>3, <1>7, <1>8, <1>11

\* Sorting changes the order and nothing else.
LEMMA SortedIs ==
    ASSUME NEW S, NEW s \in Seq(S), Comparable(S)
    PROVE  /\ Sorted(s) \in Seq(S)
           /\ \A n \in DOMAIN Sorted(s) : \E k \in DOMAIN s : Sorted(s)[n] = s[k]
           /\ \A c : Count(Sorted(s), c) = Count(s, c)
<1> DEFINE D == DOMAIN s
           Which(n) == CHOOSE k \in D : Place(s, k) = n
           t == Sorted(s)
           from == [n \in D |-> Which(n)]
           to == [k \in D |-> Place(s, k)]
<1>1. t = [n \in D |-> s[Which(n)]]
  BY DEF Sorted
<1>2. \A n \in D : Which(n) \in D /\ Place(s, Which(n)) = n
  BY PlacesAre
<1>3. \A k \in D : Place(s, k) \in D /\ Which(Place(s, k)) = k
  BY <1>2, PlacesAre
<1> HIDE DEF Which, t
<1>4. D = 1 .. Len(s) /\ Len(s) \in Nat /\ \A k \in D : s[k] \in S
  BY LenProperties, ElementOfSeq
<1>5. t \in Seq(S) /\ DOMAIN t = D
  <2>1. \A n \in 1 .. Len(s) : s[Which(n)] \in S
    BY <1>2, <1>4
  <2>2. [n \in 1 .. Len(s) |-> s[Which(n)]] \in Seq(S)
    BY <1>4, <2>1, IsASeq
  <2>3. QED
    BY <1>1, <1>4, <2>2
<1>6. Placed(t, s, from)
  <2>1. \A n \in D : from[n] \in D /\ s[from[n]] = t[n]
    BY <1>1, <1>2
  <2>2. \A n, m \in D : from[n] = from[m] => n = m
    BY <1>2
  <2> HIDE DEF from
  <2>3. QED
    BY <1>5, <2>1, <2>2 DEF Placed
<1>7. Placed(s, t, to)
  <2>1. \A k \in D : to[k] \in D /\ t[to[k]] = s[k]
    BY <1>1, <1>3
  <2>2. \A k, l \in D : to[k] = to[l] => k = l
    BY <1>3
  <2> HIDE DEF to
  <2>3. QED
    BY <1>5, <2>1, <2>2 DEF Placed
<1>8. ASSUME NEW c PROVE Count(t, c) = Count(s, c)
  <2>1. Count(t, c) <= Count(s, c) /\ Count(s, c) <= Count(t, c)
    BY <1>5, <1>6, <1>7, CountsGrow
  <2>2. Count(t, c) \in Nat /\ Count(s, c) \in Nat
    BY <1>5, CountIsNat
  <2>3. QED
    BY <2>1, <2>2
<1>9. \A n \in DOMAIN t : \E k \in DOMAIN s : t[n] = s[k]
  BY <1>1, <1>2, <1>5
<1>10. QED
  BY <1>5, <1>8, <1>9 DEF t

-----------------------------------------------------------------------------
(* A diff balances: what it takes from one list and adds gives the other. *)

One(condition) == IF condition THEN 1 ELSE 0

\* Where a list has a clause from a place on.
From(s, i, c) == {k \in DOMAIN s : k >= i /\ s[k] = c}

\* From a place on, a list has the clauses of that place and of those after it.
LEMMA FromIs ==
    ASSUME NEW S, NEW s \in Seq(S), NEW c, NEW i \in 1 .. Len(s) + 1
    PROVE  /\ Cardinality(From(s, i, c)) \in Nat
           /\ i \in DOMAIN s => Cardinality(From(s, i, c))
                                = Cardinality(From(s, i + 1, c)) + One(s[i] = c)
           /\ i = Len(s) + 1 => Cardinality(From(s, i, c)) = 0
           /\ i = 1 => Cardinality(From(s, i, c)) = Count(s, c)
<1>1. DOMAIN s = 1 .. Len(s) /\ Len(s) \in Nat
  BY LenProperties
<1>2. IsFiniteSet(DOMAIN s)
  BY <1>1, FS_Interval
<1>3. \A k : IsFiniteSet(From(s, k, c)) /\ Cardinality(From(s, k, c)) \in Nat
  <2> TAKE k
  <2>1. From(s, k, c) \in SUBSET DOMAIN s
    BY DEF From
  <2>2. QED
    BY <1>2, <2>1, FS_Subset, FS_CardinalityType
<1>4. ASSUME i \in DOMAIN s
      PROVE  Cardinality(From(s, i, c)) = Cardinality(From(s, i + 1, c)) + One(s[i] = c)
  <2>1. i \notin From(s, i + 1, c)
    BY <1>1, <1>4 DEF From
  <2>2. CASE s[i] = c
    <3>1. From(s, i, c) = From(s, i + 1, c) \union {i}
      BY <1>1, <1>4, <2>2 DEF From
    <3>2. QED
      BY <1>3, <2>1, <2>2, <3>1, FS_AddElement DEF One
  <2>3. CASE s[i] # c
    <3>1. From(s, i, c) = From(s, i + 1, c)
      BY <1>1, <1>4, <2>3 DEF From
    <3>2. QED
      BY <1>3, <2>3, <3>1 DEF One
  <2>4. QED
    BY <2>2, <2>3
<1>5. i = Len(s) + 1 => From(s, i, c) = {}
  BY <1>1 DEF From
<1>6. i = 1 => From(s, i, c) = {k \in DOMAIN s : s[k] = c}
  BY <1>1 DEF From
<1>7. QED
  BY <1>3, <1>4, <1>5, <1>6, FS_EmptySet DEF Count

\* The entries that take a clause away, and those that add it.
Gone(E, c) == {e \in E : e.before = c}
Come(E, c) == {e \in E : e.after = c}

\* Some of finitely many entries are finitely many.
LEMMA EntriesFinite ==
    ASSUME NEW E, IsFiniteSet(E), NEW c
    PROVE  /\ IsFiniteSet(Gone(E, c)) /\ Cardinality(Gone(E, c)) \in Nat
           /\ IsFiniteSet(Come(E, c)) /\ Cardinality(Come(E, c)) \in Nat
<1>1. Gone(E, c) \in SUBSET E /\ Come(E, c) \in SUBSET E
  BY DEF Gone, Come
<1>2. QED
  BY <1>1, FS_Subset, FS_CardinalityType

\* A new entry counts once, for the clause it takes away and for the one it adds.
LEMMA EntryMore ==
    ASSUME NEW E, IsFiniteSet(E), NEW e, e \notin E, NEW c
    PROVE  /\ Cardinality(Gone(E \union {e}, c)) = Cardinality(Gone(E, c)) + One(e.before = c)
           /\ Cardinality(Come(E \union {e}, c)) = Cardinality(Come(E, c)) + One(e.after = c)
<1>1. e \notin Gone(E, c) /\ e \notin Come(E, c)
  BY DEF Gone, Come
<1>2. Gone(E \union {e}, c) = IF e.before = c THEN Gone(E, c) \union {e} ELSE Gone(E, c)
  BY DEF Gone
<1>3. Come(E \union {e}, c) = IF e.after = c THEN Come(E, c) \union {e} ELSE Come(E, c)
  BY DEF Come
<1>4. /\ Cardinality(Gone(E, c) \union {e}) = Cardinality(Gone(E, c)) + 1
      /\ Cardinality(Come(E, c) \union {e}) = Cardinality(Come(E, c)) + 1
      /\ Cardinality(Gone(E, c)) \in Nat /\ Cardinality(Come(E, c)) \in Nat
  BY <1>1, EntriesFinite, FS_AddElement
<1>5. QED
  BY <1>2, <1>3, <1>4 DEF One

\* Lists whose clauses are told apart by their keys alone.
Alike(S) == \A x, y \in S : x.key = y.key => x = y

\* What the merge found from a point on is there, and balances the rest of the lists.
Found(b, a, E, at) ==
    \A e \in E :
        \/ \E k \in DOMAIN b : k >= at[1] /\ e = Entry("Removed", k, b[k], Absent)
        \/ \E k \in DOMAIN a : k >= at[2] /\ e = Entry("Added", k, Absent, a[k])

Balances(b, a, E, at, c) ==
    Cardinality(From(a, at[2], c)) + Cardinality(Gone(E, c))
        = Cardinality(From(b, at[1], c)) + Cardinality(Come(E, c))

MergedFrom(b, a, at) ==
    /\ IsFiniteSet(Rest(b, a)[at]) /\ Found(b, a, Rest(b, a)[at], at)
    /\ \A c : c # Absent => Balances(b, a, Rest(b, a)[at], at, c)

\* The fields of an entry.
LEMMA EntryIs ==
    ASSUME NEW change, NEW k, NEW x, NEW y
    PROVE  LET e == Entry(change, k, x, y)
           IN  e.change = change /\ e.at = k /\ e.before = x /\ e.after = y
BY DEF Entry

\* The merge balances from a point on when it does from every later one.
LEMMA MergeStep ==
    ASSUME NEW S, NEW b \in Seq(S), NEW a \in Seq(S), Comparable(S), Alike(S),
           NEW at \in Points(b, a),
           \A p \in Points(b, a) : Left(b, a, p) < Left(b, a, at) => MergedFrom(b, a, p)
    PROVE  MergedFrom(b, a, at)
<1> DEFINE i == at[1]
           j == at[2]
           E == Rest(b, a)[at]
           p == Precedes(b, i, a, j)
           q == Precedes(a, j, b, i)
           r == Equal(b, a, at)
           removed == Entry("Removed", i, b[i], Absent)
           added == Entry("Added", j, Absent, a[j])
           under == Rest(b, a)[<<i + 1, j>>]
           right == Rest(b, a)[<<i, j + 1>>]
           beyond == Rest(b, a)[<<i + 1, j + 1>>]
<1>1. i \in 1 .. Len(b) + 1 /\ j \in 1 .. Len(a) + 1 /\ Len(b) \in Nat /\ Len(a) \in Nat
      /\ DOMAIN b = 1 .. Len(b) /\ DOMAIN a = 1 .. Len(a)
  BY LenProperties DEF Points
<1>2. /\ p => i \in DOMAIN b /\ E = under \union {removed}
      /\ q => j \in DOMAIN a /\ E = right \union {added}
      /\ r => i \in DOMAIN b /\ j \in DOMAIN a /\ E = beyond
      /\ ~p /\ ~q /\ ~r => i = Len(b) + 1 /\ j = Len(a) + 1 /\ E = {}
  <2>1. E = Choice(b, a, Rest(b, a), at)
    BY RestIs
  <2>2. ChosenBy(b, a, Rest(b, a), at)
    BY ChoiceIs
  <2>3. /\ p => i \in DOMAIN b
        /\ q => j \in DOMAIN a
        /\ r => i \in DOMAIN b /\ j \in DOMAIN a
        /\ ~p /\ ~q /\ ~r => i = Len(b) + 1 /\ j = Len(a) + 1
    BY OneWay
  <2>4. /\ p => E = under \union {removed}
        /\ q => E = right \union {added}
        /\ r => E = beyond
        /\ ~p /\ ~q /\ ~r => E = {}
    BY <2>1, <2>2 DEF ChosenBy
  <2> HIDE DEF p, q, r, E, under, right, beyond, removed, added
  <2>5. QED
    BY <2>3, <2>4
<1>3. /\ p => MergedFrom(b, a, <<i + 1, j>>)
      /\ q => MergedFrom(b, a, <<i, j + 1>>)
      /\ r => MergedFrom(b, a, <<i + 1, j + 1>>)
  BY PointsAre DEF Equal
<1>4. \A x, y : <<x, y>>[1] = x /\ <<x, y>>[2] = y
  OBVIOUS
<1> HIDE DEF p, q, r
<1>5. CASE p
  <2>1. i \in DOMAIN b /\ i + 1 \in Nat /\ ~(i >= i + 1)
    BY <1>1, <1>2, <1>5
  <2>2. IsFiniteSet(under) /\ Found(b, a, under, <<i + 1, j>>)
        /\ \A c : c # Absent => Balances(b, a, under, <<i + 1, j>>, c)
    BY <1>3, <1>5 DEF MergedFrom
  <2>3. \A e \in under :
            \/ \E k \in DOMAIN b : k >= i + 1 /\ e = Entry("Removed", k, b[k], Absent)
            \/ \E k \in DOMAIN a : k >= j /\ e = Entry("Added", k, Absent, a[k])
    BY <1>4, <2>2 DEF Found
  <2>4. removed \notin under
    <3>1. removed.change = "Removed" /\ removed.at = i
      BY EntryIs
    <3>2. \A e \in under : e.change = "Removed" => e.at >= i + 1
      BY <2>3, EntryIs
    <3> HIDE DEF removed, under
    <3>3. QED
      BY <2>1, <3>1, <3>2
  <2>5. Found(b, a, E, at)
    <3>1. \A k \in DOMAIN b : k >= i + 1 => k >= i
      BY <1>1
    <3>2. i >= i
      BY <1>1
    <3>3. QED
      BY <1>2, <1>5, <2>1, <2>3, <3>1, <3>2 DEF Found
  <2>6. ASSUME NEW c, c # Absent PROVE Balances(b, a, E, at, c)
    <3>1. Cardinality(From(a, j, c)) + Cardinality(Gone(under, c))
            = Cardinality(From(b, i + 1, c)) + Cardinality(Come(under, c))
      BY <1>4, <2>2, <2>6 DEF Balances
    <3>2. removed.before = b[i] /\ removed.after = Absent
      BY EntryIs
    <3> HIDE DEF removed, under, E
    <3>3. /\ Cardinality(Gone(E, c)) = Cardinality(Gone(under, c)) + One(b[i] = c)
          /\ Cardinality(Come(E, c)) = Cardinality(Come(under, c)) + One(Absent = c)
      <4>1. /\ Cardinality(Gone(under \union {removed}, c)) = Cardinality(Gone(under, c)) + One(removed.before = c)
            /\ Cardinality(Come(under \union {removed}, c)) = Cardinality(Come(under, c)) + One(removed.after = c)
        BY <2>2, <2>4, EntryMore
      <4>2. E = under \union {removed}
        BY <1>2, <1>5
      <4>3. QED
        BY <3>2, <4>1, <4>2
    <3>4. Cardinality(From(b, i, c)) = Cardinality(From(b, i + 1, c)) + One(b[i] = c)
      BY <1>1, <2>1, FromIs
    <3>5. /\ Cardinality(From(a, j, c)) \in Nat /\ Cardinality(From(b, i + 1, c)) \in Nat
          /\ Cardinality(Gone(under, c)) \in Nat /\ Cardinality(Come(under, c)) \in Nat
      <4>1. i + 1 \in 1 .. Len(b) + 1
        BY <1>1, <2>1
      <4>2. QED
        BY <1>1, <2>2, <4>1, FromIs, EntriesFinite
    <3>6. One(b[i] = c) \in Nat /\ One(Absent = c) = 0
      BY <2>6 DEF One
    <3>7. Cardinality(From(a, j, c)) + Cardinality(Gone(E, c))
            = Cardinality(From(b, i, c)) + Cardinality(Come(E, c))
      <4> DEFINE x == Cardinality(From(a, j, c))
                 y == Cardinality(Gone(under, c))
                 u == Cardinality(From(b, i + 1, c))
                 v == Cardinality(Come(under, c))
                 d == One(b[i] = c)
      <4>1. x \in Nat /\ y \in Nat /\ u \in Nat /\ v \in Nat /\ d \in Nat /\ x + y = u + v
        BY <3>1, <3>5, <3>6
      <4>2. /\ Cardinality(Gone(E, c)) = y + d /\ Cardinality(From(b, i, c)) = u + d
            /\ Cardinality(Come(E, c)) = v + 0
        BY <3>3, <3>4, <3>6
      <4>3. ASSUME NEW g, NEW h, NEW k, g = y + d, h = v + 0, k = u + d PROVE x + g = k + h
        <5> HIDE DEF x, y, u, v, d
        <5>1. QED
          BY <4>1, <4>3
      <4>4. QED
        BY <4>2, <4>3
    <3>8. QED
      BY <3>7 DEF Balances
  <2>7. IsFiniteSet(E)
    <3>1. IsFiniteSet(under \union {removed})
      BY <2>2, FS_AddElement
    <3>2. QED
      BY <1>2, <1>5, <3>1
  <2>8. QED
    BY <2>5, <2>6, <2>7 DEF MergedFrom
<1>6. CASE q
  <2>1. j \in DOMAIN a /\ j + 1 \in Nat /\ ~(j >= j + 1)
    BY <1>1, <1>2, <1>6
  <2>2. IsFiniteSet(right) /\ Found(b, a, right, <<i, j + 1>>)
        /\ \A c : c # Absent => Balances(b, a, right, <<i, j + 1>>, c)
    BY <1>3, <1>6 DEF MergedFrom
  <2>3. \A e \in right :
            \/ \E k \in DOMAIN b : k >= i /\ e = Entry("Removed", k, b[k], Absent)
            \/ \E k \in DOMAIN a : k >= j + 1 /\ e = Entry("Added", k, Absent, a[k])
    BY <1>4, <2>2 DEF Found
  <2>4. added \notin right
    <3>1. added.change = "Added" /\ added.at = j
      BY EntryIs
    <3>2. \A e \in right : e.change = "Added" => e.at >= j + 1
      BY <2>3, EntryIs
    <3> HIDE DEF added, right
    <3>3. QED
      BY <2>1, <3>1, <3>2
  <2>5. Found(b, a, E, at)
    <3>1. \A k \in DOMAIN a : k >= j + 1 => k >= j
      BY <1>1
    <3>2. j >= j
      BY <1>1
    <3>3. QED
      BY <1>2, <1>6, <2>1, <2>3, <3>1, <3>2 DEF Found
  <2>6. ASSUME NEW c, c # Absent PROVE Balances(b, a, E, at, c)
    <3>1. Cardinality(From(a, j + 1, c)) + Cardinality(Gone(right, c))
            = Cardinality(From(b, i, c)) + Cardinality(Come(right, c))
      BY <1>4, <2>2, <2>6 DEF Balances
    <3>2. added.after = a[j] /\ added.before = Absent
      BY EntryIs
    <3> HIDE DEF added, right, E
    <3>3. /\ Cardinality(Gone(E, c)) = Cardinality(Gone(right, c)) + One(Absent = c)
          /\ Cardinality(Come(E, c)) = Cardinality(Come(right, c)) + One(a[j] = c)
      <4>1. /\ Cardinality(Gone(right \union {added}, c)) = Cardinality(Gone(right, c)) + One(added.before = c)
            /\ Cardinality(Come(right \union {added}, c)) = Cardinality(Come(right, c)) + One(added.after = c)
        BY <2>2, <2>4, EntryMore
      <4>2. E = right \union {added}
        BY <1>2, <1>6
      <4>3. QED
        BY <3>2, <4>1, <4>2
    <3>4. Cardinality(From(a, j, c)) = Cardinality(From(a, j + 1, c)) + One(a[j] = c)
      BY <1>1, <2>1, FromIs
    <3>5. /\ Cardinality(From(a, j + 1, c)) \in Nat /\ Cardinality(From(b, i, c)) \in Nat
          /\ Cardinality(Gone(right, c)) \in Nat /\ Cardinality(Come(right, c)) \in Nat
      <4>1. j + 1 \in 1 .. Len(a) + 1
        BY <1>1, <2>1
      <4>2. QED
        BY <1>1, <2>2, <4>1, FromIs, EntriesFinite
    <3>6. One(a[j] = c) \in Nat /\ One(Absent = c) = 0
      BY <2>6 DEF One
    <3>7. Cardinality(From(a, j, c)) + Cardinality(Gone(E, c))
            = Cardinality(From(b, i, c)) + Cardinality(Come(E, c))
      <4> DEFINE x == Cardinality(From(a, j + 1, c))
                 y == Cardinality(Gone(right, c))
                 u == Cardinality(From(b, i, c))
                 v == Cardinality(Come(right, c))
                 d == One(a[j] = c)
      <4>1. x \in Nat /\ y \in Nat /\ u \in Nat /\ v \in Nat /\ d \in Nat /\ x + y = u + v
        BY <3>1, <3>5, <3>6
      <4>2. /\ Cardinality(Gone(E, c)) = y + 0 /\ Cardinality(From(a, j, c)) = x + d
            /\ Cardinality(Come(E, c)) = v + d
        BY <3>3, <3>4, <3>6
      <4>3. ASSUME NEW g, NEW h, NEW k, g = y + 0, h = v + d, k = x + d PROVE k + g = u + h
        <5> HIDE DEF x, y, u, v, d
        <5>1. QED
          BY <4>1, <4>3
      <4>4. QED
        BY <4>2, <4>3
    <3>8. QED
      BY <3>7 DEF Balances
  <2>7. IsFiniteSet(E)
    <3>1. IsFiniteSet(right \union {added})
      BY <2>2, FS_AddElement
    <3>2. QED
      BY <1>2, <1>6, <3>1
  <2>8. QED
    BY <2>5, <2>6, <2>7 DEF MergedFrom
<1>7. CASE r
  <2>1. i \in DOMAIN b /\ j \in DOMAIN a /\ E = beyond
    BY <1>2, <1>7
  <2>2. IsFiniteSet(beyond) /\ Found(b, a, beyond, <<i + 1, j + 1>>)
        /\ \A c : c # Absent => Balances(b, a, beyond, <<i + 1, j + 1>>, c)
    BY <1>3, <1>7 DEF MergedFrom
  <2>3. b[i] = a[j]
    BY <1>7, <2>1, ElementOfSeq DEF r, Equal, Alike
  <2>4. Found(b, a, E, at)
    <3>1. /\ \A k \in DOMAIN b : k >= i + 1 => k >= i
          /\ \A k \in DOMAIN a : k >= j + 1 => k >= j
      BY <1>1
    <3>2. \A e \in beyond :
            \/ \E k \in DOMAIN b : k >= i + 1 /\ e = Entry("Removed", k, b[k], Absent)
            \/ \E k \in DOMAIN a : k >= j + 1 /\ e = Entry("Added", k, Absent, a[k])
      BY <1>4, <2>2 DEF Found
    <3>3. QED
      BY <2>1, <3>1, <3>2 DEF Found
  <2>5. ASSUME NEW c, c # Absent PROVE Balances(b, a, E, at, c)
    <3>1. Cardinality(From(a, j + 1, c)) + Cardinality(Gone(E, c))
            = Cardinality(From(b, i + 1, c)) + Cardinality(Come(E, c))
      BY <1>4, <2>1, <2>2, <2>5 DEF Balances
    <3>2. /\ Cardinality(From(a, j, c)) = Cardinality(From(a, j + 1, c)) + One(a[j] = c)
          /\ Cardinality(From(b, i, c)) = Cardinality(From(b, i + 1, c)) + One(a[j] = c)
      <4>1. i \in 1 .. Len(b) + 1 /\ j \in 1 .. Len(a) + 1
        BY <1>1
      <4>2. Cardinality(From(b, i, c)) = Cardinality(From(b, i + 1, c)) + One(b[i] = c)
        BY <2>1, <4>1, FromIs
      <4>3. Cardinality(From(a, j, c)) = Cardinality(From(a, j + 1, c)) + One(a[j] = c)
        BY <2>1, <4>1, FromIs
      <4>4. QED
        BY <2>3, <4>2, <4>3
    <3>3. /\ Cardinality(From(a, j + 1, c)) \in Nat /\ Cardinality(From(b, i + 1, c)) \in Nat
          /\ Cardinality(Gone(E, c)) \in Nat /\ Cardinality(Come(E, c)) \in Nat
      <4>1. i + 1 \in 1 .. Len(b) + 1 /\ j + 1 \in 1 .. Len(a) + 1
        BY <1>1, <2>1
      <4>2. IsFiniteSet(E)
        BY <2>1, <2>2
      <4> HIDE DEF E
      <4>3. QED
        BY <4>1, <4>2, FromIs, EntriesFinite
    <3>4. One(a[j] = c) \in Nat
      BY DEF One
    <3> HIDE DEF E
    <3>5. Cardinality(From(a, j, c)) + Cardinality(Gone(E, c))
            = Cardinality(From(b, i, c)) + Cardinality(Come(E, c))
      <4> DEFINE x == Cardinality(From(a, j + 1, c))
                 y == Cardinality(Gone(E, c))
                 u == Cardinality(From(b, i + 1, c))
                 v == Cardinality(Come(E, c))
                 d == One(a[j] = c)
      <4>1. x \in Nat /\ y \in Nat /\ u \in Nat /\ v \in Nat /\ d \in Nat /\ x + y = u + v
        BY <3>1, <3>3, <3>4
      <4>2. ASSUME NEW g, NEW h, g = x + d, h = u + d PROVE g + y = h + v
        <5> HIDE DEF x, y, u, v, d
        <5>1. QED
          BY <4>1, <4>2
      <4>3. QED
        BY <3>2, <4>2
    <3>6. QED
      BY <3>5 DEF Balances
  <2>6. QED
    BY <2>1, <2>2, <2>4, <2>5 DEF MergedFrom
<1>8. CASE ~p /\ ~q /\ ~r
  <2>1. i = Len(b) + 1 /\ j = Len(a) + 1 /\ E = {}
    BY <1>2, <1>8
  <2>2. ASSUME NEW c, c # Absent PROVE Balances(b, a, E, at, c)
    <3>1. Cardinality(From(a, j, c)) = 0 /\ Cardinality(From(b, i, c)) = 0
      BY <1>1, <2>1, FromIs
    <3>2. Gone(E, c) = {} /\ Come(E, c) = {}
      BY <2>1 DEF Gone, Come
    <3>3. QED
      BY <3>1, <3>2 DEF Balances
  <2>3. QED
    BY <2>1, <2>2, FS_EmptySet DEF MergedFrom, Found
<1>9. QED
  BY <1>5, <1>6, <1>7, <1>8

\* The differences of two lists of strings.
LEMMA MergeBalances ==
    ASSUME NEW S, NEW b \in Seq(S), NEW a \in Seq(S), Comparable(S), Alike(S)
    PROVE  LET E == Merge(b, a)
           IN  /\ IsFiniteSet(E)
               /\ \A e \in E :
                    \/ e.before \in {b[k] : k \in DOMAIN b} /\ e.after = Absent
                    \/ e.after \in {a[k] : k \in DOMAIN a} /\ e.before = Absent
               /\ \A c : c # Absent =>
                    Count(a, c) + Cardinality(Gone(E, c)) = Count(b, c) + Cardinality(Come(E, c))
<1> DEFINE P == Points(b, a)
           T == {k \in Nat : \A at \in P : Left(b, a, at) <= k => MergedFrom(b, a, at)}
           first == <<1, 1>>
           E == Merge(b, a)
<1>1. Len(b) \in Nat /\ Len(a) \in Nat /\ \A at \in P : Left(b, a, at) \in Nat
  BY LenProperties, PointsAre
<1>2. ASSUME NEW k \in Nat, \A at \in P : Left(b, a, at) < k => MergedFrom(b, a, at)
      PROVE  \A at \in P : Left(b, a, at) <= k => MergedFrom(b, a, at)
  <2> SUFFICES ASSUME NEW at \in P, Left(b, a, at) <= k PROVE MergedFrom(b, a, at)
    OBVIOUS
  <2>1. \A p \in P : Left(b, a, p) < Left(b, a, at) => MergedFrom(b, a, p)
    BY <1>1, <1>2
  <2>2. QED
    BY <2>1, MergeStep
<1>3. 0 \in T
  BY <1>1, <1>2
<1>4. \A k \in T : k + 1 \in T
  <2> TAKE k \in T
  <2>1. \A at \in P : Left(b, a, at) < k + 1 => MergedFrom(b, a, at)
    BY <1>1
  <2>2. QED
    BY <1>2, <2>1
<1> HIDE DEF T
<1>5. T = Nat
  BY <1>3, <1>4, AllNaturals DEF T
<1>6. first \in P
  BY <1>1 DEF Points
<1>7. MergedFrom(b, a, first)
  <2>1. Left(b, a, first) \in T
    BY <1>1, <1>5, <1>6
  <2>2. QED
    BY <1>1, <1>6, <2>1 DEF T
<1>8. /\ IsFiniteSet(E) /\ Found(b, a, E, first)
      /\ \A c : c # Absent => Balances(b, a, E, first, c)
  BY <1>7, MergeIs DEF MergedFrom
<1> HIDE DEF E
<1>9. \A e \in E :
        \/ \E k \in DOMAIN b : e = Entry("Removed", k, b[k], Absent)
        \/ \E k \in DOMAIN a : e = Entry("Added", k, Absent, a[k])
  BY <1>8 DEF Found
<1>10. \A e \in E :
        \/ e.before \in {b[k] : k \in DOMAIN b} /\ e.after = Absent
        \/ e.after \in {a[k] : k \in DOMAIN a} /\ e.before = Absent
  BY <1>9, EntryIs
<1>11. ASSUME NEW c, c # Absent
       PROVE  Count(a, c) + Cardinality(Gone(E, c)) = Count(b, c) + Cardinality(Come(E, c))
  <2>1. Cardinality(From(a, 1, c)) = Count(a, c) /\ Cardinality(From(b, 1, c)) = Count(b, c)
    <3>1. 1 \in 1 .. Len(a) + 1 /\ 1 \in 1 .. Len(b) + 1
      BY <1>1
    <3>2. QED
      BY <3>1, FromIs
  <2>2. QED
    BY <1>8, <1>11, <2>1 DEF Balances
<1>12. QED
  BY <1>8, <1>10, <1>11 DEF E

\* A diff replays: it tells of clauses there are, and takes one list to the other.
Replays(b, a, E) ==
    /\ IsFiniteSet(E)
    /\ \A e \in E : {e.before, e.after} \subseteq
            {b[k] : k \in DOMAIN b} \union {a[k] : k \in DOMAIN a} \union {Absent}
    /\ \A c : c # Absent =>
            Count(a, c) + Cardinality(Gone(E, c)) = Count(b, c) + Cardinality(Come(E, c))

\* diff_string_lists replays.
LEMMA StringsReplay ==
    ASSUME NEW S, NEW b \in Seq(S), NEW a \in Seq(S), Comparable(S), Alike(S)
    PROVE  Replays(b, a, DiffStrings(b, a))
<1> DEFINE x == Sorted(b)
           y == Sorted(a)
           E == Merge(x, y)
<1>1. /\ x \in Seq(S) /\ \A c : Count(x, c) = Count(b, c)
      /\ \A n \in DOMAIN x : \E k \in DOMAIN b : x[n] = b[k]
  BY SortedIs
<1>2. /\ y \in Seq(S) /\ \A c : Count(y, c) = Count(a, c)
      /\ \A n \in DOMAIN y : \E k \in DOMAIN a : y[n] = a[k]
  BY SortedIs
<1>3. DiffStrings(b, a) = E
  BY DEF DiffStrings
<1> HIDE DEF x, y
<1>4. /\ IsFiniteSet(E)
      /\ \A e \in E :
            \/ e.before \in {x[k] : k \in DOMAIN x} /\ e.after = Absent
            \/ e.after \in {y[k] : k \in DOMAIN y} /\ e.before = Absent
      /\ \A c : c # Absent =>
            Count(y, c) + Cardinality(Gone(E, c)) = Count(x, c) + Cardinality(Come(E, c))
  BY <1>1, <1>2, MergeBalances
<1> HIDE DEF E
<1>5. /\ {x[k] : k \in DOMAIN x} \subseteq {b[k] : k \in DOMAIN b}
      /\ {y[k] : k \in DOMAIN y} \subseteq {a[k] : k \in DOMAIN a}
  BY <1>1, <1>2
<1>6. QED
  BY <1>1, <1>2, <1>3, <1>4, <1>5 DEF Replays

-----------------------------------------------------------------------------
\* The pairs DiffKeyed makes.
Pairs(b, a) == {p \in Unique(b) \X Unique(a) : b[p[1]].key = a[p[2]].key}

\* The pairs are of places, no place is in two, and both clauses have the key.
LEMMA PairsAre ==
    ASSUME NEW b, NEW a
    PROVE  /\ \A p \in Pairs(b, a) : p[1] \in DOMAIN b /\ p[2] \in DOMAIN a
           /\ \A p, q \in Pairs(b, a) : p[1] = q[1] <=> p[2] = q[2]
           /\ \A p \in Pairs(b, a) : b[p[1]].key = a[p[2]].key
<1>1. ASSUME NEW p \in Pairs(b, a)
      PROVE  /\ p[1] \in DOMAIN b /\ p[2] \in DOMAIN a /\ b[p[1]].key = a[p[2]].key
             /\ \A k \in DOMAIN b : b[k].key = b[p[1]].key => k = p[1]
             /\ \A k \in DOMAIN a : a[k].key = a[p[2]].key => k = p[2]
  <2>1. p \in Unique(b) \X Unique(a) /\ b[p[1]].key = a[p[2]].key
    BY <1>1 DEF Pairs
  <2>2. p[1] \in Unique(b) /\ p[2] \in Unique(a)
    BY <2>1
  <2>3. p[1] \in DOMAIN b /\ \A k \in DOMAIN b : b[k].key = b[p[1]].key => k = p[1]
    BY <2>2 DEF Unique
  <2>4. p[2] \in DOMAIN a /\ \A k \in DOMAIN a : a[k].key = a[p[2]].key => k = p[2]
    BY <2>2 DEF Unique
  <2>5. QED
    BY <2>1, <2>2, <2>3, <2>4
<1>2. ASSUME NEW p \in Pairs(b, a), NEW q \in Pairs(b, a) PROVE p[1] = q[1] <=> p[2] = q[2]
  <2>1. /\ p[1] \in DOMAIN b /\ p[2] \in DOMAIN a /\ b[p[1]].key = a[p[2]].key
        /\ q[1] \in DOMAIN b /\ q[2] \in DOMAIN a /\ b[q[1]].key = a[q[2]].key
    BY <1>1
  <2>2. /\ \A k \in DOMAIN b : b[k].key = b[p[1]].key => k = p[1]
        /\ \A k \in DOMAIN a : a[k].key = a[p[2]].key => k = p[2]
    BY <1>1
  <2>3. QED
    BY <2>1, <2>2
<1>3. QED
  BY <1>1, <1>2

\* What is in no pair was removed or added, and what differs in one was modified.
LEMMA DiffKeyedIs ==
    ASSUME NEW b, NEW a
    PROVE  /\ \A i \in DOMAIN b : (\E p \in Pairs(b, a) : p[1] = i)
                                 \/ Entry("Removed", i, b[i], Absent) \in DiffKeyed(b, a)
           /\ \A j \in DOMAIN a : (\E p \in Pairs(b, a) : p[2] = j)
                                 \/ Entry("Added", j, Absent, a[j]) \in DiffKeyed(b, a)
           /\ \A p \in Pairs(b, a) :
                b[p[1]] = a[p[2]]
                \/ Entry("Modified", p[1], b[p[1]], a[p[2]]) \in DiffKeyed(b, a)
           /\ \A e \in DiffKeyed(b, a) : e.change \in {"Modified", "Removed", "Added"}
<1> DEFINE P == Pairs(b, a)
           M == {Entry("Modified", p[1], b[p[1]], a[p[2]]) : p \in {q \in P : b[q[1]] # a[q[2]]}}
           R == {Entry("Removed", i, b[i], Absent) : i \in {k \in DOMAIN b : \A p \in P : p[1] # k}}
           A == {Entry("Added", j, Absent, a[j]) : j \in {k \in DOMAIN a : \A p \in P : p[2] # k}}
<1>1. DiffKeyed(b, a) = M \union R \union A
  BY DEF DiffKeyed, Pairs
<1> HIDE DEF P
<1>2. \A e \in M : e.change = "Modified"
  BY DEF Entry
<1>3. \A e \in R : e.change = "Removed"
  BY DEF Entry
<1>4. \A e \in A : e.change = "Added"
  BY DEF Entry
<1>5. \A i \in DOMAIN b : (\E p \in P : p[1] = i) \/ Entry("Removed", i, b[i], Absent) \in R
  OBVIOUS
<1>6. \A j \in DOMAIN a : (\E p \in P : p[2] = j) \/ Entry("Added", j, Absent, a[j]) \in A
  OBVIOUS
<1>7. \A p \in P : b[p[1]] = a[p[2]] \/ Entry("Modified", p[1], b[p[1]], a[p[2]]) \in M
  OBVIOUS
<1> HIDE DEF M, R, A
<1>8. QED
  BY <1>1, <1>2, <1>3, <1>4, <1>5, <1>6, <1>7 DEF P

\* Pairs that match each of one set with one of the other.
Matching(M, S, T) ==
    /\ \A m \in M : m[1] \in S /\ m[2] \in T
    /\ \A s \in S : \E m \in M : m[1] = s
    /\ \A t \in T : \E m \in M : m[2] = t
    /\ \A m, n \in M : m[1] = n[1] <=> m[2] = n[2]

\* Matched sets are of one size.
LEMMA SameSize ==
    ASSUME NEW S, IsFiniteSet(S), NEW T, NEW M, Matching(M, S, T)
    PROVE  IsFiniteSet(T) /\ Cardinality(T) = Cardinality(S)
<1> USE DEF Matching
<1> DEFINE Of(s) == CHOOSE m \in M : m[1] = s
           f == [s \in S |-> Of(s)[2]]
<1>1. \A s \in S : Of(s) \in M /\ Of(s)[1] = s
  OBVIOUS
<1> HIDE DEF Of
<1>2. \A s \in S : f[s] = Of(s)[2] /\ f[s] \in T
  BY <1>1
<1>3. \A s, t \in S : f[s] = f[t] => s = t
  BY <1>1, <1>2
<1>4. \A t \in T : \E s \in S : f[s] = t
  <2> TAKE t \in T
  <2>1. PICK m \in M : m[2] = t
    OBVIOUS
  <2>2. m[1] \in S /\ Of(m[1])[2] = m[2]
    BY <1>1
  <2>3. QED
    BY <1>2, <2>1, <2>2
<1>5. f \in [S -> T]
  BY <1>2
<1> HIDE DEF f
<1>6. f \in Bijection(S, T)
  BY <1>3, <1>4, <1>5 DEF Bijection, Injection, Surjection, IsInjective
<1>7. QED
  BY <1>6, FS_Bijection DEF ExistsBijection

\* The image of a finite set is finite.
LEMMA ImageFinite ==
    ASSUME NEW S, IsFiniteSet(S), NEW f, DOMAIN f = S, f = [x \in S |-> f[x]]
    PROVE  IsFiniteSet({f[x] : x \in S})
<1>1. f \in Surjection(S, {f[x] : x \in S})
  BY DEF Surjection
<1>2. QED
  BY <1>1, FS_Surjection

\* The entries of a diff by keys, and only those.
LEMMA KeyedEntries ==
    ASSUME NEW b, NEW a, NEW e \in DiffKeyed(b, a)
    PROVE  \/ \E p \in Pairs(b, a) :
                b[p[1]] # a[p[2]] /\ e = Entry("Modified", p[1], b[p[1]], a[p[2]])
           \/ \E i \in DOMAIN b : /\ \A p \in Pairs(b, a) : p[1] # i
                                /\ e = Entry("Removed", i, b[i], Absent)
           \/ \E j \in DOMAIN a : /\ \A p \in Pairs(b, a) : p[2] # j
                                /\ e = Entry("Added", j, Absent, a[j])
<1> DEFINE P == Pairs(b, a)
           M == {Entry("Modified", p[1], b[p[1]], a[p[2]]) : p \in {q \in P : b[q[1]] # a[q[2]]}}
           R == {Entry("Removed", i, b[i], Absent) : i \in {k \in DOMAIN b : \A p \in P : p[1] # k}}
           A == {Entry("Added", j, Absent, a[j]) : j \in {k \in DOMAIN a : \A p \in P : p[2] # k}}
<1>1. DiffKeyed(b, a) = M \union R \union A
  BY DEF DiffKeyed, Pairs
<1> HIDE DEF P
<1>2. CASE e \in M
  BY <1>2 DEF P
<1>3. CASE e \in R
  BY <1>3 DEF P
<1>4. CASE e \in A
  BY <1>4 DEF P
<1> HIDE DEF M, R, A
<1>5. QED
  BY <1>1, <1>2, <1>3, <1>4

\* There are finitely many.
LEMMA KeyedFinite ==
    ASSUME NEW b, NEW a, IsFiniteSet(DOMAIN b), IsFiniteSet(DOMAIN a)
    PROVE  IsFiniteSet(DiffKeyed(b, a))
<1> DEFINE P == Pairs(b, a)
           X == {p \in P : b[p[1]] # a[p[2]]}
           m == [p \in P |-> Entry("Modified", p[1], b[p[1]], a[p[2]])]
           r == [i \in DOMAIN b |-> Entry("Removed", i, b[i], Absent)]
           d == [j \in DOMAIN a |-> Entry("Added", j, Absent, a[j])]
           M == {m[p] : p \in P}
           R == {r[i] : i \in DOMAIN b}
           A == {d[j] : j \in DOMAIN a}
<1>1. IsFiniteSet(P)
  <2>1. \A U, V, W, Z, F : /\ IsFiniteSet(U) /\ IsFiniteSet(V)
                           /\ W \subseteq U /\ Z \subseteq V /\ F \subseteq W \X Z
                           => IsFiniteSet(F)
    <3> TAKE U, V, W, Z, F
    <3> HAVE /\ IsFiniteSet(U) /\ IsFiniteSet(V)
             /\ W \subseteq U /\ Z \subseteq V /\ F \subseteq W \X Z
    <3>1. F \in SUBSET (U \X V)
      OBVIOUS
    <3>2. QED
      BY <3>1, FS_Product, FS_Subset
  <2>2. Unique(b) \subseteq DOMAIN b /\ Unique(a) \subseteq DOMAIN a
    BY DEF Unique
  <2>3. P \subseteq Unique(b) \X Unique(a)
    BY DEF Pairs
  <2> DEFINE U == DOMAIN b
             V == DOMAIN a
             W == Unique(b)
             Z == Unique(a)
  <2>4. IsFiniteSet(U) /\ IsFiniteSet(V) /\ W \subseteq U /\ Z \subseteq V /\ P \subseteq W \X Z
    BY <2>2, <2>3
  <2> HIDE DEF P, U, V, W, Z
  <2>5. QED
    BY <2>1, <2>4
<1> HIDE DEF P
<1>2. IsFiniteSet(M) /\ IsFiniteSet(R) /\ IsFiniteSet(A)
  <2>1. DOMAIN m = P /\ m = [p \in P |-> m[p]]
    OBVIOUS
  <2>2. DOMAIN r = DOMAIN b /\ r = [i \in DOMAIN b |-> r[i]]
    OBVIOUS
  <2>3. DOMAIN d = DOMAIN a /\ d = [j \in DOMAIN a |-> d[j]]
    OBVIOUS
  <2> HIDE DEF m, r, d
  <2>4. QED
    BY <1>1, <2>1, <2>2, <2>3, ImageFinite
<1>3. \A e \in DiffKeyed(b, a) : e \in M \union R \union A
  <2> TAKE e \in DiffKeyed(b, a)
  <2>1. ASSUME NEW p \in P, e = Entry("Modified", p[1], b[p[1]], a[p[2]]) PROVE e \in M
    BY <2>1
  <2>2. ASSUME NEW i \in DOMAIN b, e = Entry("Removed", i, b[i], Absent) PROVE e \in R
    BY <2>2
  <2>3. ASSUME NEW j \in DOMAIN a, e = Entry("Added", j, Absent, a[j]) PROVE e \in A
    BY <2>3
  <2> HIDE DEF M, R, A
  <2>4. QED
    BY <2>1, <2>2, <2>3, KeyedEntries DEF P
<1> HIDE DEF M, R, A
<1>4. IsFiniteSet(M \union R \union A)
  BY <1>2, FS_Union
<1>5. DiffKeyed(b, a) \in SUBSET (M \union R \union A)
  BY <1>3
<1>6. QED
  BY <1>4, <1>5, FS_Subset

\* diff_constraint_lists and the like replay: what is not matched is in the one
\* list and gone from the other, and what is matched and differs is modified.
LEMMA KeyedReplay ==
    ASSUME NEW S, NEW b \in Seq(S), NEW a \in Seq(S)
    PROVE  Replays(b, a, DiffKeyed(b, a))
<1> DEFINE P == Pairs(b, a)
           E == DiffKeyed(b, a)
           InPair(i) == \E p \in P : p[1] = i
           ToPair(j) == \E p \in P : p[2] = j
           Modified(e, p) == /\ e.change = "Modified" /\ e.at = p[1]
                             /\ e.before = b[p[1]] /\ e.after = a[p[2]]
           Removed(e) == /\ e.change = "Removed" /\ e.at \in DOMAIN b
                         /\ e.before = b[e.at] /\ e.after = Absent
           Added(e) == /\ e.change = "Added" /\ e.at \in DOMAIN a
                       /\ e.before = Absent /\ e.after = a[e.at]
<1>1. IsFiniteSet(DOMAIN b) /\ IsFiniteSet(DOMAIN a)
  <2>1. DOMAIN b = 1 .. Len(b) /\ DOMAIN a = 1 .. Len(a) /\ Len(b) \in Nat /\ Len(a) \in Nat
    BY LenProperties
  <2>2. QED
    BY <2>1, FS_Interval
<1>2. IsFiniteSet(E)
  BY <1>1, KeyedFinite
<1>3. /\ \A p \in P : p[1] \in DOMAIN b /\ p[2] \in DOMAIN a
      /\ \A p, q \in P : p[1] = q[1] <=> p[2] = q[2]
  BY PairsAre
<1>4. \A e \in E :
        /\ e = Entry(e.change, e.at, e.before, e.after)
        /\ \/ \E p \in P : b[p[1]] # a[p[2]] /\ Modified(e, p)
           \/ Removed(e) /\ ~InPair(e.at)
           \/ Added(e) /\ ~ToPair(e.at)
  <2> TAKE e \in E
  <2>1. ASSUME NEW p \in P, e = Entry("Modified", p[1], b[p[1]], a[p[2]])
        PROVE  e = Entry(e.change, e.at, e.before, e.after) /\ Modified(e, p)
    BY <2>1, EntryIs
  <2>2. ASSUME NEW i \in DOMAIN b, ~InPair(i), e = Entry("Removed", i, b[i], Absent)
        PROVE  e = Entry(e.change, e.at, e.before, e.after) /\ Removed(e) /\ ~InPair(e.at)
    BY <2>2, EntryIs
  <2>3. ASSUME NEW j \in DOMAIN a, ~ToPair(j), e = Entry("Added", j, Absent, a[j])
        PROVE  e = Entry(e.change, e.at, e.before, e.after) /\ Added(e) /\ ~ToPair(e.at)
    BY <2>3, EntryIs
  <2>4. \/ \E p \in P : b[p[1]] # a[p[2]] /\ e = Entry("Modified", p[1], b[p[1]], a[p[2]])
        \/ \E i \in DOMAIN b : ~InPair(i) /\ e = Entry("Removed", i, b[i], Absent)
        \/ \E j \in DOMAIN a : ~ToPair(j) /\ e = Entry("Added", j, Absent, a[j])
    BY KeyedEntries
  <2> HIDE DEF Modified, Removed, Added, InPair, ToPair, P
  <2>5. QED
    BY <2>1, <2>2, <2>3, <2>4
<1>5. /\ \A i \in DOMAIN b : InPair(i) \/ \E e \in E : Removed(e) /\ e.at = i
      /\ \A j \in DOMAIN a : ToPair(j) \/ \E e \in E : Added(e) /\ e.at = j
      /\ \A p \in P : b[p[1]] = a[p[2]] \/ \E e \in E : Modified(e, p)
  <2>1. ASSUME NEW i \in DOMAIN b, ~InPair(i) PROVE \E e \in E : Removed(e) /\ e.at = i
    <3>1. Entry("Removed", i, b[i], Absent) \in E
      BY <2>1, DiffKeyedIs
    <3>2. QED
      BY <3>1, EntryIs
  <2>2. ASSUME NEW j \in DOMAIN a, ~ToPair(j) PROVE \E e \in E : Added(e) /\ e.at = j
    <3>1. Entry("Added", j, Absent, a[j]) \in E
      BY <2>2, DiffKeyedIs
    <3>2. QED
      BY <3>1, EntryIs
  <2>3. ASSUME NEW p \in P, b[p[1]] # a[p[2]] PROVE \E e \in E : Modified(e, p)
    <3>1. Entry("Modified", p[1], b[p[1]], a[p[2]]) \in E
      BY <2>3, DiffKeyedIs
    <3>2. QED
      BY <3>1, EntryIs
  <2> HIDE DEF Modified, Removed, Added, InPair, ToPair
  <2>4. QED
    BY <2>1, <2>2, <2>3
<1> HIDE DEF P, E
<1>7. \A e \in E : {e.before, e.after} \subseteq
        {b[k] : k \in DOMAIN b} \union {a[k] : k \in DOMAIN a} \union {Absent}
  BY <1>3, <1>4
<1>8. ASSUME NEW c, c # Absent
      PROVE  Count(a, c) + Cardinality(Gone(E, c)) = Count(b, c) + Cardinality(Come(E, c))
  <2> DEFINE Kept == {p \in P : b[p[1]] = c /\ a[p[2]] = c}
             B == {i \in DOMAIN b : b[i] = c}
             A == {j \in DOMAIN a : a[j] = c}
             B1 == {p[1] : p \in Kept}
             A1 == {p[2] : p \in Kept}
  <2>1. IsFiniteSet(B) /\ IsFiniteSet(A) /\ B1 \subseteq B /\ A1 \subseteq A
    <3>1. B \in SUBSET DOMAIN b /\ A \in SUBSET DOMAIN a
      OBVIOUS
    <3>2. B1 \subseteq B /\ A1 \subseteq A
      BY <1>3
    <3> HIDE DEF B, A
    <3>3. QED
      BY <1>1, <3>1, <3>2, FS_Subset
  <2>2. IsFiniteSet(B1) /\ IsFiniteSet(A1) /\ IsFiniteSet(B \ B1) /\ IsFiniteSet(A \ A1)
    BY <2>1, FS_Subset
  <2>3. Cardinality(A1) = Cardinality(B1)
    <3>1. Matching(Kept, B1, A1)
      BY <1>3 DEF Matching
    <3> HIDE DEF Kept, A1, B1
    <3>2. QED
      BY <2>2, <3>1, SameSize
  <2>4. /\ Cardinality(B) = Cardinality(B1) + Cardinality(B \ B1)
        /\ Cardinality(A) = Cardinality(A1) + Cardinality(A \ A1)
        /\ Cardinality(B1) \in Nat /\ Cardinality(A1) \in Nat
        /\ Cardinality(B \ B1) \in Nat /\ Cardinality(A \ A1) \in Nat
    <3>1. B \intersect B1 = B1 /\ A \intersect A1 = A1
      BY <2>1
    <3> HIDE DEF B, A, B1, A1
    <3>2. /\ Cardinality(B \ B1) = Cardinality(B) - Cardinality(B1)
          /\ Cardinality(A \ A1) = Cardinality(A) - Cardinality(A1)
      <4>1. /\ Cardinality(B \ B1) = Cardinality(B) - Cardinality(B \intersect B1)
            /\ Cardinality(A \ A1) = Cardinality(A) - Cardinality(A \intersect A1)
        BY <2>1, FS_Difference
      <4>2. QED
        BY <3>1, <4>1
    <3>3. /\ Cardinality(B1) \in Nat /\ Cardinality(A1) \in Nat
          /\ Cardinality(B) \in Nat /\ Cardinality(A) \in Nat
          /\ Cardinality(B \ B1) \in Nat /\ Cardinality(A \ A1) \in Nat
      BY <2>1, <2>2, FS_CardinalityType
    <3>4. QED
      BY <3>2, <3>3
  <2>5. Cardinality(Gone(E, c)) = Cardinality(B \ B1)
    <3> DEFINE G == {<<e.at, e>> : e \in Gone(E, c)}
               Z == B \ B1
    <3>1. \A e \in Gone(E, c) :
            /\ e \in E /\ e.before = c
            /\ \/ \E p \in P : b[p[1]] # a[p[2]] /\ Modified(e, p)
               \/ Removed(e) /\ ~InPair(e.at)
      BY <1>4, <1>8 DEF Gone
    <3>2. \A e \in Gone(E, c) : e.at \in Z
      BY <1>3, <3>1
    <3>3. \A e, f \in Gone(E, c) : e.at = f.at => e = f
      <4> TAKE e, f \in Gone(E, c)
      <4>1. e = Entry(e.change, e.at, e.before, e.after)
            /\ f = Entry(f.change, f.at, f.before, f.after)
        BY <1>4, <3>1
      <4>2. e.at = f.at => e.change = f.change /\ e.before = f.before /\ e.after = f.after
        BY <1>3, <3>1
      <4>3. QED
        BY <4>1, <4>2
    <3>4. \A i \in Z : \E e \in Gone(E, c) : e.at = i
      <4> TAKE i \in Z
      <4>1. CASE InPair(i)
        <5>1. PICK p \in P : p[1] = i
          BY <4>1
        <5>2. b[p[1]] # a[p[2]]
          BY <5>1
        <5>3. QED
          BY <1>5, <5>1, <5>2 DEF Gone
      <4>2. CASE ~InPair(i)
        BY <1>5, <4>2 DEF Gone
      <4>3. QED
        BY <4>1, <4>2
    <3> HIDE DEF Z
    <3>5. Matching(G, Z, Gone(E, c))
      <4> DEFINE T == Gone(E, c)
      <4>1. /\ \A e \in T : e.at \in Z
            /\ \A e, f \in T : e.at = f.at => e = f
            /\ \A i \in Z : \E e \in T : e.at = i
        BY <3>2, <3>3, <3>4
      <4> HIDE DEF T
      <4>2. /\ \A m \in G : \E e \in T : m[1] = e.at /\ m[2] = e
            /\ \A e \in T : \E m \in G : m[1] = e.at /\ m[2] = e
        <5>1. G = {<<e.at, e>> : e \in T}
          BY DEF T
        <5>2. \A e \in T : <<e.at, e>> \in G
          BY <5>1
        <5>3. ASSUME NEW m \in G PROVE \E e \in T : m[1] = e.at /\ m[2] = e
          <6>1. PICK e \in T : m = <<e.at, e>>
            BY <5>1
          <6>2. \A x, y : <<x, y>>[1] = x /\ <<x, y>>[2] = y
            OBVIOUS
          <6>3. QED
            BY <6>1, <6>2
        <5>4. ASSUME NEW e \in T PROVE \E m \in G : m[1] = e.at /\ m[2] = e
          <6>1. <<e.at, e>>[1] = e.at /\ <<e.at, e>>[2] = e
            OBVIOUS
          <6>2. QED
            BY <5>2, <6>1
        <5> HIDE DEF G
        <5>5. QED
          BY <5>3, <5>4
      <4> HIDE DEF G
      <4>3. QED
        BY <4>1, <4>2 DEF Matching, T
    <3> HIDE DEF G
    <3>6. IsFiniteSet(Z)
      BY <2>2 DEF Z
    <3>7. Cardinality(Gone(E, c)) = Cardinality(Z)
      BY <3>5, <3>6, SameSize
    <3>8. QED
      BY <3>7 DEF Z
  <2>6. Cardinality(Come(E, c)) = Cardinality(A \ A1)
    <3> DEFINE Stands(e, j) == \/ e.change = "Modified" /\ \E p \in P : p[1] = e.at /\ p[2] = j
                               \/ e.change = "Added" /\ e.at = j
               Z == A \ A1
               G == {m \in Z \X Come(E, c) : Stands(m[2], m[1])}
    <3>1. \A e \in Come(E, c) :
            /\ e \in E /\ e.after = c
            /\ \/ \E p \in P : b[p[1]] # a[p[2]] /\ Modified(e, p)
               \/ Added(e) /\ ~ToPair(e.at)
      BY <1>4, <1>8 DEF Come
    <3>2. \A e \in Come(E, c) : \E j \in Z : Stands(e, j)
      BY <1>3, <3>1
    <3>3. \A e \in Come(E, c) : \A j, k \in Z : Stands(e, j) /\ Stands(e, k) => j = k
      BY <1>3
    <3>4. \A e, f \in Come(E, c) : \A j \in Z : Stands(e, j) /\ Stands(f, j) => e = f
      <4> TAKE e, f \in Come(E, c)
      <4> TAKE j \in Z
      <4>1. e = Entry(e.change, e.at, e.before, e.after)
            /\ f = Entry(f.change, f.at, f.before, f.after)
        BY <1>4, <3>1
      <4>2. ASSUME Stands(e, j), Stands(f, j)
            PROVE  e.at = f.at /\ e.change = f.change /\ e.before = f.before /\ e.after = f.after
        BY <1>3, <3>1, <4>2
      <4>3. QED
        BY <4>1, <4>2
    <3>5. \A j \in Z : \E e \in Come(E, c) : Stands(e, j)
      <4> TAKE j \in Z
      <4>1. CASE ToPair(j)
        <5>1. PICK p \in P : p[2] = j
          BY <4>1
        <5>2. b[p[1]] # a[p[2]]
          BY <5>1
        <5>3. QED
          BY <1>5, <5>1, <5>2 DEF Come
      <4>2. CASE ~ToPair(j)
        BY <1>5, <4>2 DEF Come
      <4>3. QED
        BY <4>1, <4>2
    <3> HIDE DEF Z, Stands
    <3>6. Matching(G, Z, Come(E, c))
      <4> DEFINE T == Come(E, c)
      <4>1. /\ \A e \in T : \E j \in Z : Stands(e, j)
            /\ \A e \in T : \A j, k \in Z : Stands(e, j) /\ Stands(e, k) => j = k
            /\ \A e, f \in T : \A j \in Z : Stands(e, j) /\ Stands(f, j) => e = f
            /\ \A j \in Z : \E e \in T : Stands(e, j)
        BY <3>2, <3>3, <3>4, <3>5
      <4>2. /\ \A m \in G : m[1] \in Z /\ m[2] \in T /\ Stands(m[2], m[1])
            /\ \A j \in Z, e \in T : Stands(e, j) => \E m \in G : m[1] = j /\ m[2] = e
        <5>1. G = {m \in Z \X T : Stands(m[2], m[1])}
          OBVIOUS
        <5>2. ASSUME NEW j \in Z, NEW e \in T, Stands(e, j) PROVE \E m \in G : m[1] = j /\ m[2] = e
          <6>1. <<j, e>> \in G
            BY <5>1, <5>2
          <6>2. QED
            BY <6>1
        <5> HIDE DEF G, T
        <5>3. QED
          BY <5>1, <5>2
      <4> HIDE DEF G, T
      <4>3. QED
        BY <4>1, <4>2 DEF Matching, T
    <3> HIDE DEF G
    <3>7. IsFiniteSet(Z)
      BY <2>2 DEF Z
    <3>8. Cardinality(Come(E, c)) = Cardinality(Z)
      BY <3>6, <3>7, SameSize
    <3>9. QED
      BY <3>8 DEF Z
  <2>7. Count(a, c) = Cardinality(A) /\ Count(b, c) = Cardinality(B)
    BY DEF Count
  <2> HIDE DEF B, A, B1, A1
  <2>8. QED
    BY <2>3, <2>4, <2>5, <2>6, <2>7
<1>9. QED
  BY <1>2, <1>7, <1>8 DEF Replays, E

-----------------------------------------------------------------------------
\* Lists without a difference have the same clauses, each as often.
LEMMA EmptyMeansSame ==
    ASSUME NEW S, NEW b \in Seq(S), NEW a \in Seq(S), DiffKeyed(b, a) = {}, NEW c
    PROVE  Count(b, c) = Count(a, c)
<1> DEFINE P == Pairs(b, a)
           To(i) == CHOOSE p \in P : p[1] = i
           Back(j) == CHOOSE p \in P : p[2] = j
           to == [i \in DOMAIN b |-> To(i)[2]]
           from == [j \in DOMAIN a |-> Back(j)[1]]
<1>1. /\ \A p \in P : p[1] \in DOMAIN b /\ p[2] \in DOMAIN a
      /\ \A p, q \in P : p[1] = q[1] <=> p[2] = q[2]
  BY PairsAre
<1>2. /\ \A i \in DOMAIN b : \E p \in P : p[1] = i
      /\ \A j \in DOMAIN a : \E p \in P : p[2] = j
      /\ \A p \in P : b[p[1]] = a[p[2]]
  BY DiffKeyedIs
<1> HIDE DEF P
<1>3. /\ \A i \in DOMAIN b : To(i) \in P /\ To(i)[1] = i
      /\ \A j \in DOMAIN a : Back(j) \in P /\ Back(j)[2] = j
  BY <1>2
<1> HIDE DEF To, Back
<1>4. Placed(b, a, to)
  <2>1. \A i \in DOMAIN b : to[i] = To(i)[2] /\ To(i) \in P /\ To(i)[1] = i
    BY <1>3
  <2>2. \A i \in DOMAIN b : to[i] \in DOMAIN a /\ a[to[i]] = b[i]
    BY <2>1, <1>1, <1>2
  <2>3. \A i, k \in DOMAIN b : to[i] = to[k] => i = k
    BY <2>1, <1>1
  <2> HIDE DEF to
  <2>4. QED
    BY <2>2, <2>3 DEF Placed
<1>8. Placed(a, b, from)
  <2>1. \A j \in DOMAIN a : from[j] = Back(j)[1] /\ Back(j) \in P /\ Back(j)[2] = j
    BY <1>3
  <2>2. \A j \in DOMAIN a : from[j] \in DOMAIN b /\ b[from[j]] = a[j]
    BY <2>1, <1>1, <1>2
  <2>3. \A j, k \in DOMAIN a : from[j] = from[k] => j = k
    BY <2>1, <1>1
  <2> HIDE DEF from
  <2>4. QED
    BY <2>2, <2>3 DEF Placed
<1> HIDE DEF to, from
<1>5. Count(b, c) <= Count(a, c) /\ Count(a, c) <= Count(b, c)
  BY <1>4, <1>8, CountsGrow
<1>6. Count(a, c) \in Nat /\ Count(b, c) \in Nat
  BY CountIsNat
<1>7. QED
  BY <1>5, <1>6

\* Where a key determines the clause, only a removal takes one away.
LEMMA RemovedOrKept ==
    ASSUME NEW S, NEW b \in Seq(S), NEW a \in Seq(S), NEW c,
           \A x, y \in S : x.key = y.key => x = y,
           \A e \in DiffKeyed(b, a) : e.change # "Removed"
    PROVE  Count(b, c) <= Count(a, c)
<1> DEFINE P == Pairs(b, a)
<1>1. /\ \A p \in P : p[1] \in DOMAIN b /\ p[2] \in DOMAIN a /\ b[p[1]].key = a[p[2]].key
      /\ \A p, q \in P : p[1] = q[1] <=> p[2] = q[2]
  BY PairsAre
<1>2. \A i \in DOMAIN b : \E p \in P : p[1] = i
  <2>1. \A i : Entry("Removed", i, b[i], Absent).change = "Removed"
    BY DEF Entry
  <2>2. QED
    BY <2>1, DiffKeyedIs
<1> HIDE DEF P
<1>3. \A p \in P : b[p[1]] = a[p[2]]
  <2>1. \A i \in DOMAIN b : b[i] \in S
    BY ElementOfSeq, LenProperties
  <2>2. \A j \in DOMAIN a : a[j] \in S
    BY ElementOfSeq, LenProperties
  <2>3. QED
    BY <1>1, <2>1, <2>2
<1> DEFINE To(i) == CHOOSE p \in P : p[1] = i
           to == [i \in DOMAIN b |-> To(i)[2]]
<1>4. \A i \in DOMAIN b : To(i) \in P /\ To(i)[1] = i
  BY <1>2
<1> HIDE DEF To
<1>5. Placed(b, a, to)
  BY <1>1, <1>3, <1>4 DEF Placed
<1> HIDE DEF to
<1>6. QED
  BY <1>5, CountsGrow

-----------------------------------------------------------------------------
(* Severities. *)

Changed == {"Modified", "Removed", "Added"}

\* Every entry has a severity, a change of an approval rule by what it is.
LEMMA EntryLevels ==
    ASSUME NEW e, NEW l
    PROVE  /\ ClauseSeverity(e) \in 0..3
           /\ ActionSeverity(l, e) \in 0..3
           /\ e.change = "Removed" => ActionSeverity("forbidden_actions", e) = 3
           /\ e.change \in Changed => RuleSeverity(e) \in 0..3
           /\ e.change = "Removed" => RuleSeverity(e) = 3
<1> USE DEF Medium, High, Critical
<1>1. ClauseSeverity(e) \in 0..3
  BY DEF ClauseSeverity
<1>2. ActionSeverity(l, e) \in 0..3
  BY DEF ActionSeverity
<1>3. e.change = "Removed" => ActionSeverity("forbidden_actions", e) = 3
  BY DEF ActionSeverity
<1>4. e.change \in Changed => RuleSeverity(e) \in 0..3
  BY DEF RuleSeverity, Changed
<1>5. e.change = "Removed" => RuleSeverity(e) = 3
  BY DEF RuleSeverity
<1>6. QED
  BY <1>1, <1>2, <1>3, <1>4, <1>5

\* A floor that applies is reached, and nothing is lowered.
LEMMA AtLeastIs ==
    ASSUME NEW floor \in 0..3, NEW changed \in BOOLEAN, NEW severity \in 0..3
    PROVE  /\ AtLeast(floor, changed, severity) \in 0..3
           /\ AtLeast(floor, changed, severity) >= severity
           /\ changed => AtLeast(floor, changed, severity) >= floor
<1>1. Highest({floor, severity}) \in 0..3
      /\ \A x \in {floor, severity} : x <= Highest({floor, severity})
  BY HighestIs
<1>2. QED
  BY <1>1 DEF AtLeast

\* The severities of the authority: High when it changes at all, Critical when a
\* prohibition or an approval rule goes.
LEMMA AuthorityLevel ==
    ASSUME NEW D, \A e \in D["approval_requirements"] : e.change \in Changed
    PROVE  /\ AuthoritySeverity(D) \in 0..3
           /\ (\E l \in ListsOf.authority : D[l] # {}) => AuthoritySeverity(D) >= 2
           /\ (\E e \in D["forbidden_actions"] \union D["approval_requirements"] : e.change = "Removed")
                => AuthoritySeverity(D) = 3
<1> DEFINE R == {RuleSeverity(e) : e \in D["approval_requirements"]}
           A == UNION {{ActionSeverity(l, e) : e \in D[l]} : l \in ActionLists}
           changed == \E l \in ListsOf.authority : D[l] # {}
           highest == Highest(R \union A)
<1>1. R \in SUBSET (0..3)
  BY EntryLevels
<1>2. A \in SUBSET (0..3)
  <2>1. \A l \in ActionLists : {ActionSeverity(l, e) : e \in D[l]} \subseteq 0..3
    BY EntryLevels
  <2>2. QED
    BY <2>1
<1>3. \A e \in D["approval_requirements"] : e.change = "Removed" => 3 \in R
  BY EntryLevels
<1>4. \A e \in D["forbidden_actions"] : e.change = "Removed" => 3 \in A
  <2> DEFINE F == {ActionSeverity("forbidden_actions", e) : e \in D["forbidden_actions"]}
  <2>1. "forbidden_actions" \in ActionLists
    BY DEF ActionLists
  <2>2. F \subseteq A
    BY <2>1
  <2>3. \A e \in D["forbidden_actions"] : e.change = "Removed" => 3 \in F
    BY EntryLevels
  <2>4. QED
    BY <2>2, <2>3
<1>5. AuthoritySeverity(D) = AtLeast(2, changed, highest)
  BY DEF AuthoritySeverity, High
<1> HIDE DEF R, A
<1>6. highest \in 0..3 /\ \A x \in R \union A : x <= highest
  BY <1>1, <1>2, HighestIs
<1> HIDE DEF highest
<1>7. changed \in BOOLEAN
  OBVIOUS
<1> HIDE DEF changed
<1>8. /\ AtLeast(2, changed, highest) \in 0..3
      /\ AtLeast(2, changed, highest) >= highest
      /\ changed => AtLeast(2, changed, highest) >= 2
  BY <1>6, <1>7, AtLeastIs
<1>9. (\E e \in D["forbidden_actions"] \union D["approval_requirements"] : e.change = "Removed")
        => 3 <= highest
  BY <1>3, <1>4, <1>6
<1>10. changed => AuthoritySeverity(D) >= 2
  BY <1>5, <1>8
<1>11. AuthoritySeverity(D) \in 0..3
  BY <1>5, <1>8
<1>12. highest = 3 => AuthoritySeverity(D) = 3
  BY <1>5, <1>8
<1>13. (\E l \in ListsOf.authority : D[l] # {}) => changed
  BY DEF changed
<1>14. (\E e \in D["forbidden_actions"] \union D["approval_requirements"] : e.change = "Removed")
        => highest = 3
  BY <1>6, <1>9
<1>15. QED
  BY <1>10, <1>11, <1>12, <1>13, <1>14

\* Of a list of constraints or criteria; a changed policy is High at least.
LEMMA ListLevel ==
    ASSUME NEW d, NEW l
    PROVE  /\ ConstraintSeverity(l, d) \in 0..3
           /\ d # {} => ConstraintSeverity("policy", d) >= 2
           /\ CriterionSeverity(l, d) \in 0..3
<1> DEFINE C == {ClauseSeverity(e) : e \in d}
           highest == Highest(C)
           changed == d # {}
           required == l = "required" /\ d # {}
<1>1. C \in SUBSET (0..3)
  BY EntryLevels
<1> HIDE DEF C
<1>2. highest \in 0..3 /\ changed \in BOOLEAN /\ required \in BOOLEAN
  BY <1>1, HighestIs
<1>3. PolicySeverity(d) \in {3, AtLeast(2, changed, highest)}
  BY DEF PolicySeverity, Critical, High, C
<1>4. ConstraintSeverity(l, d) \in {PolicySeverity(d), highest}
  BY DEF ConstraintSeverity, C
<1>5. ConstraintSeverity("policy", d) = PolicySeverity(d)
  BY DEF ConstraintSeverity
<1>6. CriterionSeverity(l, d) = AtLeast(1, required, highest)
  BY DEF CriterionSeverity, Medium, C
<1>7. d # {} => changed
  OBVIOUS
<1> HIDE DEF highest, changed, required
<1>8. /\ AtLeast(2, changed, highest) \in 0..3
      /\ changed => AtLeast(2, changed, highest) >= 2
      /\ AtLeast(1, required, highest) \in 0..3
  BY <1>2, AtLeastIs
<1>9. PolicySeverity(d) \in 0..3 /\ (changed => PolicySeverity(d) >= 2)
  BY <1>3, <1>8
<1>10. QED
  BY <1>2, <1>4, <1>5, <1>6, <1>7, <1>8, <1>9

\* Of a section: each has one, and that of the constraints is that of the policy at
\* least.
LEMMA SectionLevel ==
    ASSUME NEW D, \A e \in D["approval_requirements"] : e.change \in Changed
    PROVE  /\ \A s \in Sections : SectionSeverity(s, D) \in 0..3
           /\ {"constraints", "authority"} \subseteq Sections
           /\ D["policy"] # {} => SectionSeverity("constraints", D) >= 2
           /\ SectionSeverity("authority", D) = AuthoritySeverity(D)
<1> DEFINE K == {ConstraintSeverity(l, D[l]) : l \in ConstraintLists}
           Q == {CriterionSeverity(l, D[l]) : l \in CriteriaLists}
           changed == \E l \in ScopeLists : D[l] # {}
<1>1. K \in SUBSET (0..3) /\ Q \in SUBSET (0..3)
  BY ListLevel
<1>2. D["policy"] # {} => \E x \in K : x >= 2
  <2>1. "policy" \in ConstraintLists
    BY DEF ConstraintLists
  <2>2. D["policy"] # {} => ConstraintSeverity("policy", D["policy"]) >= 2
    BY ListLevel
  <2>3. QED
    BY <2>1, <2>2
<1>3. Sections = {"scope", "constraints", "acceptance_criteria", "authority"}
  BY DEF Sections, ListsOf
<1>4. /\ SectionSeverity("scope", D) = AtLeast(1, changed, 0)
      /\ SectionSeverity("constraints", D) = Highest(K)
      /\ SectionSeverity("acceptance_criteria", D) = Highest(Q)
      /\ SectionSeverity("authority", D) = AuthoritySeverity(D)
  BY DEF SectionSeverity, Medium, Low
<1>5. changed \in BOOLEAN
  OBVIOUS
<1> HIDE DEF K, Q, changed
<1>6. /\ Highest(K) \in 0..3 /\ \A x \in K : x <= Highest(K)
      /\ Highest(Q) \in 0..3
  BY <1>1, HighestIs
<1>7. AtLeast(1, changed, 0) \in 0..3
  BY <1>5, AtLeastIs
<1>8. AuthoritySeverity(D) \in 0..3
  BY AuthorityLevel
<1>9. D["policy"] # {} => Highest(K) >= 2
  BY <1>1, <1>2, <1>6
<1>10. QED
  BY <1>3, <1>4, <1>6, <1>7, <1>8, <1>9

\* The plan's tier is the highest severity of a section.
LEMMA TierIs ==
    ASSUME NEW D, \A e \in D["approval_requirements"] : e.change \in Changed
    PROVE  /\ Risk(D).severity \in 0..3
           /\ \A s \in Sections : SectionSeverity(s, D) <= Risk(D).severity
<1> DEFINE of == [s \in Sections |-> SectionSeverity(s, D)]
           S == {of[s] : s \in Sections}
<1>1. Risk(D).severity = Highest(S)
  BY DEF Risk
<1>2. S \in SUBSET (0..3) /\ \A s \in Sections : SectionSeverity(s, D) \in S
  BY SectionLevel
<1> HIDE DEF S
<1>3. QED
  BY <1>1, <1>2, HighestIs

\* A change of High severity is not applied without a human, a Critical one is of
\* class E.
LEMMA GateIs ==
    ASSUME NEW D, ~IsDiffEmpty(D), Risk(D).severity \in {2, 3}
    PROVE  /\ PlanOf(D).gate = "blocked"
           /\ Risk(D).severity = 3 => PlanOf(D).decision_class = "E"
<1> DEFINE risk == Risk(D)
           class == DecisionClass(D, risk)
<1>1. PlanOf(D).gate = Gate(risk.severity, class) /\ PlanOf(D).decision_class = class
  BY DEF PlanOf
<1>2. risk.severity \in {2, 3}
  OBVIOUS
<1> HIDE DEF risk
<1>3. risk.severity = 3 => class = "E"
  BY DEF DecisionClass, Critical, High, Medium
<1>4. class # "A"
  BY <1>2 DEF DecisionClass, Critical, High, Medium
<1> HIDE DEF class
<1>5. Gate(risk.severity, class) = "blocked"
  BY <1>2, <1>4 DEF Gate, Medium
<1>6. QED
  BY <1>1, <1>3, <1>5 DEF risk

-----------------------------------------------------------------------------
(* The versions and their plan. *)

\* A list that is not of the scope is compared by key.
LEMMA DiffIs ==
    ASSUME NEW l \in Lists, l \notin ScopeLists
    PROVE  Diff(base, head)[l] = DiffKeyed(base[l], head[l])
BY DEF Diff

\* The lists of the authority, which like those of the policies are matched by key.
LEMMA ListsAre ==
    /\ ListsOf.authority = {"allowed_actions", "forbidden_actions", "approval_requirements"}
    /\ ListsOf.authority \union {"policy"} \subseteq Lists
    /\ \A l \in ListsOf.authority \union {"policy"} : l \notin ScopeLists
<1>1. ListsOf.authority = {"allowed_actions", "forbidden_actions", "approval_requirements"}
  BY DEF ListsOf, ActionLists, RuleLists
<1>2. "policy" \in ListsOf.constraints
  BY DEF ListsOf, ConstraintLists
<1>3. "authority" \in Sections /\ "constraints" \in Sections
  BY DEF Sections, ListsOf
<1>4. ListsOf["authority"] \subseteq Lists /\ ListsOf["constraints"] \subseteq Lists
  BY <1>3 DEF Lists
<1>5. QED
  BY <1>1, <1>2, <1>4 DEF ScopeLists

\* Clauses written into a version leave it one.
LEMMA WrittenVersion ==
    ASSUME NEW v, Version(v), NEW l, NEW c \in Clauses(l)
    PROVE  Version([v EXCEPT ![l] = Append(@, c)])
<1> DEFINE w == [v EXCEPT ![l] = Append(@, c)]
<1>1. DOMAIN v = Lists
  BY DEF Version
<1>2. w = [k \in Lists |-> w[k]]
  BY <1>1, Zenon
<1>3. ASSUME NEW k \in Lists PROVE w[k] \in Seq(Clauses(k))
  <2>1. v[k] \in Seq(Clauses(k))
    BY DEF Version
  <2>2. CASE k = l
    <3>1. w[k] = Append(v[k], c)
      BY <1>1, <2>2
    <3>2. QED
      BY <2>1, <2>2, <3>1, AppendProperties
  <2>3. CASE k # l
    BY <1>1, <2>1, <2>3
  <2>4. QED
    BY <2>2, <2>3
<1>4. QED
  BY <1>2, <1>3 DEF Version

\* The invariant of the engine holds at first,
LEMMA EngineOKInit == EngineInit => EngineOK
<1> SUFFICES ASSUME EngineInit PROVE EngineOK
  OBVIOUS
<1>1. \A S : <<>> \in Seq(S)
  BY EmptySeq
<1>2. Version(Blank)
  BY <1>1 DEF Version, Blank
<1>3. QED
  BY <1>2 DEF EngineInit, EngineOK

\* and is kept by every step: clauses are written before there is a plan.
LEMMA EngineOKStep == EngineOK /\ [EngineNext]_engineVars => EngineOK'
<1> SUFFICES ASSUME EngineOK, [EngineNext]_engineVars PROVE EngineOK'
  OBVIOUS
<1>1. ASSUME NEW l \in Written, NEW c \in Clauses(l), WriteBase(l, c)
      PROVE  EngineOK'
  <2>1. Version(base') /\ Version(head')
    BY <1>1, WrittenVersion DEF EngineOK, WriteBase
  <2>2. plan' = Absent
    BY <1>1 DEF WriteBase
  <2>3. QED
    BY <2>1, <2>2 DEF EngineOK, Version
<1>2. ASSUME NEW l \in Written, NEW c \in Clauses(l), WriteHead(l, c)
      PROVE  EngineOK'
  <2>1. Version(base') /\ Version(head')
    BY <1>2, WrittenVersion DEF EngineOK, WriteHead
  <2>2. plan' = Absent
    BY <1>2 DEF WriteHead
  <2>3. QED
    BY <2>1, <2>2 DEF EngineOK, Version
<1>3. CASE ComputePlan
  <2>1. base' = base /\ head' = head /\ plan' = PlanOf(Diff(base, head))
    BY <1>3 DEF ComputePlan
  <2>2. QED
    BY <2>1 DEF EngineOK, Version
<1>4. CASE UNCHANGED engineVars
  BY <1>4 DEF engineVars, EngineOK, Version
<1>5. QED
  BY <1>1, <1>2, <1>3, <1>4 DEF EngineNext

\* What a diff tells of the lists that limit what an intent may do.
LEMMA DiffTells ==
    ASSUME Version(base), Version(head), NEW D, D = Diff(base, head)
    PROVE  /\ \A l \in ListsOf.authority \union {"policy"} :
                ~Same(l) => D[l] # {}
           /\ \A e \in D["approval_requirements"] : e.change \in Changed
           /\ \A c : Lost("forbidden_actions", c) =>
                \E e \in D["forbidden_actions"] : e.change = "Removed"
           /\ \A i \in DOMAIN base["approval_requirements"] :
                (\A j \in DOMAIN head["approval_requirements"] :
                    head["approval_requirements"][j].key # base["approval_requirements"][i].key)
                => \E e \in D["approval_requirements"] : e.change = "Removed"
<1>1. \A l \in ListsOf.authority \union {"policy"} :
        /\ D[l] = DiffKeyed(base[l], head[l])
        /\ base[l] \in Seq(Clauses(l)) /\ head[l] \in Seq(Clauses(l))
  BY DiffIs, ListsAre DEF Version
<1>2. {"forbidden_actions", "approval_requirements"} \subseteq ListsOf.authority
  BY ListsAre
<1>3. ASSUME NEW l \in ListsOf.authority \union {"policy"}, D[l] = {}
      PROVE  Same(l)
  <2>1. \A c : Count(base[l], c) = Count(head[l], c)
    BY <1>1, <1>3, EmptyMeansSame
  <2>2. QED
    BY <2>1 DEF Same, Times, Count
<1>4. \A e \in D["approval_requirements"] : e.change \in Changed
  BY <1>1, <1>2, DiffKeyedIs DEF Changed
<1>5. ASSUME NEW c, Lost("forbidden_actions", c),
             \A e \in D["forbidden_actions"] : e.change # "Removed"
      PROVE  FALSE
  <2> DEFINE b == base["forbidden_actions"]
             a == head["forbidden_actions"]
             S == Clauses("forbidden_actions")
  <2>1. b \in Seq(S) /\ a \in Seq(S) /\ D["forbidden_actions"] = DiffKeyed(b, a)
    BY <1>1, <1>2
  <2>2. S = [key : ClauseIds, must : {FALSE}, text : {Absent}]
    BY DEF Clauses, Clause, ScopeLists, ConstraintLists,
           CriteriaLists, ActionLists, RuleLists
  <2>3. \A x, y \in S : x.key = y.key => x = y
    <3> HIDE DEF S
    <3>1. \A m, t : \A x, y \in [key : ClauseIds, must : {m}, text : {t}] :
            x.key = y.key => x = y
      BY SMT
    <3>2. QED
      BY <2>2, <3>1, Zenon
  <2>4. Count(a, c) < Count(b, c)
    BY <1>5 DEF Lost, Times, Count
  <2> HIDE DEF b, a, S
  <2>5. Count(b, c) <= Count(a, c)
    BY <1>5, <2>1, <2>3, RemovedOrKept
  <2>6. Count(a, c) \in Nat /\ Count(b, c) \in Nat
    BY <2>1, CountIsNat
  <2>7. QED
    BY <2>4, <2>5, <2>6
<1>6. ASSUME NEW i \in DOMAIN base["approval_requirements"],
             \A j \in DOMAIN head["approval_requirements"] :
                head["approval_requirements"][j].key # base["approval_requirements"][i].key
      PROVE  \E e \in D["approval_requirements"] : e.change = "Removed"
  <2> DEFINE b == base["approval_requirements"]
             a == head["approval_requirements"]
             gone == Entry("Removed", i, b[i], Absent)
  <2>1. \A p \in Pairs(b, a) : p[1] # i
    BY <1>6, PairsAre
  <2>2. gone \in DiffKeyed(b, a)
    BY <2>1, DiffKeyedIs
  <2>3. gone.change = "Removed"
    BY DEF Entry
  <2>4. QED
    BY <1>1, <1>2, <2>2, <2>3
<1>7. QED
  BY <1>3, <1>4, <1>5, <1>6

\* A plan of the versions is gated as its diff demands.
LEMMA PlanIsGated == EngineOK => WideningIsGated
<1> SUFFICES ASSUME EngineOK, plan # Absent PROVE WideningIsGated
  BY DEF WideningIsGated, Planned
<1> DEFINE D == Diff(base, head)
           tier == Risk(D).severity
<1>1. Version(base) /\ Version(head) /\ plan = PlanOf(D)
  BY DEF EngineOK
<1>2. /\ \A l \in ListsOf.authority \union {"policy"} : ~Same(l) => D[l] # {}
      /\ \A e \in D["approval_requirements"] : e.change \in Changed
  BY <1>1, DiffTells
<1> HIDE DEF D
<1>3. /\ tier \in 0..3
      /\ D["policy"] # {} => tier >= 2
      /\ (\E l \in ListsOf.authority : D[l] # {}) => tier >= 2
      /\ (\E e \in D["forbidden_actions"] \union D["approval_requirements"] : e.change = "Removed")
            => tier = 3
  <2>1. /\ tier \in 0..3
        /\ SectionSeverity("constraints", D) <= tier
        /\ AuthoritySeverity(D) <= tier
    BY <1>2, TierIs, SectionLevel
  <2>2. SectionSeverity("constraints", D) \in 0..3 /\ AuthoritySeverity(D) \in 0..3
    BY <1>2, SectionLevel
  <2>3. D["policy"] # {} => SectionSeverity("constraints", D) >= 2
    BY <1>2, SectionLevel
  <2>4. /\ (\E l \in ListsOf.authority : D[l] # {}) => AuthoritySeverity(D) >= 2
        /\ (\E e \in D["forbidden_actions"] \union D["approval_requirements"] : e.change = "Removed")
              => AuthoritySeverity(D) = 3
    BY <1>2, AuthorityLevel
  <2> HIDE DEF tier
  <2>5. QED
    BY <2>1, <2>2, <2>3, <2>4
<1>4. \A l \in ListsOf.authority \union {"policy"} : D[l] # {} => ~IsDiffEmpty(D)
  BY ListsAre DEF IsDiffEmpty
<1>5. ASSUME NEW l \in ListsOf.authority \union {"policy"}, D[l] # {}
      PROVE  /\ plan.gate = "blocked"
             /\ tier = 3 => plan.decision_class = "E"
  <2>1. tier \in {2, 3}
    BY <1>3, <1>5
  <2>2. QED
    BY <1>1, <1>4, <1>5, <2>1, GateIs
<1>6. {"forbidden_actions", "approval_requirements"} \subseteq ListsOf.authority
  BY ListsAre
<1>7. (\E e \in D["forbidden_actions"] \union D["approval_requirements"] : e.change = "Removed")
        => plan.decision_class = "E"
  BY <1>3, <1>5, <1>6
<1>8. (\E l \in ListsOf.authority \union {"policy"} : ~Same(l)) => plan.gate = "blocked"
  BY <1>2, <1>5
<1>9. (\E c \in Held("forbidden_actions") : Lost("forbidden_actions", c))
        => plan.decision_class = "E"
  BY <1>1, <1>7, DiffTells DEF D
<1>10. (\E i \in DOMAIN base["approval_requirements"] :
            \A j \in DOMAIN head["approval_requirements"] :
                head["approval_requirements"][j].key # base["approval_requirements"][i].key)
        => plan.decision_class = "E"
  BY <1>1, <1>7, DiffTells DEF D
<1>11. QED
  BY <1>8, <1>9, <1>10 DEF WideningIsGated

\* The diff of every list replays.
LEMMA ListsReplay ==
    ASSUME Version(base), Version(head), NEW l \in Lists
    PROVE  /\ Replays(base[l], head[l], Diff(base, head)[l])
           /\ \A c \in Held(l) : c \in Clauses(l) /\ c # Absent
<1> DEFINE b == base[l]
           a == head[l]
           S == Clauses(l)
<1>1. b \in Seq(S) /\ a \in Seq(S)
  BY DEF Version
<1>2. Absent \notin S
  BY EngineAssumption
<1>3. \A c \in Held(l) : c \in S /\ c # Absent
  <2>1. \A i \in DOMAIN b : b[i] \in S
    BY <1>1, ElementOfSeq, LenProperties
  <2>2. \A i \in DOMAIN a : a[i] \in S
    BY <1>1, ElementOfSeq, LenProperties
  <2>3. Held(l) = {b[i] : i \in DOMAIN b} \union {a[j] : j \in DOMAIN a}
    BY DEF Held
  <2> HIDE DEF b, a, S
  <2>4. QED
    BY <1>2, <2>1, <2>2, <2>3
<1>4. CASE l \in ScopeLists
  <2>1. S = [key : Strings, must : {FALSE}, text : {Absent}]
    BY <1>4 DEF Clauses, Clause, ScopeLists, ConstraintLists,
           CriteriaLists, ActionLists, RuleLists
  <2>2. Comparable(S)
    <3> HIDE DEF S
    <3>1. \A m, t : \A x \in [key : Strings, must : m, text : t] : x.key \in Strings
      OBVIOUS
    <3>2. \A x \in S : x.key \in Strings
      BY <2>1, <3>1
    <3>3. QED
      BY <3>2, EngineAssumption DEF Comparable
  <2>3. Alike(S)
    <3> HIDE DEF S
    <3>1. \A m, t : \A x, y \in [key : Strings, must : {m}, text : {t}] :
            x.key = y.key => x = y
      BY SMT
    <3>2. QED
      BY <2>1, <3>1, Zenon DEF Alike
  <2>4. Replays(b, a, DiffStrings(b, a))
    <3> HIDE DEF S, b, a
    <3>1. QED
      BY <1>1, <2>2, <2>3, StringsReplay
  <2>5. Diff(base, head)[l] = DiffStrings(b, a)
    BY <1>4 DEF Diff
  <2>6. QED
    BY <1>3, <2>4, <2>5
<1>5. CASE l \notin ScopeLists
  <2>1. Diff(base, head)[l] = DiffKeyed(b, a)
    BY <1>5, DiffIs
  <2>2. Replays(b, a, DiffKeyed(b, a))
    <3> HIDE DEF S, b, a
    <3>1. QED
      BY <1>1, KeyedReplay
  <2>3. QED
    BY <1>3, <2>1, <2>2
<1>6. QED
  BY <1>4, <1>5

\* The diff of a plan replays in every list.
LEMMA PlanReplays == EngineOK => DiffReplays
<1> SUFFICES ASSUME EngineOK, plan # Absent, NEW l \in Lists
             PROVE  /\ \A e \in plan.diff[l] : {e.before, e.after} \subseteq Held(l) \union {Absent}
                    /\ \A c \in Held(l) :
                        Times(head, l, c) + Cardinality({e \in plan.diff[l] : e.before = c})
                          = Times(base, l, c) + Cardinality({e \in plan.diff[l] : e.after = c})
  BY DEF DiffReplays, Planned
<1> DEFINE E == Diff(base, head)[l]
<1>1. Version(base) /\ Version(head) /\ plan = PlanOf(Diff(base, head))
  BY DEF EngineOK
<1>2. plan.diff[l] = E
  BY <1>1 DEF PlanOf
<1>3. Replays(base[l], head[l], E) /\ \A c \in Held(l) : c # Absent
  BY <1>1, ListsReplay
<1> HIDE DEF E
<1>4. \A e \in E : {e.before, e.after} \subseteq Held(l) \union {Absent}
  BY <1>3 DEF Replays, Held
<1>5. ASSUME NEW c \in Held(l)
      PROVE  Times(head, l, c) + Cardinality({e \in E : e.before = c})
                = Times(base, l, c) + Cardinality({e \in E : e.after = c})
  <2>1. Count(head[l], c) + Cardinality(Gone(E, c)) = Count(base[l], c) + Cardinality(Come(E, c))
    BY <1>3, <1>5 DEF Replays
  <2>2. /\ Times(head, l, c) = Count(head[l], c)
        /\ Times(base, l, c) = Count(base[l], c)
    BY DEF Times, Count
  <2>3. /\ Cardinality({e \in E : e.before = c}) = Cardinality(Gone(E, c))
        /\ Cardinality({e \in E : e.after = c}) = Cardinality(Come(E, c))
    BY DEF Gone, Come
  <2>4. QED
    BY <2>1, <2>2, <2>3
<1>6. QED
  BY <1>2, <1>4, <1>5

\* Only an empty diff is a no-op.
LEMMA NoOpIs ==
    ASSUME NEW D, PlanOf(D).gate = "no_op"
    PROVE  IsDiffEmpty(D)
<1> DEFINE risk == Risk(D)
           class == DecisionClass(D, risk)
<1>1. PlanOf(D).gate = Gate(risk.severity, class)
  BY DEF PlanOf
<1> HIDE DEF risk
<1>2. class = "A" => IsDiffEmpty(D)
  BY DEF DecisionClass, Critical, High, Medium
<1> HIDE DEF class
<1>3. class = "A"
  BY <1>1 DEF Gate, Medium
<1>4. QED
  BY <1>2, <1>3

\* An empty diff replays only when nothing differs.
LEMMA NoOpIsSame == EngineOK => NoOpMeansSame
<1> SUFFICES ASSUME EngineOK, plan # Absent, plan.gate = "no_op",
                    NEW l \in Lists, NEW c \in Held(l)
             PROVE  Times(base, l, c) = Times(head, l, c)
  BY DEF NoOpMeansSame, Planned, Same
<1> DEFINE D == Diff(base, head)
<1>1. Version(base) /\ Version(head) /\ plan = PlanOf(D)
  BY DEF EngineOK
<1>2. Replays(base[l], head[l], D[l]) /\ c # Absent
  BY <1>1, ListsReplay
<1>3. \E S : base[l] \in Seq(S) /\ head[l] \in Seq(S)
  BY <1>1 DEF Version
<1> HIDE DEF D
<1>4. D[l] = {}
  BY <1>1, NoOpIs DEF IsDiffEmpty
<1>5. Gone(D[l], c) = {} /\ Come(D[l], c) = {}
  BY <1>4 DEF Gone, Come
<1>6. Count(head[l], c) + 0 = Count(base[l], c) + 0
  BY <1>2, <1>5, FS_EmptySet DEF Replays
<1>7. Count(head[l], c) \in Nat /\ Count(base[l], c) \in Nat
  BY <1>3, CountIsNat
<1>8. QED
  BY <1>6, <1>7 DEF Times, Count

-----------------------------------------------------------------------------
(* A plan that is in doubt. *)

\* The changes are finitely many, whenever those of a list are.
LEMMA ChangesFinite ==
    ASSUME NEW D, \A l \in Lists : IsFiniteSet(D[l])
    PROVE  IsFiniteSet(Changes(D))
<1> DEFINE Of(l) == {<<l, e>> : e \in D[l]}
           Some == {Of(l) : l \in Lists}
<1>1. IsFiniteSet(Lists)
  <2>1. Lists = UNION {ScopeLists, ConstraintLists, CriteriaLists,
                              ActionLists \union RuleLists}
    <3>1. Sections = {"scope", "constraints", "acceptance_criteria", "authority"}
      BY DEF Sections, ListsOf
    <3>2. /\ ListsOf["scope"] = ScopeLists
          /\ ListsOf["constraints"] = ConstraintLists
          /\ ListsOf["acceptance_criteria"] = CriteriaLists
          /\ ListsOf["authority"] = ActionLists \union RuleLists
      BY DEF ListsOf
    <3>3. QED
      BY <3>1, <3>2 DEF Lists
  <2>2. Lists = {"in_scope"} \union {"out_of_scope"} \union {"functional"}
            \union {"non_functional"} \union {"policy"} \union {"budget"} \union {"time"}
            \union {"required"} \union {"optional"} \union {"allowed_actions"}
            \union {"forbidden_actions"} \union {"approval_requirements"}
    BY <2>1 DEF ScopeLists, ConstraintLists, CriteriaLists,
           ActionLists, RuleLists
  <2>3. \A x : IsFiniteSet({x})
    BY FS_Singleton
  <2>4. QED
    BY <2>2, <2>3, FS_Union
<1>2. ASSUME NEW l \in Lists PROVE IsFiniteSet(Of(l))
  <2> DEFINE d == D[l]
             f == [e \in d |-> <<l, e>>]
  <2>1. Of(l) = {f[e] : e \in d} /\ DOMAIN f = d /\ f = [e \in d |-> f[e]] /\ IsFiniteSet(d)
    BY <1>2
  <2> HIDE DEF f, d, Of
  <2>2. QED
    BY <1>2, <2>1, ImageFinite
<1>3. IsFiniteSet(Some)
  <2> DEFINE g == [l \in Lists |-> Of(l)]
  <2>1. Some = {g[l] : l \in Lists} /\ DOMAIN g = Lists
        /\ g = [l \in Lists |-> g[l]]
    OBVIOUS
  <2> HIDE DEF g, Some
  <2>2. QED
    BY <1>1, <2>1, ImageFinite
<1>4. Changes(D) = UNION Some
  BY DEF Changes
<1> HIDE DEF Of
<1>5. QED
  BY <1>2, <1>3, <1>4, FS_UNION

\* The confidence is below its threshold exactly when the doubtful changes are not
\* outweighed: with 5, 8 and 10 tenths for a doubtful, a clear and an edited change,
\* less than 7 tenths for each is less than one for the clear, less than 3 for the
\* edited, against 2 for the doubtful.
LEMMA DoubtIsLow ==
    ASSUME NEW D, IsFiniteSet(Changes(D))
    PROVE  LowConfidence(D) <=> InDoubt(D)
<1> DEFINE C == Changes(D)
           Kind(q) == {c \in C : Match(c[1], c[2]) = q}
           U == Kind("unique")
           A == Kind("ambiguous")
           N == Kind("no_match")
<1>1. \A l, e : Match(l, e) \in {"unique", "ambiguous", "no_match"}
  BY DEF Match
<1>2. A = Doubtful(D) /\ U = Edited(D)
  <2>1. A = Doubtful(D)
    BY DEF Doubtful, Match
  <2>2. U = Edited(D)
    BY DEF Edited, Match
  <2>3. QED
    BY <2>1, <2>2
<1>3. N = Clear(D)
  <2>1. N = C \ (A \union U)
    BY <1>1
  <2>2. QED
    BY <1>2, <2>1 DEF Clear
<1>4. C = (U \union A) \union N /\ U \intersect A = {} /\ (U \union A) \intersect N = {}
  BY <1>1
<1>5. U \in SUBSET C /\ A \in SUBSET C /\ N \in SUBSET C
  OBVIOUS
<1>6. /\ Matched(D, "unique") = Cardinality(U)
      /\ Matched(D, "ambiguous") = Cardinality(A)
      /\ Matched(D, "no_match") = Cardinality(N)
      /\ Cardinality(Changes(D)) = Cardinality(C)
  BY DEF Matched
<1>7. InDoubt(D) <=> 2 * Cardinality(A) > Cardinality(N) + 3 * Cardinality(U)
  BY <1>2, <1>3 DEF InDoubt
<1> HIDE DEF U, A, N, C
<1>8. IsFiniteSet(U) /\ IsFiniteSet(A) /\ IsFiniteSet(N) /\ IsFiniteSet(U \union A)
  BY <1>5, FS_Subset, FS_Union DEF C
<1>9. /\ Cardinality(U) \in Nat /\ Cardinality(A) \in Nat /\ Cardinality(N) \in Nat
      /\ Cardinality(C) = Cardinality(U) + Cardinality(A) + Cardinality(N)
  <2>1. Cardinality(U) \in Nat /\ Cardinality(A) \in Nat /\ Cardinality(N) \in Nat
        /\ Cardinality(U \union A) \in Nat
    BY <1>8, FS_CardinalityType
  <2>2. Cardinality(U \union A) = Cardinality(U) + Cardinality(A) - Cardinality(U \intersect A)
    BY <1>8, FS_Union
  <2>3. Cardinality((U \union A) \union N)
            = Cardinality(U \union A) + Cardinality(N) - Cardinality((U \union A) \intersect N)
    BY <1>8, FS_Union
  <2>4. Cardinality(U \intersect A) = 0 /\ Cardinality((U \union A) \intersect N) = 0
    BY <1>4, FS_EmptySet
  <2>5. Cardinality(C) = Cardinality((U \union A) \union N)
    BY <1>4
  <2>6. QED
    BY <2>1, <2>2, <2>3, <2>4, <2>5
<1>10. LowConfidence(D)
         <=> 10 * Cardinality(U) + 5 * Cardinality(A) + 8 * Cardinality(N) < 7 * Cardinality(C)
  BY <1>6 DEF LowConfidence, Confidence
<1>11. 10 * Cardinality(U) + 5 * Cardinality(A) + 8 * Cardinality(N) < 7 * Cardinality(C)
         <=> 2 * Cardinality(A) > Cardinality(N) + 3 * Cardinality(U)
  BY <1>9
<1>12. QED
  BY <1>7, <1>10, <1>11

\* A changed list of constraints or criteria is Medium at least.
LEMMA ListRaised ==
    ASSUME NEW d, d # {}, NEW l
    PROVE  ConstraintSeverity(l, d) >= 1 /\ CriterionSeverity(l, d) >= 1
<1> DEFINE C == {ClauseSeverity(e) : e \in d}
           highest == Highest(C)
           required == l = "required" /\ d # {}
<1>1. C \in SUBSET (0..3)
  BY EntryLevels
<1>2. \E x \in C : x >= 1
  <2>1. PICK e \in d : TRUE
    OBVIOUS
  <2>2. ClauseSeverity(e) >= 1
    BY DEF ClauseSeverity, Medium, High
  <2>3. QED
    BY <2>1, <2>2
<1>3. CriterionSeverity(l, d) = AtLeast(1, required, highest)
  BY DEF CriterionSeverity, Medium
<1>4. l # "policy" => ConstraintSeverity(l, d) = highest
  BY DEF ConstraintSeverity
<1>5. required \in BOOLEAN
  OBVIOUS
<1> HIDE DEF C, required
<1>6. highest \in 0..3 /\ highest >= 1
  BY <1>1, <1>2, HighestIs
<1> HIDE DEF highest
<1>7. AtLeast(1, required, highest) \in 0..3 /\ AtLeast(1, required, highest) >= highest
  BY <1>5, <1>6, AtLeastIs
<1>8. l = "policy" => ConstraintSeverity(l, d) >= 2 /\ ConstraintSeverity(l, d) \in 0..3
  BY ListLevel
<1>9. QED
  BY <1>3, <1>4, <1>6, <1>7, <1>8

\* Any change raises the tier above Low.
LEMMA ChangeIsMedium ==
    ASSUME NEW D, ~IsDiffEmpty(D), \A e \in D["approval_requirements"] : e.change \in Changed
    PROVE  Risk(D).severity >= 1
<1>1. PICK l \in Lists : D[l] # {}
  BY DEF IsDiffEmpty
<1>2. l \in ScopeLists \union ConstraintLists \union CriteriaLists \union ListsOf.authority
  BY <1>1 DEF Lists, Sections, ListsOf
<1>3. Sections = {"scope", "constraints", "acceptance_criteria", "authority"}
  BY DEF Sections, ListsOf
<1>4. PICK s \in Sections : SectionSeverity(s, D) >= 1
  <2>1. CASE l \in ScopeLists
    <3> DEFINE changed == \E k \in ScopeLists : D[k] # {}
    <3>1. changed
      BY <1>1, <2>1
    <3>2. SectionSeverity("scope", D) = AtLeast(1, changed, 0)
      BY DEF SectionSeverity, Medium, Low
    <3>3. changed \in BOOLEAN
      OBVIOUS
    <3> HIDE DEF changed
    <3>4. AtLeast(1, changed, 0) >= 1
      <4>1. 1 \in 0..3 /\ 0 \in 0..3
        OBVIOUS
      <4>2. changed => AtLeast(1, changed, 0) >= 1
        BY <3>3, <4>1, AtLeastIs
      <4>3. QED
        BY <3>1, <4>2
    <3>5. QED
      BY <1>3, <3>2, <3>4
  <2>2. CASE l \in ConstraintLists
    <3> DEFINE K == {ConstraintSeverity(k, D[k]) : k \in ConstraintLists}
    <3>1. ConstraintSeverity(l, D[l]) \in K /\ K \in SUBSET (0..3)
      BY <2>2, ListLevel
    <3>2. SectionSeverity("constraints", D) = Highest(K)
      BY DEF SectionSeverity
    <3>3. ConstraintSeverity(l, D[l]) >= 1
      BY <1>1, ListRaised
    <3> HIDE DEF K
    <3>4. Highest(K) \in 0..3 /\ ConstraintSeverity(l, D[l]) <= Highest(K)
          /\ ConstraintSeverity(l, D[l]) \in 0..3
      BY <3>1, HighestIs
    <3>5. QED
      BY <1>3, <3>2, <3>3, <3>4
  <2>3. CASE l \in CriteriaLists
    <3> DEFINE K == {CriterionSeverity(k, D[k]) : k \in CriteriaLists}
    <3>1. CriterionSeverity(l, D[l]) \in K /\ K \in SUBSET (0..3)
      BY <2>3, ListLevel
    <3>2. SectionSeverity("acceptance_criteria", D) = Highest(K)
      BY DEF SectionSeverity
    <3>3. CriterionSeverity(l, D[l]) >= 1
      BY <1>1, ListRaised
    <3> HIDE DEF K
    <3>4. Highest(K) \in 0..3 /\ CriterionSeverity(l, D[l]) <= Highest(K)
          /\ CriterionSeverity(l, D[l]) \in 0..3
      BY <3>1, HighestIs
    <3>5. QED
      BY <1>3, <3>2, <3>3, <3>4
  <2>4. CASE l \in ListsOf.authority
    <3>1. AuthoritySeverity(D) \in 0..3 /\ AuthoritySeverity(D) >= 2
      BY <1>1, <2>4, AuthorityLevel
    <3>2. QED
      BY <3>1, SectionLevel
  <2>5. QED
    BY <1>2, <2>1, <2>2, <2>3, <2>4
<1>5. SectionSeverity(s, D) \in 0..3 /\ Risk(D).severity \in 0..3
      /\ SectionSeverity(s, D) <= Risk(D).severity
  BY SectionLevel, TierIs
<1>6. QED
  BY <1>4, <1>5

\* A Medium plan is of class D when its confidence is low or it has three sections, of
\* class B or C otherwise: no other reason for a review leaves it Medium.
LEMMA MediumIsD ==
    ASSUME NEW D, ~IsDiffEmpty(D), Risk(D).severity = 1,
           \A e \in D["approval_requirements"] : e.change \in Changed
    PROVE  /\ LowConfidence(D) \/ Risk(D).changed_sections >= 3
                 => DecisionClass(D, Risk(D)) = "D"
           /\ ~(LowConfidence(D) \/ Risk(D).changed_sections >= 3)
                 => DecisionClass(D, Risk(D)) \in {"B", "C"}
<1> DEFINE risk == Risk(D)
           of == [s \in Sections |-> SectionSeverity(s, D)]
           raised == {s \in Sections : of[s] >= High}
<1>1. risk.high_sections = Cardinality(raised)
  BY DEF Risk
<1>2. \A s \in Sections : SectionSeverity(s, D) \in 0..3 /\ SectionSeverity(s, D) <= 1
  BY SectionLevel, TierIs
<1>3. raised = {}
  BY <1>2 DEF High
<1>4. risk.high_sections = 0
  BY <1>1, <1>3, FS_EmptySet
<1>5. D["policy"] = {} /\ ~\E e \in D["approval_requirements"] : e.change = "Removed"
  <2>1. SectionSeverity("constraints", D) \in 0..1 /\ AuthoritySeverity(D) \in 0..1
    BY <1>2, SectionLevel
  <2>2. QED
    BY <2>1, SectionLevel, AuthorityLevel
<1>6. risk.manual_review = ManualReview(D, risk.severity, risk.high_sections)
  BY DEF Risk
<1> HIDE DEF risk
<1>7. risk.severity = 1
  BY DEF risk
<1>8. risk.manual_review <=> LowConfidence(D)
  BY <1>4, <1>5, <1>6, <1>7 DEF ManualReview, Critical
<1>9. DecisionClass(D, risk)
        = CASE risk.manual_review \/ risk.changed_sections >= 3 -> "D"
            [] ~risk.manual_review /\ risk.changed_sections = 2 -> "C"
            [] OTHER -> "B"
  BY <1>4, <1>7 DEF DecisionClass, Critical, High, Medium
<1>10. /\ LowConfidence(D) \/ risk.changed_sections >= 3 => DecisionClass(D, risk) = "D"
       /\ ~(LowConfidence(D) \/ risk.changed_sections >= 3) => DecisionClass(D, risk) \in {"B", "C"}
  BY <1>8, <1>9
<1>11. QED
  BY <1>10 DEF risk

\* Class D drops no approval and resumes before side effects; B and C drop some.
LEMMA ClassDIs ==
    /\ Strategy("D") = "Full" /\ Selected("D") = "before_side_effects"
    /\ \A class \in {"B", "C"} : Strategy(class) # "Full"
<1> DEFINE offered == {i \in DOMAIN Preferred("D") :
                        Preferred("D")[i] \in Candidates("D")}
<1>1. Preferred("D") = <<"before_side_effects", "before_invalidation", "most_recent">>
  BY DEF Preferred
<1>2. Candidates("D") = {"most_recent", "before_side_effects"}
  BY DEF Candidates
<1>3. offered = {1, 3}
  BY <1>1, <1>2
<1>4. Min(offered) = 1
  <2>1. Min(offered) = CHOOSE x \in {1, 3} : \A y \in {1, 3} : x <= y
    BY <1>3 DEF Min
  <2>2. QED
    BY <2>1
<1>5. Selected("D") = Preferred("D")[Min(offered)]
  BY DEF Selected
<1>6. QED
  BY <1>1, <1>4, <1>5 DEF Strategy

\* A plan that proceeds is of class D exactly when it is in doubt or has three sections.
LEMMA PlanIsCareful == EngineOK => DoubtIsCareful
<1> SUFFICES ASSUME EngineOK, plan # Absent, plan.gate = "proceed"
             PROVE  /\ plan.strategy = "Full"
                          <=> InDoubt(plan.diff) \/ Cardinality(plan.sections) >= 3
                    /\ plan.strategy = "Full" => plan.selected = "before_side_effects"
  BY DEF DoubtIsCareful, Planned
<1> DEFINE D == Diff(base, head)
           risk == Risk(D)
           class == DecisionClass(D, risk)
<1>1. Version(base) /\ Version(head) /\ plan = PlanOf(D)
  BY DEF EngineOK
<1>2. /\ plan.diff = D /\ plan.gate = Gate(risk.severity, class)
      /\ plan.strategy = Strategy(class) /\ plan.selected = Selected(class)
      /\ plan.sections = ChangedSections(D)
  BY <1>1 DEF PlanOf
<1>3. \A l \in Lists : IsFiniteSet(D[l])
  BY <1>1, ListsReplay DEF Replays
<1>4. \A e \in D["approval_requirements"] : e.change \in Changed
  BY <1>1, DiffTells
<1>5. risk.changed_sections = Cardinality(ChangedSections(D))
  BY DEF Risk
<1> HIDE DEF D
<1>6. LowConfidence(D) <=> InDoubt(D)
  BY <1>3, ChangesFinite, DoubtIsLow
<1>7. ~IsDiffEmpty(D)
  <2>1. IsDiffEmpty(D) => class = "A"
    BY DEF DecisionClass
  <2>2. class = "A" => plan.gate = "no_op"
    BY <1>2 DEF Gate
  <2>3. QED
    BY <2>1, <2>2
<1>8. risk.severity >= 1 /\ risk.severity \in 0..3
  BY <1>4, <1>7, ChangeIsMedium, TierIs
<1>9. risk.severity = 1
  <2>1. risk.severity <= 1
    <3> HIDE DEF risk, class
    <3>1. QED
      BY <1>2, <1>8 DEF Gate, Medium
  <2>2. QED
    BY <1>8, <2>1
<1>10. /\ LowConfidence(D) \/ risk.changed_sections >= 3 => class = "D"
       /\ ~(LowConfidence(D) \/ risk.changed_sections >= 3) => class \in {"B", "C"}
  BY <1>4, <1>7, <1>9, MediumIsD
<1> HIDE DEF risk, class
<1>11. QED
  BY <1>2, <1>5, <1>6, <1>10, ClassDIs

-----------------------------------------------------------------------------
(* What holds of every plan. *)

\* compute_rebase_preview is asked of versions, and its plan stays the plan of the two
\* it was made of.
LEMMA AlwaysEngineOK == EngineSpec => []EngineOK
BY EngineOKInit, EngineOKStep, PTL DEF EngineSpec

\* diff_intent_version tells the whole truth: the entries it reports take the clauses
\* of the base to those of the head, each as often as the head has it, whether the
\* lists are sorted and merged (diff_string_lists) or matched by keys unique in both.
THEOREM DiffReplayed == EngineSpec => []DiffReplays
BY PlanReplays, AlwaysEngineOK, PTL

\* A plan RiskTierGuard turns into a no-op is made of versions that have the same
\* clauses, each as often, in every list.
THEOREM NoOpIsOfTheSame == EngineSpec => []NoOpMeansSame
BY NoOpIsSame, AlwaysEngineOK, PTL

\* No change of a policy constraint or of the authority is applied without a human,
\* and the loss of a forbidden action or of an approval rule makes the plan class E:
\* the severities of the analysis, its floors and compute_decision_class let none by.
THEOREM WideningGated == EngineSpec => []WideningIsGated
BY PlanIsGated, AlwaysEngineOK, PTL

\* A plan that proceeds alone revalidates every approval, and resumes before side
\* effects, exactly when it is in doubt or touches three sections: nothing else asks
\* should_manual_review for a review of a Medium plan, and its confidence is below the
\* threshold exactly when its doubtful changes are not outweighed.
THEOREM DoubtCareful == EngineSpec => []DoubtIsCareful
BY PlanIsCareful, AlwaysEngineOK, PTL

-----------------------------------------------------------------------------
(* The plan as the apply request is given it. *)

TierName == <<"Low", "Medium", "High", "Critical">>

\* A plan as the input of an apply request, which decides as the plan's gate does.
PlanIsInput ==
    plan # Absent =>
        \E tier \in RiskTiers :
            /\ plan.tier + 1 \in DOMAIN TierName /\ tier = TierName[plan.tier + 1]
            /\ plan.decision_class \in DecisionClasses
            /\ plan.gate = Evaluate(tier, plan.decision_class)

\* A plan has one of the classes, and its gate is decided by it and the tier.
LEMMA GateDecides ==
    ASSUME NEW D, Risk(D).severity \in 0..3
    PROVE  LET p == PlanOf(D)
           IN  /\ p.tier = Risk(D).severity
               /\ p.decision_class \in DecisionClasses
               /\ p.gate = Evaluate(TierName[p.tier + 1], p.decision_class)
<1> DEFINE risk == Risk(D)
           class == DecisionClass(D, risk)
           tier == risk.severity
<1>1. /\ PlanOf(D).tier = tier /\ PlanOf(D).decision_class = class
      /\ PlanOf(D).gate = Gate(tier, class)
  BY DEF PlanOf
<1>2. class \in DecisionClasses
  BY DEF DecisionClass, DecisionClasses
<1>3. tier \in 0..3
  OBVIOUS
<1> HIDE DEF class, tier
<1>4. TierName[tier + 1] \in {"Low", "Medium"} <=> tier <= 1
  <2>1. tier = 0 \/ tier = 1 \/ tier = 2 \/ tier = 3
    BY <1>3
  <2>2. /\ TierName[0 + 1] = "Low" /\ TierName[1 + 1] = "Medium"
        /\ TierName[2 + 1] = "High" /\ TierName[3 + 1] = "Critical"
    BY DEF TierName
  <2>3. QED
    BY <2>1, <2>2
<1>5. Gate(tier, class) = Evaluate(TierName[tier + 1], class)
  BY <1>3, <1>4 DEF Gate, Medium, Evaluate
<1>6. /\ PlanOf(D).tier = Risk(D).severity
      /\ PlanOf(D).gate = Evaluate(TierName[PlanOf(D).tier + 1], class)
  BY <1>1, <1>5 DEF tier
<1>7. QED
  BY <1>1, <1>2, <1>6

\* Every plan the engine makes is one of the inputs ReceiveApply takes freely, and
\* the guard of the pipeline (RiskTierGuard on the stored plan) decides of its tier and
\* class what the preview has announced.
THEOREM PlansAreInputs == EngineSpec => []PlanIsInput
<1>1. EngineOK => PlanIsInput
  <2> SUFFICES ASSUME EngineOK, plan # Absent
               PROVE  \E tier \in RiskTiers :
                        /\ plan.tier + 1 \in DOMAIN TierName /\ tier = TierName[plan.tier + 1]
                        /\ plan.decision_class \in DecisionClasses
                        /\ plan.gate = Evaluate(tier, plan.decision_class)
    BY DEF PlanIsInput
  <2> DEFINE D == Diff(base, head)
  <2>1. Version(base) /\ Version(head) /\ plan = PlanOf(D)
    BY DEF EngineOK
  <2>2. \A e \in D["approval_requirements"] : e.change \in Changed
    BY <2>1, DiffTells
  <2>3. Risk(D).severity \in 0..3
    BY <2>2, TierIs
  <2>4. /\ plan.tier \in 0..3 /\ plan.decision_class \in DecisionClasses
        /\ plan.gate = Evaluate(TierName[plan.tier + 1], plan.decision_class)
    BY <2>1, <2>3, GateDecides
  <2>5. \A t \in 0..3 : t + 1 \in DOMAIN TierName /\ TierName[t + 1] \in RiskTiers
    <3>1. DOMAIN TierName = 1..4 /\ \A i \in 1..4 : TierName[i] \in RiskTiers
      BY DEF TierName, RiskTiers
    <3>2. \A t \in 0..3 : t + 1 \in 1..4
      OBVIOUS
    <3>3. QED
      BY <3>1, <3>2
  <2>6. QED
    BY <2>4, <2>5
<1>2. QED
  BY <1>1, AlwaysEngineOK, PTL

=============================================================================
