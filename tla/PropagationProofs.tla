-------------------------- MODULE PropagationProofs --------------------------
(***************************************************************************)
(* Proofs about Propagation, for any systems, subscriptions, applies and   *)
(* bounds.  Inductive adds to the properties what a dispatch in progress   *)
(* knows: that the records it works on exist, that its answer was really   *)
(* given, and how many requests the attempts that were counted still       *)
(* allow.                                                                  *)
(***************************************************************************)
EXTENDS Propagation, FiniteSetTheorems, TLAPS

ApplyRow == [pc : PCs, version : {0} \union Versions, todo : SUBSET Systems,
             known : SUBSET Systems,
             queue : SUBSET [id : Subs, system : Systems \union {None}],
             system : Systems \union {None}, attempt : 0..MaxAttempts,
             success : BOOLEAN]

\* What a dispatch knows of the system it is at and of the records it listed.
KnowsOf(a) ==
    /\ At(a, "send") \/ At(a, "outcome") => apply[a].system \in Systems
    /\ At(a, "send") \/ At(a, "outcome") \/ apply[a].system = None
    /\ At(a, "send") => apply[a].attempt # 0
    /\ At(a, "idle") \/ At(a, "done") \/ apply[a].version \in Versions
    /\ \A s \in apply[a].todo \union apply[a].known : rec[s].exists

Knows == \A a \in Applies : KnowsOf(a)

\* The answer a dispatch is about to store was given.
AnswerReal ==
    \A a \in Applies : At(a, "outcome") =>
        /\ posts[apply[a].system] # 0
        /\ apply[a].success => received[apply[a].system] # {}

\* The requests that attempts under way may still send to s.
Allowed(s) ==
    {x \in Applies \X (1..MaxAttempts) :
        At(x[1], "send") /\ apply[x[1]].system = s /\ apply[x[1]].attempt <= x[2]}

\* Every attempt counted in a record pays for MaxAttempts requests.
Paid ==
    \A s \in Systems :
        /\ IsFiniteSet(Allowed(s))
        /\ posts[s] + Cardinality(Allowed(s)) <= MaxAttempts * rec[s].delivery_attempt_count

\* A status is earned, the bound on the requests left to Paid.
Earned ==
    \A s \in Systems :
        /\ posts[s] # 0 => rec[s].exists
        /\ rec[s].exists =>
            /\ rec[s].status = "acknowledged" => received[s] # {}
            /\ rec[s].failed => posts[s] # 0

Awaiting(s) == rec[s].exists /\ rec[s].status = "pending" /\ rec[s].last_seen_version # 0

\* Without delivery nobody reports, and the signals are excused one by one.
OffExcused == delivery = "off" => \A s \in Systems : Awaiting(s) => s \in excused

Inductive ==
    PropagationTypeOK /\ Knows /\ AnswerReal /\ Paid /\ Earned /\ OffExcused /\ NotForgotten

\* One step of the dispatch of a.
ApplyStep(a) ==
    \/ Proceed(a) \/ DispatchStep(a) \/ SignalFails(a) \/ ListFails(a)
    \/ AttemptFails(a) \/ OutcomeFails(a) \/ Dropped(a)

-----------------------------------------------------------------------------
(* Types. *)

\* What each step of a dispatch makes of its locals: they keep their type, and
\* nobody else's change.
LEMMA ApplyRows ==
    ASSUME PropagationTypeOK, Knows, NEW a \in Applies, ApplyStep(a)
    PROVE  /\ apply' \in [Applies -> ApplyRow]
           /\ \A b \in Applies \ {a} : apply'[b] = apply[b]
<1> SUFFICES \E x \in ApplyRow : apply' = [apply EXCEPT ![a] = x]
  BY DEF PropagationTypeOK, ApplyRow
<1>1. apply \in [Applies -> ApplyRow] /\ apply[a] \in ApplyRow
  BY DEF PropagationTypeOK, ApplyRow
<1>2. MaxAttempts \in Nat \ {0}
  BY PropagationAssumption
<1> USE <1>1, <1>2 DEF ApplyRow
<1>3. CASE Proceed(a)
  BY <1>3 DEF Proceed, PCs
<1>4. CASE ListRecords(a)
  BY <1>4 DEF ListRecords, PCs, Recorded
<1>5. CASE SignalRecord(a) \/ SignalFails(a)
  <2>1. PICK s \in apply[a].todo :
            apply' = [apply EXCEPT ![a].todo = apply[a].todo \ {s},
                                   ![a].pc = AfterSignals(apply[a].todo \ {s})]
    BY <1>5 DEF SignalRecord, SignalFails
  <2>2. AfterSignals(apply[a].todo \ {s}) \in PCs
    BY DEF AfterSignals, PCs
  <2>3. QED
    BY <2>1, <2>2
<1>6. CASE ListAgain(a)
  BY <1>6 DEF ListAgain, PCs, Recorded
<1>7. CASE Resolve(a)
  <2>1. Resolved \in SUBSET [id : Subs, system : Systems \union {None}]
    BY DEF Resolved, PropagationTypeOK
  <2>2. PICK p \in PCs : apply' = [apply EXCEPT ![a].pc = p, ![a].queue = Resolved]
    BY <1>7 DEF Resolve, PCs
  <2>3. QED
    BY <2>1, <2>2
<1>8. CASE ListFails(a) \/ Dropped(a)
  <2>1. Idle \in ApplyRow /\ "done" \in PCs
    BY DEF Idle, PCs
  <2>2. QED
    BY <1>8, <2>1 DEF ListFails, Dropped
<1>9. CASE RecordAttempt(a)
  BY <1>9 DEF RecordAttempt, AfterOne, PCs
<1>10. CASE AttemptFails(a)
  BY <1>10 DEF AttemptFails, AfterOne, PCs
<1>11. CASE Send(a)
  <2>1. CASE \E b \in BOOLEAN : apply' = [apply EXCEPT ![a].pc = "outcome", ![a].success = b]
    BY <2>1 DEF PCs
  <2>2. CASE apply[a].attempt < MaxAttempts
             /\ apply' = [apply EXCEPT ![a].attempt = apply[a].attempt + 1]
    <3>1. apply[a].attempt + 1 \in 0..MaxAttempts
      BY <2>2
    <3>2. QED
      BY <2>2, <3>1
  <2>3. PICK answer \in Answers :
            \/ apply' = [apply EXCEPT ![a].pc = "outcome", ![a].success = answer = "success"]
            \/ /\ ~(apply[a].attempt >= MaxAttempts)
               /\ apply' = [apply EXCEPT ![a].attempt = apply[a].attempt + 1]
    BY <1>11, Zenon DEF Send, LadderEnds
  <2>4. CASE apply' = [apply EXCEPT ![a].pc = "outcome", ![a].success = answer = "success"]
    <3>1. (answer = "success") \in BOOLEAN
      OBVIOUS
    <3>2. QED
      BY <2>1, <2>4, <3>1
  <2>5. CASE ~(apply[a].attempt >= MaxAttempts)
             /\ apply' = [apply EXCEPT ![a].attempt = apply[a].attempt + 1]
    <3>1. apply[a].attempt < MaxAttempts
      BY <2>5
    <3>2. QED
      BY <2>2, <2>5, <3>1
  <2>6. QED
    BY <2>3, <2>4, <2>5
<1>12. CASE RecordOutcome(a) \/ OutcomeFails(a)
  <2>1. PICK p \in PCs :
            apply' = [apply EXCEPT ![a] = [apply[a] EXCEPT !.pc = p, !.system = None,
                                                           !.attempt = 0, !.success = FALSE]]
    BY <1>12 DEF RecordOutcome, OutcomeFails, Next1, AfterOne, PCs
  <2> DEFINE x == [apply[a] EXCEPT !.pc = p, !.system = None, !.attempt = 0, !.success = FALSE]
  <2>2. 0 \in 0..MaxAttempts /\ FALSE \in BOOLEAN
    OBVIOUS
  <2>3. x \in ApplyRow
    BY <2>1, <2>2
  <2>4. QED
    BY <2>1, <2>3
<1>13. QED
  BY <1>3, <1>4, <1>5, <1>6, <1>7, <1>8, <1>9, <1>10, <1>11, <1>12 DEF ApplyStep, DispatchStep

\* Records keep their type, and none is ever removed.
LEMMA RecordsStay ==
    ASSUME PropagationTypeOK, Knows, [Next]_vars
    PROVE  /\ rec' \in [Systems -> PropagationRecord]
           /\ \A s \in Systems : rec[s].exists => rec'[s].exists
<1>1. rec \in [Systems -> PropagationRecord]
  BY DEF PropagationTypeOK
<1> SUFFICES \/ rec' = rec
             \/ \E s \in Systems, x \in PropagationRecord :
                   rec' = [rec EXCEPT ![s] = x] /\ (rec[s].exists => x.exists)
  BY <1>1
<1>2. ASSUME NEW s \in Systems, IngestSignal(s) PROVE rec' = [rec EXCEPT ![s] = NewRecord]
  BY <1>2 DEF IngestSignal
<1>3. NewRecord \in PropagationRecord /\ NewRecord.exists
  BY DEF NewRecord, PropagationRecord, PropagationStatuses
<1>4. ASSUME NEW u \in Subs, CreateSubscription(u) \/ UpdateSubscription(u) \/ DeleteSubscription(u)
      PROVE  rec' = rec
  BY <1>4 DEF CreateSubscription, UpdateSubscription, DeleteSubscription
<1>5. ASSUME NEW a \in Applies, SignalRecord(a)
      PROVE  \E s \in Systems, x \in PropagationRecord :
                rec' = [rec EXCEPT ![s] = x] /\ (rec[s].exists => x.exists)
  <2>1. PICK s \in apply[a].todo : rec' = [rec EXCEPT ![s] = Resignalled(@, apply[a].version)]
    BY <1>5 DEF SignalRecord
  <2>2. s \in Systems /\ apply[a].version \in {0} \union Versions
    BY <2>1, <1>5 DEF PropagationTypeOK
  <2>3. Resignalled(rec[s], apply[a].version) \in PropagationRecord
        /\ (rec[s].exists => Resignalled(rec[s], apply[a].version).exists)
    BY <1>1, <2>2 DEF Resignalled, PropagationRecord, PropagationStatuses
  <2>4. QED
    BY <2>1, <2>2, <2>3, <1>1
<1>6. ASSUME NEW a \in Applies, RecordAttempt(a)
      PROVE  \/ rec' = rec
             \/ \E s \in Systems, x \in PropagationRecord :
                   rec' = [rec EXCEPT ![s] = x] /\ (rec[s].exists => x.exists)
  <2>1. PICK q \in apply[a].queue :
            \/ rec' = rec
            \/ /\ q.system \in apply[a].known
               /\ rec' = [rec EXCEPT ![q.system].delivery_attempt_count = @ + 1]
    BY <1>6 DEF RecordAttempt
  <2>2. apply[a].known \subseteq Systems
    BY <1>6 DEF PropagationTypeOK
  <2>3. QED
    BY <1>1, <2>1, <2>2 DEF PropagationRecord
<1>7. ASSUME NEW a \in Applies, RecordOutcome(a)
      PROVE  \E s \in Systems, x \in PropagationRecord :
                rec' = [rec EXCEPT ![s] = x] /\ (rec[s].exists => x.exists)
  <2>1. rec' = [rec EXCEPT ![apply[a].system] = Settled(@, apply[a].success)] /\ At(a, "outcome")
    BY <1>7 DEF RecordOutcome
  <2>2. apply[a].system \in Systems /\ apply[a].success \in BOOLEAN
    BY <2>1 DEF PropagationTypeOK, Knows, KnowsOf
  <2>3. Settled(rec[apply[a].system], apply[a].success) \in PropagationRecord
        /\ (rec[apply[a].system].exists
              => Settled(rec[apply[a].system], apply[a].success).exists)
    BY <1>1, <2>2 DEF Settled, PropagationRecord, PropagationStatuses
  <2>4. QED
    BY <2>1, <2>2, <2>3, <1>1
<1>8. ASSUME NEW a \in Applies,
             \/ Proceed(a) \/ ListRecords(a) \/ ListAgain(a) \/ Resolve(a) \/ Send(a)
             \/ SignalFails(a) \/ ListFails(a) \/ AttemptFails(a) \/ OutcomeFails(a) \/ Dropped(a)
      PROVE  rec' = rec
  BY <1>8 DEF Proceed, ListRecords, ListAgain, Resolve, Send, SignalFails, ListFails,
              AttemptFails, OutcomeFails, Dropped
<1>9. CASE UNCHANGED vars
  BY <1>9 DEF vars
<1>10. QED
  BY <1>2, <1>3, <1>4, <1>5, <1>6, <1>7, <1>8, <1>9 DEF Next, DispatchStep

\* A step of Next is nobody's dispatch, and then no dispatch moves, or somebody's.
LEMMA WhoMoves ==
    ASSUME [Next]_vars
    PROVE  \/ UNCHANGED <<apply, delivery, received, posts, excused>>
           \/ \E a \in Applies : ApplyStep(a)
  BY DEF Next, ApplyStep, vars, IngestSignal, CreateSubscription, UpdateSubscription,
         DeleteSubscription

\* What each step makes of its own dispatch is a dispatch.
LEMMA ApplyTypes ==
    ASSUME PropagationTypeOK, Knows, [Next]_vars PROVE apply' \in [Applies -> ApplyRow]
<1>1. CASE UNCHANGED apply
  BY <1>1 DEF PropagationTypeOK, ApplyRow
<1>2. ASSUME NEW a \in Applies, ApplyStep(a) PROVE apply' \in [Applies -> ApplyRow]
  BY <1>2, ApplyRows
<1>3. QED
  BY <1>1, <1>2, WhoMoves

\* What a dispatch knows stays true: its own steps make it so, and nobody
\* removes a record.
LEMMA KnowsStep ==
    ASSUME PropagationTypeOK, Knows, [Next]_vars
    PROVE  /\ Knows'
           /\ \A a \in Applies :
                apply'[a].pc \in {"send", "outcome"} => rec'[apply'[a].system].exists
<1>1. rec' \in [Systems -> PropagationRecord]
      /\ \A s \in Systems : rec[s].exists => rec'[s].exists
  BY RecordsStay
<1>2. apply \in [Applies -> ApplyRow] /\ apply' \in [Applies -> ApplyRow]
  BY ApplyTypes DEF PropagationTypeOK, ApplyRow
<1>3. ASSUME NEW b \in Applies, apply'[b] = apply[b]
      PROVE  KnowsOf(b)'
             /\ (apply'[b].pc \in {"send", "outcome"} => rec'[apply'[b].system].exists)
  <2>1. KnowsOf(b)
    BY DEF Knows
  <2>2. apply[b].todo \subseteq Systems /\ apply[b].known \subseteq Systems
    BY <1>2 DEF ApplyRow
  <2>3. apply[b].pc \in {"send", "outcome"} => rec[apply[b].system].exists
    BY DEF PropagationTypeOK
  <2>4. QED
    BY <1>1, <1>3, <2>1, <2>2, <2>3 DEF KnowsOf, At
<1>4. ASSUME NEW a \in Applies, ApplyStep(a)
      PROVE  KnowsOf(a)'
             /\ (apply'[a].pc \in {"send", "outcome"} => rec'[apply'[a].system].exists)
  <2>1. KnowsOf(a) /\ (apply[a].pc \in {"send", "outcome"} => rec[apply[a].system].exists)
    BY DEF Knows, PropagationTypeOK
  <2>2. apply[a] \in ApplyRow /\ MaxAttempts \in Nat \ {0}
    BY <1>2, PropagationAssumption
  <2> USE <1>1, <1>2, <2>1, <2>2 DEF KnowsOf, At, ApplyRow
  <2>3. CASE Proceed(a)
    BY <2>3 DEF Proceed
  <2>4. CASE ListRecords(a)
    BY <2>4 DEF ListRecords, Recorded
  <2>5. CASE SignalRecord(a) \/ SignalFails(a)
    <3>1. PICK s \in apply[a].todo :
              apply' = [apply EXCEPT ![a].todo = apply[a].todo \ {s},
                                     ![a].pc = AfterSignals(apply[a].todo \ {s})]
      BY <2>5 DEF SignalRecord, SignalFails
    <3>2. AfterSignals(apply[a].todo \ {s}) \in {"signal", "done", "list_again"}
      BY DEF AfterSignals
    <3>3. apply[a].pc = "signal"
      BY <2>5 DEF SignalRecord, SignalFails
    <3>4. QED
      BY <3>1, <3>2, <3>3
  <2>6. CASE ListAgain(a)
    BY <2>6 DEF ListAgain, Recorded
  <2>7. CASE Resolve(a)
    <3>1. PICK p \in {"done", "attempt"} :
              apply' = [apply EXCEPT ![a].pc = p, ![a].queue = Resolved]
      BY <2>7 DEF Resolve
    <3>2. apply[a].pc = "resolve"
      BY <2>7 DEF Resolve
    <3>3. QED
      BY <3>1, <3>2
  <2>8. CASE ListFails(a)
    BY <2>8 DEF ListFails
  <2>9. CASE RecordAttempt(a)
    <3>1. PICK q \in apply[a].queue :
              \/ /\ q.system \in apply[a].known
                 /\ apply' = [apply EXCEPT ![a].pc = "send", ![a].queue = apply[a].queue \ {q},
                                           ![a].system = q.system, ![a].attempt = 1]
              \/ \E p \in {"done", "attempt"} :
                    apply' = [apply EXCEPT ![a].queue = apply[a].queue \ {q}, ![a].pc = p]
      BY <2>9 DEF RecordAttempt, AfterOne
    <3>2. apply[a].pc = "attempt"
      BY <2>9 DEF RecordAttempt
    <3>3. QED
      BY <3>1, <3>2
  <2>10. CASE AttemptFails(a)
    <3>1. PICK q \in apply[a].queue, p \in {"done", "attempt"} :
              apply' = [apply EXCEPT ![a].queue = apply[a].queue \ {q}, ![a].pc = p]
      BY <2>10 DEF AttemptFails, AfterOne
    <3>2. apply[a].pc = "attempt"
      BY <2>10 DEF AttemptFails
    <3>3. QED
      BY <3>1, <3>2
  <2>11. CASE Send(a)
    <3>1. \/ \E b : apply' = [apply EXCEPT ![a].pc = "outcome", ![a].success = b]
          \/ apply' = [apply EXCEPT ![a].attempt = apply[a].attempt + 1]
      BY <2>11, Zenon DEF Send
    <3>2. apply[a].pc = "send"
      BY <2>11 DEF Send
    <3>3. QED
      BY <3>1, <3>2
  <2>12. CASE RecordOutcome(a) \/ OutcomeFails(a)
    <3>1. PICK p \in {"done", "attempt"} :
              apply' = [apply EXCEPT ![a] = [apply[a] EXCEPT !.pc = p, !.system = None,
                                                             !.attempt = 0, !.success = FALSE]]
      BY <2>12 DEF RecordOutcome, OutcomeFails, Next1, AfterOne
    <3>2. apply[a].pc = "outcome"
      BY <2>12 DEF RecordOutcome, OutcomeFails
    <3>3. QED
      BY <3>1, <3>2
  <2>13. CASE Dropped(a)
    BY <2>13 DEF Dropped, Idle
  <2>14. QED
    BY <1>4, <2>3, <2>4, <2>5, <2>6, <2>7, <2>8, <2>9, <2>10, <2>11, <2>12, <2>13
       DEF ApplyStep, DispatchStep
<1>5. CASE UNCHANGED apply
  BY <1>3, <1>5 DEF Knows
<1>6. ASSUME NEW a \in Applies, ApplyStep(a)
      PROVE  \A b \in Applies :
                KnowsOf(b)'
                /\ (apply'[b].pc \in {"send", "outcome"} => rec'[apply'[b].system].exists)
  BY <1>3, <1>4, <1>6, ApplyRows
<1>7. QED
  BY <1>5, <1>6, WhoMoves DEF Knows

\* What nobody but a subscription's owner, or only a round of sending, changes.
LEMMA TypeStep ==
    ASSUME PropagationTypeOK, Knows, [Next]_vars PROVE PropagationTypeOK'
<1>1. rec' \in [Systems -> PropagationRecord]
  BY RecordsStay
<1>2. apply' \in [Applies -> ApplyRow]
  BY ApplyTypes
<1>3. \A a \in Applies : apply'[a].pc \in {"send", "outcome"} => rec'[apply'[a].system].exists
  BY KnowsStep
<1>4. sub' \in [Subs -> [exists : BOOLEAN, system : Systems \union {None}, status : SubStatuses]]
  <2>1. ASSUME NEW u \in Subs, UpdateSubscription(u)
        PROVE  \E s \in Systems \union {None}, st \in SubStatuses :
                  sub' = [sub EXCEPT ![u].system = s, ![u].status = st]
    <3>1. PICK s \in Systems \union {None}, st \in SubStatuses, given \in {2, 3} :
              sub' = [sub EXCEPT ![u].system = s, ![u].status = IF given = 3 THEN st ELSE @]
      BY <2>1 DEF UpdateSubscription
    <3>2. CASE given = 3
      BY <3>1, <3>2
    <3>3. CASE given # 3
      <4>1. sub[u].status \in SubStatuses
        BY DEF PropagationTypeOK
      <4>2. sub' = [sub EXCEPT ![u].system = s, ![u].status = sub[u].status]
        BY <3>1, <3>3 DEF PropagationTypeOK
      <4>3. QED
        BY <4>1, <4>2
    <3>4. QED
      BY <3>2, <3>3
  <2>2. ASSUME NEW u \in Subs,
               CreateSubscription(u) \/ UpdateSubscription(u) \/ DeleteSubscription(u)
        PROVE  sub' \in [Subs -> [exists : BOOLEAN, system : Systems \union {None},
                                  status : SubStatuses]]
    <3> DEFINE Row == [exists : BOOLEAN, system : Systems \union {None}, status : SubStatuses]
    <3>1. sub \in [Subs -> Row]
      BY DEF PropagationTypeOK
    <3> SUFFICES \E x \in Row : sub' = [sub EXCEPT ![u] = x]
      BY <3>1, Zenon
    <3>2. CASE UpdateSubscription(u)
      <4>1. PICK s \in Systems \union {None}, st \in SubStatuses :
                sub' = [sub EXCEPT ![u].system = s, ![u].status = st]
        BY <2>1, <3>2
      <4> DEFINE x == [sub[u] EXCEPT !.system = s, !.status = st]
      <4>2. x \in Row
        BY <3>1, <4>1
      <4>3. sub' = [sub EXCEPT ![u] = x]
        BY <3>1, <4>1
      <4>4. QED
        BY <4>2, <4>3
    <3>3. CASE CreateSubscription(u)
      BY <3>3 DEF CreateSubscription, SubStatuses
    <3>4. CASE DeleteSubscription(u)
      <4>1. [sub[u] EXCEPT !.status = "deleted"] \in Row
        BY <3>1 DEF SubStatuses
      <4>2. sub' = [sub EXCEPT ![u] = [sub[u] EXCEPT !.status = "deleted"]]
        BY <3>4 DEF DeleteSubscription
      <4>3. QED
        BY <4>1, <4>2
    <3>5. QED
      BY <2>2, <3>2, <3>3, <3>4
  <2>3. ASSUME NEW a \in Applies, ApplyStep(a) PROVE sub' = sub
    BY <2>3 DEF ApplyStep, DispatchStep, Proceed, ListRecords, SignalRecord, ListAgain, Resolve,
                RecordAttempt, Send, RecordOutcome, SignalFails, ListFails, AttemptFails,
                OutcomeFails, Dropped
  <2>4. ASSUME NEW s \in Systems, IngestSignal(s) PROVE sub' = sub
    BY <2>4 DEF IngestSignal
  <2>5. QED
    BY <2>2, <2>3, <2>4 DEF Next, ApplyStep, vars, PropagationTypeOK
<1>5. /\ delivery' \in Deliveries /\ received' \in [Systems -> SUBSET Versions]
      /\ posts' \in [Systems -> Nat] /\ excused' \subseteq Systems
  <2>1. ASSUME NEW a \in Applies, Send(a)
        PROVE  /\ received' \in [Systems -> SUBSET Versions] /\ posts' \in [Systems -> Nat]
               /\ excused' = excused
    <3>1. apply[a].system \in Systems /\ apply[a].version \in Versions
      BY <2>1 DEF Knows, KnowsOf, Send, At
    <3>2. PICK new \in SUBSET Versions :
              received' = [received EXCEPT ![apply[a].system] = @ \union new]
      BY <2>1, <3>1, Zenon DEF Send
    <3>3. posts' = [posts EXCEPT ![apply[a].system] = @ + 1] /\ excused' = excused
      BY <2>1 DEF Send
    <3>4. QED
      BY <3>1, <3>2, <3>3 DEF PropagationTypeOK
  <2>2. ASSUME NEW a \in Applies, ApplyStep(a), ~Send(a)
        PROVE  received' = received /\ posts' = posts
    BY <2>2 DEF ApplyStep, DispatchStep, Proceed, ListRecords, SignalRecord, ListAgain, Resolve,
                RecordAttempt, RecordOutcome, SignalFails, ListFails, AttemptFails,
                OutcomeFails, Dropped
  <2>3. ASSUME NEW a \in Applies, ApplyStep(a), ~Send(a) PROVE excused' \subseteq Systems
    <3>1. ASSUME OutcomeFails(a) PROVE excused' \subseteq Systems
      BY <3>1 DEF OutcomeFails, PropagationTypeOK, Knows, KnowsOf
    <3>2. ASSUME SignalRecord(a) PROVE excused' \subseteq Systems
      BY <3>2 DEF SignalRecord, PropagationTypeOK
    <3>3. ASSUME RecordAttempt(a) \/ AttemptFails(a) PROVE excused' \subseteq Systems
      <4>1. PICK q \in apply[a].queue :
                excused' = excused \/ excused' = excused \union ({q.system} \ {None})
        BY <3>3 DEF RecordAttempt, AttemptFails
      <4>2. q.system \in Systems \union {None}
        BY <4>1 DEF PropagationTypeOK
      <4>3. QED
        BY <4>1, <4>2 DEF PropagationTypeOK
    <3>4. ASSUME \/ Proceed(a) \/ ListRecords(a) \/ ListAgain(a) \/ Resolve(a) \/ RecordOutcome(a)
                 \/ SignalFails(a) \/ ListFails(a) \/ Dropped(a)
          PROVE  excused' \subseteq Systems
      BY <3>4 DEF Proceed, ListRecords, ListAgain, Resolve, RecordOutcome, SignalFails, ListFails,
                  Dropped, PropagationTypeOK
    <3>5. QED
      BY <2>3, <3>1, <3>2, <3>3, <3>4 DEF ApplyStep, DispatchStep
  <2>4. ASSUME NEW a \in Applies, ApplyStep(a) PROVE delivery' = delivery
    BY <2>4 DEF ApplyStep, DispatchStep, Proceed, ListRecords, SignalRecord, ListAgain, Resolve,
                RecordAttempt, Send, RecordOutcome, SignalFails, ListFails, AttemptFails,
                OutcomeFails, Dropped
  <2>5. QED
    BY <2>1, <2>2, <2>3, <2>4, WhoMoves DEF PropagationTypeOK
<1>6. faults' \in 0..MaxFaults /\ edits' \in 0..MaxEdits
  <2>1. faults \in 0..MaxFaults /\ edits \in 0..MaxEdits /\ MaxFaults \in Nat /\ MaxEdits \in Nat
    BY PropagationAssumption DEF PropagationTypeOK
  <2>2. faults' = faults \/ Fault
    BY DEF Next, DispatchStep, vars, IngestSignal, CreateSubscription, UpdateSubscription,
           DeleteSubscription, Proceed, ListRecords, SignalRecord, ListAgain, Resolve,
           RecordAttempt, Send, RecordOutcome, SignalFails, ListFails, AttemptFails,
           OutcomeFails, Dropped
  <2>3. edits' = edits \/ Edit
    BY DEF Next, DispatchStep, vars, IngestSignal, CreateSubscription, UpdateSubscription,
           DeleteSubscription, Proceed, ListRecords, SignalRecord, ListAgain, Resolve,
           RecordAttempt, Send, RecordOutcome, SignalFails, ListFails, AttemptFails,
           OutcomeFails, Dropped
  <2>4. QED
    BY <2>1, <2>2, <2>3 DEF Fault, Edit
<1>7. QED
  BY <1>1, <1>2, <1>3, <1>4, <1>5, <1>6 DEF PropagationTypeOK, ApplyRow

-----------------------------------------------------------------------------
(* The steps of a dispatch, by what they make of where it stands. *)

Skips(a) ==
    /\ At(a, "attempt") /\ apply'[a].system = apply[a].system
    /\ \E q \in apply[a].queue :
        /\ apply'[a].queue = apply[a].queue \ {q}
        /\ apply'[a].pc = AfterOne(apply[a].queue \ {q})
        /\ excused' = excused \union ({q.system} \ {None})

Starts(a) ==
    /\ At(a, "attempt")
    /\ \E q \in apply[a].queue :
        /\ q.system \in apply[a].known
        /\ apply'[a] = [apply[a] EXCEPT !.pc = "send", !.queue = apply[a].queue \ {q},
                                        !.system = q.system, !.attempt = 1]
        /\ rec' = [rec EXCEPT ![q.system].delivery_attempt_count = @ + 1]
        /\ UNCHANGED <<posts, excused>>

\* SMT reads one row more easily than the function it is a row of.
LEMMA Moves ==
    ASSUME PropagationTypeOK, NEW a \in Applies
    PROVE  /\ Proceed(a) => At(a, "idle") /\ apply'[a].pc = "list"
           /\ ListRecords(a) => At(a, "list") /\ apply'[a].pc \in {"done", "signal"}
                                /\ (apply'[a].pc = "done" => Recorded = {})
           /\ SignalRecord(a) \/ SignalFails(a) =>
                At(a, "signal")
                /\ \E s \in apply[a].todo : apply'[a].pc = AfterSignals(apply[a].todo \ {s})
           /\ ListAgain(a) => At(a, "list_again") /\ apply'[a].pc = "resolve"
           /\ Resolve(a) =>
                At(a, "resolve") /\ apply'[a].queue = Resolved
                /\ apply'[a].pc = IF Resolved = {} THEN "done" ELSE "attempt"
           /\ RecordAttempt(a) => Starts(a) \/ (Skips(a) /\ UNCHANGED rec)
           /\ AttemptFails(a) => Skips(a) /\ UNCHANGED rec
           /\ RecordOutcome(a) \/ OutcomeFails(a) =>
                At(a, "outcome") /\ apply'[a].pc = AfterOne(apply[a].queue)
                /\ apply'[a].queue = apply[a].queue
           /\ ListFails(a) \/ Dropped(a) => apply'[a].pc = "done"
<1>1. apply \in [Applies -> ApplyRow]
  BY DEF PropagationTypeOK, ApplyRow
<1> USE <1>1 DEF ApplyRow
<1>2. Proceed(a) => At(a, "idle") /\ apply'[a].pc = "list"
  BY DEF Proceed
<1>3. ListRecords(a) => At(a, "list") /\ apply'[a].pc \in {"done", "signal"}
                        /\ (apply'[a].pc = "done" => Recorded = {})
  BY DEF ListRecords
<1>4. SignalRecord(a) \/ SignalFails(a) =>
        At(a, "signal")
        /\ \E s \in apply[a].todo : apply'[a].pc = AfterSignals(apply[a].todo \ {s})
  BY DEF SignalRecord, SignalFails
<1>5. ListAgain(a) => At(a, "list_again") /\ apply'[a].pc = "resolve"
  BY DEF ListAgain
<1>6. Resolve(a) => At(a, "resolve") /\ apply'[a].queue = Resolved
                    /\ apply'[a].pc = IF Resolved = {} THEN "done" ELSE "attempt"
  BY DEF Resolve
<1>7. ASSUME RecordAttempt(a) PROVE Starts(a) \/ (Skips(a) /\ UNCHANGED rec)
  <2>1. PICK q \in apply[a].queue :
            \/ /\ q.system \in apply[a].known
               /\ rec' = [rec EXCEPT ![q.system].delivery_attempt_count = @ + 1]
               /\ apply' = [apply EXCEPT ![a].pc = "send", ![a].queue = apply[a].queue \ {q},
                                         ![a].system = q.system, ![a].attempt = 1]
               /\ UNCHANGED <<posts, excused>>
            \/ /\ apply' = [apply EXCEPT ![a].queue = apply[a].queue \ {q},
                                         ![a].pc = AfterOne(apply[a].queue \ {q})]
               /\ excused' = excused \union ({q.system} \ {None}) /\ UNCHANGED rec
    BY <1>7 DEF RecordAttempt
  <2>2. At(a, "attempt")
    BY <1>7 DEF RecordAttempt
  <2>3. CASE /\ q.system \in apply[a].known
             /\ rec' = [rec EXCEPT ![q.system].delivery_attempt_count = @ + 1]
             /\ apply' = [apply EXCEPT ![a].pc = "send", ![a].queue = apply[a].queue \ {q},
                                       ![a].system = q.system, ![a].attempt = 1]
             /\ UNCHANGED <<posts, excused>>
    <3>1. apply'[a] = [apply[a] EXCEPT !.pc = "send", !.queue = apply[a].queue \ {q},
                                       !.system = q.system, !.attempt = 1]
      BY <2>3
    <3>2. QED
      BY <2>1, <2>2, <2>3, <3>1 DEF Starts
  <2>4. CASE /\ apply' = [apply EXCEPT ![a].queue = apply[a].queue \ {q},
                                       ![a].pc = AfterOne(apply[a].queue \ {q})]
             /\ excused' = excused \union ({q.system} \ {None}) /\ UNCHANGED rec
    BY <2>1, <2>2, <2>4 DEF Skips
  <2>5. QED
    BY <2>1, <2>3, <2>4
<1>8. ASSUME AttemptFails(a) PROVE Skips(a) /\ UNCHANGED rec
  <2>1. PICK q \in apply[a].queue :
            /\ apply' = [apply EXCEPT ![a].queue = apply[a].queue \ {q},
                                      ![a].pc = AfterOne(apply[a].queue \ {q})]
            /\ excused' = excused \union ({q.system} \ {None})
    BY <1>8 DEF AttemptFails
  <2>2. At(a, "attempt") /\ UNCHANGED rec
    BY <1>8 DEF AttemptFails
  <2>3. QED
    BY <2>1, <2>2 DEF Skips
<1>9. RecordOutcome(a) \/ OutcomeFails(a) =>
        At(a, "outcome") /\ apply'[a].pc = AfterOne(apply[a].queue)
        /\ apply'[a].queue = apply[a].queue
  BY DEF RecordOutcome, OutcomeFails, Next1
<1>10. ListFails(a) \/ Dropped(a) => apply'[a].pc = "done"
  BY DEF ListFails, Dropped, Idle
<1>11. QED
  BY <1>2, <1>3, <1>4, <1>5, <1>6, <1>7, <1>8, <1>9, <1>10

-----------------------------------------------------------------------------
(* A status is earned. *)

\* Only a round of sending adds to what the systems were sent and given; it
\* sends one request to the system it is at, which has a record.
LEMMA SendSends ==
    ASSUME PropagationTypeOK, Knows, [Next]_vars
    PROVE  \/ UNCHANGED <<posts, received>>
           \/ \E a \in Applies :
                /\ Send(a) /\ apply[a].system \in Systems /\ rec[apply[a].system].exists
                /\ posts' = [posts EXCEPT ![apply[a].system] = @ + 1]
                /\ \E new \in SUBSET Versions :
                     received' = [received EXCEPT ![apply[a].system] = @ \union new]
<1>1. ASSUME NEW a \in Applies, Send(a)
      PROVE  /\ apply[a].system \in Systems /\ rec[apply[a].system].exists
             /\ posts' = [posts EXCEPT ![apply[a].system] = @ + 1]
             /\ \E new \in SUBSET Versions :
                  received' = [received EXCEPT ![apply[a].system] = @ \union new]
  <2>1. apply[a].system \in Systems /\ apply[a].version \in Versions /\ apply[a].pc = "send"
    BY <1>1 DEF Knows, KnowsOf, Send, At
  <2>2. \E new \in SUBSET Versions :
            received' = [received EXCEPT ![apply[a].system] = @ \union new]
    BY <1>1, <2>1, Zenon DEF Send
  <2>3. QED
    BY <1>1, <2>1, <2>2 DEF Send, PropagationTypeOK
<1>2. ASSUME NEW a \in Applies, ApplyStep(a), ~Send(a) PROVE UNCHANGED <<posts, received>>
  BY <1>2 DEF ApplyStep, DispatchStep, Proceed, ListRecords, SignalRecord, ListAgain, Resolve,
              RecordAttempt, RecordOutcome, SignalFails, ListFails, AttemptFails,
              OutcomeFails, Dropped
<1>3. QED
  BY <1>1, <1>2, WhoMoves

\* What a system was told, and what it answered, is never taken back.
LEMMA HistoryGrows ==
    ASSUME PropagationTypeOK, Knows, [Next]_vars, NEW s \in Systems
    PROVE  /\ received[s] \subseteq received'[s]
           /\ posts[s] # 0 => posts'[s] # 0
  BY SendSends DEF PropagationTypeOK

\* A dispatch comes to store an answer only by a round of sending that was
\* answered, and what it is at then does not change until it is stored.
LEMMA OutcomeFrom ==
    ASSUME PropagationTypeOK, Knows, [Next]_vars, NEW a \in Applies, apply'[a].pc = "outcome"
    PROVE  \/ apply'[a] = apply[a]
           \/ /\ Send(a) /\ apply'[a].system = apply[a].system /\ apply[a].system \in Systems
              /\ apply'[a].success => received'[apply[a].system] # {}
<1>1. apply \in [Applies -> ApplyRow] /\ apply' \in [Applies -> ApplyRow]
  BY ApplyTypes DEF PropagationTypeOK, ApplyRow
<1>2. ASSUME ApplyStep(a) PROVE Send(a)
  BY <1>1, <1>2, Moves DEF ApplyStep, DispatchStep, AfterSignals, AfterOne, Starts, Skips, ApplyRow
<1>3. ASSUME Send(a), apply'[a] # apply[a]
      PROVE  /\ apply'[a].system = apply[a].system /\ apply[a].system \in Systems
             /\ apply'[a].success => received'[apply[a].system] # {}
  <2>1. apply[a].system \in Systems /\ apply[a].pc = "send"
    BY <1>3 DEF Send, Knows, KnowsOf, At
  <2>2. PICK answer \in Answers, arrived \in BOOLEAN :
            /\ answer = "success" => arrived
            /\ received' = [received EXCEPT ![apply[a].system] =
                                @ \union (IF arrived THEN {apply[a].version} ELSE {})]
            /\ \/ apply' = [apply EXCEPT ![a].pc = "outcome", ![a].success = answer = "success"]
               \/ apply' = [apply EXCEPT ![a].attempt = apply[a].attempt + 1]
    BY <1>3, Zenon DEF Send
  <2>3. apply' = [apply EXCEPT ![a].pc = "outcome", ![a].success = answer = "success"]
    BY <2>1, <2>2, <1>1 DEF ApplyRow
  <2>4. apply'[a].system = apply[a].system /\ (apply'[a].success => answer = "success")
    BY <2>3, <1>1 DEF ApplyRow
  <2>5. ASSUME apply'[a].success PROVE received'[apply[a].system] # {}
    <3>1. arrived
      BY <2>2, <2>4, <2>5
    <3>2. received' = [received EXCEPT ![apply[a].system] = @ \union {apply[a].version}]
      BY <2>2, <3>1
    <3>3. QED
      BY <2>1, <3>2 DEF PropagationTypeOK
  <2>6. QED
    BY <2>1, <2>4, <2>5
<1>4. CASE UNCHANGED apply
  BY <1>4
<1>5. ASSUME NEW b \in Applies, ApplyStep(b)
      PROVE  apply'[a] = apply[a] \/ Send(a)
  BY <1>2, <1>5, ApplyRows
<1>6. QED
  BY <1>3, <1>4, <1>5, WhoMoves

\* An answer is recorded only when the system gave it.
LEMMA AnswerRealStep ==
    ASSUME PropagationTypeOK, Knows, AnswerReal, [Next]_vars PROVE AnswerReal'
<1> SUFFICES ASSUME NEW a \in Applies, apply'[a].pc = "outcome"
             PROVE  /\ posts'[apply'[a].system] # 0
                    /\ apply'[a].success => received'[apply'[a].system] # {}
  BY DEF AnswerReal, At
<1>1. CASE apply'[a] = apply[a]
  <2>1. apply[a].system \in Systems /\ posts[apply[a].system] # 0
        /\ (apply[a].success => received[apply[a].system] # {})
    BY <1>1 DEF AnswerReal, Knows, KnowsOf, At
  <2>2. received[apply[a].system] \subseteq received'[apply[a].system]
        /\ posts'[apply[a].system] # 0
    BY <2>1, HistoryGrows
  <2>3. QED
    BY <1>1, <2>1, <2>2
<1>2. CASE /\ Send(a) /\ apply'[a].system = apply[a].system /\ apply[a].system \in Systems
           /\ apply'[a].success => received'[apply[a].system] # {}
  <2>1. posts' = [posts EXCEPT ![apply[a].system] = @ + 1]
    BY <1>2 DEF Send
  <2>2. posts[apply[a].system] \in Nat
    BY <1>2 DEF PropagationTypeOK
  <2>3. posts'[apply[a].system] = posts[apply[a].system] + 1
    BY <1>2, <2>1 DEF PropagationTypeOK
  <2>4. QED
    BY <1>2, <2>2, <2>3
<1>3. QED
  BY <1>1, <1>2, OutcomeFrom

\* What a step makes of a record: it is new, signalled anew, settled with a
\* real answer, or has its status kept.
LEMMA StatusFrom ==
    ASSUME PropagationTypeOK, Knows, [Next]_vars, NEW s \in Systems
    PROVE  \/ ~rec[s].exists /\ rec'[s] = NewRecord
           \/ \E a \in Applies, v \in Versions :
                SignalRecord(a) /\ At(a, "signal") /\ s \in apply[a].todo
                /\ rec'[s] = Resignalled(rec[s], v)
                /\ (delivery = "off" => s \in excused')
           \/ \E a \in Applies :
                /\ RecordOutcome(a) /\ At(a, "outcome") /\ apply[a].system = s
                /\ rec'[s] = Settled(rec[s], apply[a].success)
           \/ /\ rec'[s].exists = rec[s].exists /\ rec'[s].status = rec[s].status
              /\ rec'[s].failed = rec[s].failed
              /\ rec'[s].last_seen_version = rec[s].last_seen_version
<1> DEFINE Same == /\ rec'[s].exists = rec[s].exists /\ rec'[s].status = rec[s].status
                   /\ rec'[s].failed = rec[s].failed
                   /\ rec'[s].last_seen_version = rec[s].last_seen_version
<1>1. rec \in [Systems -> PropagationRecord]
  BY DEF PropagationTypeOK
<1>2. ASSUME NEW z \in Systems, IngestSignal(z)
      PROVE  (~rec[s].exists /\ rec'[s] = NewRecord) \/ Same
  BY <1>1, <1>2 DEF IngestSignal
<1>3. ASSUME NEW u \in Subs, CreateSubscription(u) \/ UpdateSubscription(u) \/ DeleteSubscription(u)
      PROVE  Same
  BY <1>3 DEF CreateSubscription, UpdateSubscription, DeleteSubscription
<1>4. ASSUME NEW a \in Applies, SignalRecord(a)
      PROVE  \/ \E v \in Versions :
                   /\ At(a, "signal") /\ s \in apply[a].todo /\ rec'[s] = Resignalled(rec[s], v)
                   /\ (delivery = "off" => s \in excused')
             \/ Same
  <2>1. apply[a].version \in Versions /\ At(a, "signal")
    BY <1>4 DEF SignalRecord, Knows, KnowsOf, At
  <2>2. PICK z \in apply[a].todo :
            /\ rec' = [rec EXCEPT ![z] = Resignalled(@, apply[a].version)]
            /\ excused' = IF delivery = "off" THEN excused \union {z} ELSE excused
    BY <1>4 DEF SignalRecord
  <2>3. QED
    BY <1>1, <2>1, <2>2
<1>5. ASSUME NEW a \in Applies, RecordAttempt(a) PROVE Same
  <2>1. CASE UNCHANGED rec
    BY <2>1
  <2>2. CASE Starts(a)
    <3>1. PICK z : rec' = [rec EXCEPT ![z].delivery_attempt_count = @ + 1]
      BY <2>2 DEF Starts
    <3>2. QED
      BY <1>1, <3>1 DEF PropagationRecord
  <2>3. QED
    BY <1>5, <2>1, <2>2, Moves
<1>6. ASSUME NEW a \in Applies, RecordOutcome(a)
      PROVE  \/ /\ At(a, "outcome") /\ apply[a].system = s
                /\ rec'[s] = Settled(rec[s], apply[a].success)
             \/ Same
  BY <1>1, <1>6 DEF RecordOutcome
<1>7. ASSUME NEW a \in Applies,
             \/ Proceed(a) \/ ListRecords(a) \/ ListAgain(a) \/ Resolve(a) \/ Send(a)
             \/ SignalFails(a) \/ ListFails(a) \/ AttemptFails(a) \/ OutcomeFails(a) \/ Dropped(a)
      PROVE  Same
  BY <1>7 DEF Proceed, ListRecords, ListAgain, Resolve, Send, SignalFails, ListFails,
              AttemptFails, OutcomeFails, Dropped
<1>8. CASE UNCHANGED vars
  BY <1>8 DEF vars
<1> HIDE DEF Same
<1>9. QED
  BY <1>2, <1>3, <1>4, <1>5, <1>6, <1>7, <1>8 DEF Next, DispatchStep, Same

\* A status is written only on what was sent or answered.
LEMMA EarnedStep ==
    ASSUME PropagationTypeOK, Knows, AnswerReal, Earned, [Next]_vars PROVE Earned'
<1> SUFFICES ASSUME NEW s \in Systems
             PROVE  /\ posts'[s] # 0 => rec'[s].exists
                    /\ rec'[s].exists =>
                        /\ rec'[s].status = "acknowledged" => received'[s] # {}
                        /\ rec'[s].failed => posts'[s] # 0
  BY DEF Earned
<1>1. /\ posts[s] # 0 => rec[s].exists
      /\ rec[s].exists =>
          /\ rec[s].status = "acknowledged" => received[s] # {}
          /\ rec[s].failed => posts[s] # 0
  BY DEF Earned
<1>2. received[s] \subseteq received'[s] /\ (posts[s] # 0 => posts'[s] # 0)
  BY HistoryGrows
<1>3. rec[s].exists => rec'[s].exists
  BY RecordsStay
<1>4. posts'[s] # 0 => rec'[s].exists
  BY <1>1, <1>3, SendSends DEF PropagationTypeOK
<1>5. rec[s] \in PropagationRecord
  BY DEF PropagationTypeOK
<1>6. CASE ~rec[s].exists /\ rec'[s] = NewRecord
  BY <1>4, <1>6 DEF NewRecord
<1>7. CASE \E v \in Versions : rec'[s] = Resignalled(rec[s], v)
  BY <1>1, <1>2, <1>4, <1>5, <1>7 DEF Resignalled, PropagationRecord
<1>8. ASSUME NEW a \in Applies, At(a, "outcome"), apply[a].system = s,
             rec'[s] = Settled(rec[s], apply[a].success)
      PROVE  /\ rec'[s].status = "acknowledged" => received'[s] # {}
             /\ rec'[s].failed => posts'[s] # 0
  <2>1. posts[s] # 0 /\ (apply[a].success => received[s] # {})
    BY <1>8 DEF AnswerReal
  <2>2. QED
    BY <1>2, <1>5, <1>8, <2>1 DEF Settled, PropagationRecord
<1>9. CASE /\ rec'[s].exists = rec[s].exists /\ rec'[s].status = rec[s].status
           /\ rec'[s].failed = rec[s].failed
  BY <1>1, <1>2, <1>4, <1>9
<1>10. QED
  BY <1>4, <1>6, <1>7, <1>8, <1>9, StatusFrom

-----------------------------------------------------------------------------
(* Every request was paid for by a counted attempt. *)

\* One more attempt is one more share of the posts.
LEMMA OneMore == ASSUME NEW m \in Nat, NEW c \in Nat PROVE m * (c + 1) = m * c + m
  OBVIOUS

\* A dispatch that is not sending to s after the step, or that has not moved,
\* is allowed nothing more for s.
LEMMA AllowedShrinks ==
    ASSUME NEW s, NEW a \in Applies, \A b \in Applies \ {a} : apply'[b] = apply[b]
    PROVE  /\ Allowed(s)' \subseteq Allowed(s) \union ({a} \X (1..MaxAttempts))
           /\ (~(apply'[a].pc = "send" /\ apply'[a].system = s) => Allowed(s)' \subseteq Allowed(s))
  BY DEF Allowed, At

\* Who can be allowed more requests, and who uses one up.
LEMMA AllowedStep ==
    ASSUME PropagationTypeOK, Knows, [Next]_vars, NEW s \in Systems
    PROVE  \/ Allowed(s)' \subseteq Allowed(s) /\ posts'[s] = posts[s]
           \/ \E a \in Applies :
                /\ Starts(a) /\ posts' = posts
                /\ rec'[s].delivery_attempt_count = rec[s].delivery_attempt_count + 1
                /\ Allowed(s)' \subseteq Allowed(s) \union ({a} \X (1..MaxAttempts))
           \/ \E x \in Allowed(s) :
                Allowed(s)' \subseteq Allowed(s) \ {x} /\ posts'[s] = posts[s] + 1
<1>1. apply \in [Applies -> ApplyRow] /\ MaxAttempts \in Nat \ {0}
      /\ rec \in [Systems -> PropagationRecord] /\ posts \in [Systems -> Nat]
  BY PropagationAssumption DEF PropagationTypeOK, ApplyRow
<1>2. CASE UNCHANGED <<apply, posts>>
  BY <1>2 DEF Allowed, At
<1>3. ASSUME NEW a \in Applies, Send(a)
      PROVE  \/ Allowed(s)' \subseteq Allowed(s) /\ posts'[s] = posts[s]
             \/ \E x \in Allowed(s) :
                  Allowed(s)' \subseteq Allowed(s) \ {x} /\ posts'[s] = posts[s] + 1
  <2>1. /\ apply[a].pc = "send" /\ apply[a].attempt \in 1..MaxAttempts
        /\ posts' = [posts EXCEPT ![apply[a].system] = @ + 1]
    BY <1>1, <1>3 DEF Send, Knows, KnowsOf, At, ApplyRow
  <2>2. \/ \E b : apply' = [apply EXCEPT ![a].pc = "outcome", ![a].success = b]
        \/ apply' = [apply EXCEPT ![a].attempt = apply[a].attempt + 1]
    BY <1>3, Zenon DEF Send
  <2>3. /\ apply'[a].system = apply[a].system
        /\ \/ apply'[a].pc = "outcome"
           \/ apply'[a].pc = "send" /\ apply'[a].attempt = apply[a].attempt + 1
        /\ \A b \in Applies \ {a} : apply'[b] = apply[b]
    BY <1>1, <2>1, <2>2 DEF ApplyRow
  <2>4. CASE apply[a].system = s
    <3> DEFINE x == <<a, apply[a].attempt>>
    <3>1. x \in Allowed(s)
      BY <2>1, <2>4 DEF Allowed, At
    <3>2. Allowed(s)' \subseteq Allowed(s) \ {x}
      <4>1. ASSUME NEW y \in Allowed(s)' PROVE y \in Allowed(s) /\ y # x
        <5>1. /\ y \in Applies \X (1..MaxAttempts)
              /\ apply'[y[1]].pc = "send" /\ apply'[y[1]].system = s /\ apply'[y[1]].attempt <= y[2]
          BY <4>1 DEF Allowed, At
        <5>2. CASE y[1] = a
          <6>1. apply[a].attempt + 1 <= y[2]
            BY <2>3, <5>1, <5>2
          <6>2. apply[a].attempt <= y[2] /\ apply[a].attempt # y[2]
            BY <2>1, <5>1, <6>1
          <6>3. QED
            BY <2>1, <2>4, <5>1, <5>2, <6>2 DEF Allowed, At
        <5>3. CASE y[1] # a
          <6>1. apply'[y[1]] = apply[y[1]]
            BY <2>3, <5>1, <5>3
          <6>2. QED
            BY <5>1, <5>3, <6>1 DEF Allowed, At
        <5>4. QED
          BY <5>2, <5>3
      <4>2. QED
        BY <4>1
    <3>3. posts'[s] = posts[s] + 1
      BY <1>1, <2>1, <2>4
    <3>4. QED
      BY <3>1, <3>2, <3>3
  <2>5. CASE apply[a].system # s
    <3>1. Allowed(s)' \subseteq Allowed(s)
      BY <2>3, <2>5, AllowedShrinks
    <3>2. posts'[s] = posts[s]
      BY <1>1, <2>1, <2>5
    <3>3. QED
      BY <3>1, <3>2
  <2>6. QED
    BY <2>4, <2>5
<1>4. ASSUME NEW a \in Applies, ApplyStep(a), ~Send(a)
      PROVE  \/ Allowed(s)' \subseteq Allowed(s)
             \/ /\ Starts(a)
                /\ rec'[s].delivery_attempt_count = rec[s].delivery_attempt_count + 1
                /\ Allowed(s)' \subseteq Allowed(s) \union ({a} \X (1..MaxAttempts))
  <2>1. \A b \in Applies \ {a} : apply'[b] = apply[b]
    BY <1>4, ApplyRows
  <2>2. CASE Starts(a)
    <3>1. PICK q \in apply[a].queue :
              /\ q.system \in apply[a].known
              /\ apply'[a] = [apply[a] EXCEPT !.pc = "send", !.queue = apply[a].queue \ {q},
                                              !.system = q.system, !.attempt = 1]
              /\ rec' = [rec EXCEPT ![q.system].delivery_attempt_count = @ + 1]
      BY <2>2 DEF Starts
    <3>2. apply'[a].system = q.system
      BY <1>1, <3>1 DEF ApplyRow
    <3>3. CASE q.system = s
      <4>1. rec'[s].delivery_attempt_count = rec[s].delivery_attempt_count + 1
        BY <1>1, <3>1, <3>3 DEF PropagationRecord
      <4>2. QED
        BY <2>1, <2>2, <4>1, AllowedShrinks
    <3>4. CASE q.system # s
      BY <2>1, <3>2, <3>4, AllowedShrinks
    <3>5. QED
      BY <3>3, <3>4
  <2>3. CASE ~Starts(a)
    <3>1. apply'[a].pc # "send"
      BY <1>4, <2>3, Moves DEF ApplyStep, DispatchStep, AfterSignals, AfterOne, Skips
    <3>2. QED
      BY <2>1, <3>1, AllowedShrinks
  <2>4. QED
    BY <2>2, <2>3
<1>5. ASSUME NEW a \in Applies, ApplyStep(a), ~Send(a) PROVE posts' = posts
  BY <1>5 DEF ApplyStep, DispatchStep, Proceed, ListRecords, SignalRecord, ListAgain, Resolve,
              RecordAttempt, RecordOutcome, SignalFails, ListFails, AttemptFails,
              OutcomeFails, Dropped
<1>6. QED
  BY <1>2, <1>3, <1>4, <1>5, WhoMoves

\* Posts are paid for by the dispatches that make them.
LEMMA PaidStep ==
    ASSUME PropagationTypeOK, Knows, Earned, Paid, [Next]_vars PROVE Paid'
<1> SUFFICES ASSUME NEW s \in Systems
             PROVE  /\ IsFiniteSet(Allowed(s)')
                    /\ posts'[s] + Cardinality(Allowed(s)')
                          <= MaxAttempts * rec'[s].delivery_attempt_count
  BY DEF Paid
<1> DEFINE count  == rec[s].delivery_attempt_count
           countN == rec'[s].delivery_attempt_count
           left   == Cardinality(Allowed(s))
           leftN  == Cardinality(Allowed(s)')
<1>1. /\ IsFiniteSet(Allowed(s)) /\ posts[s] + left <= MaxAttempts * count
      /\ left \in Nat /\ posts[s] \in Nat /\ posts'[s] \in Nat
      /\ count \in Nat /\ countN \in Nat /\ MaxAttempts \in Nat \ {0}
  BY RecordsStay, TypeStep, FS_CardinalityType, PropagationAssumption
     DEF Paid, PropagationTypeOK, PropagationRecord
<1>2. countN = count \/ countN = count + 1 \/ (~rec[s].exists /\ rec'[s] = NewRecord)
  <2>1. rec \in [Systems -> PropagationRecord]
    BY DEF PropagationTypeOK
  <2>2. ASSUME NEW z \in Systems, IngestSignal(z)
        PROVE  countN = count \/ (~rec[s].exists /\ rec'[s] = NewRecord)
    BY <2>1, <2>2 DEF IngestSignal
  <2>3. ASSUME NEW a \in Applies, SignalRecord(a) PROVE countN = count
    BY <2>1, <2>3 DEF SignalRecord, Resignalled, PropagationRecord
  <2>4. ASSUME NEW a \in Applies, RecordOutcome(a) PROVE countN = count
    BY <2>1, <2>4 DEF RecordOutcome, Settled, PropagationRecord
  <2>5. ASSUME NEW a \in Applies, RecordAttempt(a) PROVE countN = count \/ countN = count + 1
    <3>1. CASE UNCHANGED rec
      BY <3>1
    <3>2. CASE Starts(a)
      <4>1. PICK z : rec' = [rec EXCEPT ![z].delivery_attempt_count = @ + 1]
        BY <3>2 DEF Starts
      <4>2. QED
        BY <2>1, <4>1 DEF PropagationRecord
    <3>3. QED
      BY <2>5, <3>1, <3>2, Moves
  <2>6. ASSUME NEW a \in Applies,
               \/ Proceed(a) \/ ListRecords(a) \/ ListAgain(a) \/ Resolve(a) \/ Send(a)
               \/ SignalFails(a) \/ ListFails(a) \/ AttemptFails(a) \/ OutcomeFails(a) \/ Dropped(a)
        PROVE  rec' = rec
    BY <2>6 DEF Proceed, ListRecords, ListAgain, Resolve, Send, SignalFails, ListFails,
                AttemptFails, OutcomeFails, Dropped
  <2>7. ASSUME NEW u \in Subs, CreateSubscription(u) \/ UpdateSubscription(u) \/ DeleteSubscription(u)
        PROVE  rec' = rec
    BY <2>7 DEF CreateSubscription, UpdateSubscription, DeleteSubscription
  <2>8. CASE UNCHANGED vars
    BY <2>8 DEF vars
  <2> HIDE DEF count, countN
  <2>9. QED
    BY <2>2, <2>3, <2>4, <2>5, <2>6, <2>7, <2>8 DEF Next, DispatchStep, count, countN
<1>3. MaxAttempts * (count + 1) = MaxAttempts * count + MaxAttempts
  BY <1>1, OneMore
<1>4. MaxAttempts * count \in Nat
  BY <1>1
<1>5. ~rec[s].exists => posts[s] = 0 /\ Allowed(s) = {}
  <2>1. ASSUME NEW x \in Allowed(s) PROVE rec[s].exists
    BY <2>1 DEF Allowed, At, PropagationTypeOK
  <2>2. QED
    BY <2>1, <1>1 DEF Earned
<1>6. CASE Allowed(s)' \subseteq Allowed(s) /\ posts'[s] = posts[s]
  <2>1. IsFiniteSet(Allowed(s)') /\ leftN <= left /\ leftN \in Nat
    BY <1>1, <1>6, FS_Subset, FS_CardinalityType
  <2>2. CASE countN = count
    BY <1>1, <1>4, <1>6, <2>1, <2>2
  <2>3. CASE countN = count + 1
    <3>1. MaxAttempts * countN = MaxAttempts * count + MaxAttempts
      BY <1>3, <2>3
    <3>2. QED
      BY <1>1, <1>4, <1>6, <2>1, <3>1
  <2>4. CASE ~rec[s].exists /\ rec'[s] = NewRecord
    <3>1. posts'[s] = 0 /\ leftN = 0
      BY <1>5, <1>6, <2>4, FS_EmptySet
    <3>2. countN = 0
      BY <2>4 DEF NewRecord
    <3>3. QED
      BY <1>1, <2>1, <3>1, <3>2
  <2>5. QED
    BY <1>2, <2>2, <2>3, <2>4
<1>7. ASSUME NEW a \in Applies, posts' = posts, countN = count + 1,
             Allowed(s)' \subseteq Allowed(s) \union ({a} \X (1..MaxAttempts))
      PROVE  /\ IsFiniteSet(Allowed(s)') /\ posts'[s] + leftN <= MaxAttempts * countN
  <2> DEFINE new == {a} \X (1..MaxAttempts)
             both == Allowed(s) \union new
  <2>1. IsFiniteSet(new) /\ Cardinality(new) = MaxAttempts
    <3>1. IsFiniteSet({a}) /\ Cardinality({a}) = 1
      BY FS_Singleton
    <3>2. IsFiniteSet(1..MaxAttempts) /\ Cardinality(1..MaxAttempts) = MaxAttempts
      <4>1. IsFiniteSet(1..MaxAttempts)
            /\ Cardinality(1..MaxAttempts) = IF 1 > MaxAttempts THEN 0 ELSE MaxAttempts - 1 + 1
        <5>1. 1 \in Int /\ MaxAttempts \in Int
          BY <1>1
        <5>2. QED
          BY <5>1, FS_Interval, Zenon
      <4>2. QED
        BY <1>1, <4>1
    <3>3. IsFiniteSet(new) /\ Cardinality(new) = Cardinality({a}) * Cardinality(1..MaxAttempts)
      BY <3>1, <3>2, FS_Product
    <3>4. QED
      BY <1>1, <3>1, <3>2, <3>3
  <2>2. IsFiniteSet(both) /\ Cardinality(both) <= left + MaxAttempts
    <3>1. /\ IsFiniteSet(both)
          /\ Cardinality(both) = left + Cardinality(new) - Cardinality(Allowed(s) \intersect new)
      BY <1>1, <2>1, FS_Union
    <3>2. Cardinality(Allowed(s) \intersect new) \in Nat
      <4>1. IsFiniteSet(Allowed(s) \intersect new)
        BY <1>1, FS_Intersection
      <4>2. QED
        BY <4>1, FS_CardinalityType
    <3>3. QED
      BY <1>1, <2>1, <3>1, <3>2
  <2>3. IsFiniteSet(Allowed(s)') /\ leftN <= Cardinality(both) /\ leftN \in Nat
        /\ Cardinality(both) \in Nat
    BY <1>7, <2>2, FS_Subset, FS_CardinalityType
  <2>4. MaxAttempts * countN = MaxAttempts * count + MaxAttempts
    BY <1>3, <1>7
  <2>5. posts'[s] = posts[s]
    BY <1>7
  <2> HIDE DEF both, count, countN, left, leftN
  <2>6. QED
    BY <1>1, <1>4, <2>2, <2>3, <2>4, <2>5
<1>8. ASSUME NEW x \in Allowed(s), Allowed(s)' \subseteq Allowed(s) \ {x}, posts'[s] = posts[s] + 1
      PROVE  /\ IsFiniteSet(Allowed(s)') /\ posts'[s] + leftN <= MaxAttempts * countN
  <2>1. IsFiniteSet(Allowed(s) \ {x}) /\ Cardinality(Allowed(s) \ {x}) = left - 1
    BY <1>1, <1>8, FS_RemoveElement
  <2>2. IsFiniteSet(Allowed(s)') /\ leftN <= left - 1 /\ leftN \in Nat
    BY <1>8, <2>1, FS_Subset, FS_CardinalityType
  <2>3. posts'[s] + leftN <= MaxAttempts * count
    BY <1>1, <1>4, <1>8, <2>2
  <2>4. rec[s].exists
    BY <1>5, <1>8
  <2>5. countN = count \/ countN = count + 1
    BY <1>2, <2>4
  <2>6. MaxAttempts * countN >= MaxAttempts * count
    BY <1>1, <1>3, <1>4, <2>5
  <2>7. MaxAttempts * countN \in Nat
    BY <1>1
  <2> HIDE DEF count, countN, left, leftN
  <2>8. QED
    BY <1>1, <1>4, <2>2, <2>3, <2>6, <2>7
<1>9. QED
  BY <1>6, <1>7, <1>8, AllowedStep

-----------------------------------------------------------------------------
(* Nobody who was signalled is forgotten. *)

\* Excuses are never withdrawn.
LEMMA ExcusedGrows ==
    ASSUME PropagationTypeOK, [Next]_vars
    PROVE  excused \subseteq excused' /\ delivery' = delivery
<1>1. ASSUME NEW a \in Applies, ApplyStep(a)
      PROVE  excused \subseteq excused' /\ delivery' = delivery
  BY <1>1 DEF ApplyStep, DispatchStep, Proceed, ListRecords, SignalRecord, ListAgain, Resolve,
              RecordAttempt, Send, RecordOutcome, SignalFails, ListFails, AttemptFails,
              OutcomeFails, Dropped, PropagationTypeOK
<1>2. QED
  BY <1>1, WhoMoves

\* A record that awaits its report after a step either did before, or was
\* signalled by it.
LEMMA AwaitingFrom ==
    ASSUME PropagationTypeOK, Knows, [Next]_vars, NEW s \in Systems, Awaiting(s)'
    PROVE  \/ Awaiting(s)
           \/ \E a \in Applies :
                SignalRecord(a) /\ s \in apply[a].todo /\ (delivery = "off" => s \in excused')
<1>1. rec[s] \in PropagationRecord
  BY DEF PropagationTypeOK
<1>2. rec'[s] # NewRecord
  BY DEF Awaiting, NewRecord
<1>3. ASSUME NEW b, rec'[s] = Settled(rec[s], b) PROVE FALSE
  BY <1>1, <1>3 DEF Awaiting, Settled, PropagationRecord
<1>4. QED
  BY <1>2, <1>3, StatusFrom DEF Awaiting

\* With deliveries off a dispatch owes no more posts.
LEMMA OffExcusedStep ==
    ASSUME PropagationTypeOK, Knows, OffExcused, [Next]_vars PROVE OffExcused'
  BY AwaitingFrom, ExcusedGrows DEF OffExcused

\* An apply that will report on s still will after its own step, unless the
\* step excuses s or settles its record.
LEMMA ReportKept ==
    ASSUME PropagationTypeOK, Knows, [Next]_vars, NEW s \in Systems, Awaiting(s)',
           s \notin excused', delivery # "off",
           NEW b \in Applies, ApplyStep(b), WillReport(b, s)
    PROVE  WillReport(b, s)'
<1>1. apply \in [Applies -> ApplyRow] /\ rec \in [Systems -> PropagationRecord] /\ s # None
  BY PropagationAssumption DEF PropagationTypeOK, ApplyRow
<1> DEFINE queued == {q.system : q \in apply[b].queue}
<1>2. ~Proceed(b) /\ ~ListRecords(b)
  BY Moves DEF WillReport, At
<1>3. ~ListFails(b) /\ ~Dropped(b)
  BY DEF ListFails, Dropped
<1>4. CASE SignalRecord(b) \/ SignalFails(b)
  BY <1>4, Moves DEF WillReport, At, AfterSignals
<1>5. CASE ListAgain(b)
  BY <1>5, Moves DEF WillReport, At
<1>6. CASE Resolve(b)
  <2>1. s \in {q.system : q \in Resolved}
    BY <1>6 DEF Resolve
  <2>2. apply'[b].pc = "attempt" /\ apply'[b].queue = Resolved
    BY <1>6, <2>1, Moves
  <2>3. QED
    BY <2>1, <2>2 DEF WillReport, At
<1>7. CASE Starts(b)
  <2>1. At(b, "attempt") /\ apply[b].system = None
    BY <1>7 DEF Starts, Knows, KnowsOf, At
  <2>2. PICK x \in apply[b].queue : x.system = s
    BY <1>1, <2>1 DEF WillReport, At
  <2>3. PICK q \in apply[b].queue :
            apply'[b] = [apply[b] EXCEPT !.pc = "send", !.queue = apply[b].queue \ {q},
                                         !.system = q.system, !.attempt = 1]
    BY <1>7 DEF Starts
  <2>4. apply'[b].pc = "send" /\ apply'[b].queue = apply[b].queue \ {q} /\ apply'[b].system = q.system
    BY <1>1, <2>3 DEF ApplyRow
  <2>5. CASE x = q
    BY <2>2, <2>4, <2>5 DEF WillReport, At
  <2>6. CASE x # q
    BY <2>2, <2>4, <2>6 DEF WillReport, At
  <2>7. QED
    BY <2>5, <2>6
<1>8. CASE Skips(b)
  <2>1. At(b, "attempt") /\ apply[b].system = None
    BY <1>8 DEF Skips, Knows, KnowsOf, At
  <2>2. PICK x \in apply[b].queue : x.system = s
    BY <1>1, <2>1 DEF WillReport, At
  <2>3. PICK q \in apply[b].queue :
            /\ apply'[b].queue = apply[b].queue \ {q}
            /\ apply'[b].pc = AfterOne(apply[b].queue \ {q})
            /\ excused' = excused \union ({q.system} \ {None})
    BY <1>8 DEF Skips
  <2>4. x # q
    BY <1>1, <2>2, <2>3
  <2>5. x \in apply'[b].queue /\ apply'[b].pc = "attempt"
    BY <2>2, <2>3, <2>4 DEF AfterOne
  <2>6. QED
    BY <2>2, <2>5 DEF WillReport, At
<1>9. CASE Send(b)
  <2>1. apply[b].pc = "send"
    BY <1>9 DEF Send, At
  <2>2. \/ \E c : apply' = [apply EXCEPT ![b].pc = "outcome", ![b].success = c]
        \/ apply' = [apply EXCEPT ![b].attempt = apply[b].attempt + 1]
    BY <1>9, Zenon DEF Send
  <2>3. /\ apply'[b].system = apply[b].system /\ apply'[b].queue = apply[b].queue
        /\ apply'[b].pc \in {"send", "outcome"}
    BY <1>1, <2>1, <2>2 DEF ApplyRow
  <2>4. QED
    BY <2>1, <2>3 DEF WillReport, At
<1>10. CASE RecordOutcome(b) \/ OutcomeFails(b)
  <2>1. At(b, "outcome") /\ apply'[b].pc = AfterOne(apply[b].queue)
        /\ apply'[b].queue = apply[b].queue
    BY <1>10, Moves
  <2>2. apply[b].system # s
    <3>1. ASSUME RecordOutcome(b), apply[b].system = s PROVE FALSE
      BY <1>1, <3>1 DEF RecordOutcome, Settled, Awaiting, PropagationRecord
    <3>2. ASSUME OutcomeFails(b), apply[b].system = s PROVE FALSE
      BY <3>2 DEF OutcomeFails
    <3>3. QED
      BY <1>10, <3>1, <3>2
  <2>3. PICK x \in apply[b].queue : x.system = s
    BY <2>1, <2>2 DEF WillReport, At
  <2>4. QED
    BY <2>1, <2>3 DEF WillReport, At, AfterOne
<1>11. QED
  BY <1>2, <1>3, <1>4, <1>5, <1>6, <1>7, <1>8, <1>9, <1>10, Moves DEF ApplyStep, DispatchStep

\* Whoever is still to be told is on the list of a dispatch.
LEMMA NotForgottenStep ==
    ASSUME PropagationTypeOK, Knows, OffExcused, NotForgotten, [Next]_vars PROVE NotForgotten'
<1> SUFFICES ASSUME NEW s \in Systems, Awaiting(s)', s \notin excused'
             PROVE  \E a \in Applies : WillReport(a, s)'
  BY DEF NotForgotten, Awaiting
<1>1. CASE \E a \in Applies :
              SignalRecord(a) /\ s \in apply[a].todo /\ (delivery = "off" => s \in excused')
  BY <1>1, Moves DEF WillReport, At, AfterSignals
<1>2. CASE Awaiting(s)
  <2>1. s \notin excused /\ delivery # "off"
    BY <1>2, ExcusedGrows DEF OffExcused
  <2>2. PICK b \in Applies : WillReport(b, s)
    BY <1>2, <2>1 DEF NotForgotten, Awaiting
  <2>3. CASE apply'[b] = apply[b]
    BY <2>2, <2>3 DEF WillReport, At
  <2>4. CASE apply'[b] # apply[b]
    <3>1. ApplyStep(b)
      BY <2>4, WhoMoves, ApplyRows
    <3>2. QED
      BY <2>1, <2>2, <3>1, ReportKept
  <2>5. QED
    BY <2>3, <2>4
<1>3. QED
  BY <1>1, <1>2, AwaitingFrom

-----------------------------------------------------------------------------
(* The theorems. *)

\* Before the first dispatch everything holds.
LEMMA InductiveInit == Init => Inductive
<1> SUFFICES ASSUME Init PROVE Inductive
  OBVIOUS
<1>1. PropagationTypeOK
  <2>1. NoRecord \in PropagationRecord
    BY DEF NoRecord, NewRecord, PropagationRecord, PropagationStatuses
  <2>2. Idle \in ApplyRow /\ Idle.pc = "idle"
    BY PropagationAssumption DEF Idle, ApplyRow, PCs
  <2>3. NoSub \in [exists : BOOLEAN, system : Systems \union {None}, status : SubStatuses]
    BY DEF NoSub, SubStatuses
  <2>4. apply \in [Applies -> ApplyRow]
        /\ \A a \in Applies : apply[a].pc \in {"send", "outcome"} => rec[apply[a].system].exists
    BY <2>2 DEF Init
  <2>5. rec \in [Systems -> PropagationRecord]
        /\ sub \in [Subs -> [exists : BOOLEAN, system : Systems \union {None}, status : SubStatuses]]
    BY <2>1, <2>3 DEF Init
  <2>6. /\ delivery \in Deliveries /\ received \in [Systems -> SUBSET Versions]
        /\ posts \in [Systems -> Nat] /\ excused \subseteq Systems
        /\ faults \in 0..MaxFaults /\ edits \in 0..MaxEdits
    BY PropagationAssumption DEF Init
  <2>7. QED
    BY <2>4, <2>5, <2>6 DEF PropagationTypeOK, ApplyRow
<1>2. Knows /\ AnswerReal
  BY DEF Init, Knows, KnowsOf, AnswerReal, At, Idle
<1>3. Earned /\ OffExcused /\ NotForgotten
  BY DEF Init, Earned, OffExcused, NotForgotten, Awaiting, NoRecord, NewRecord
<1>4. Paid
  <2> SUFFICES ASSUME NEW s \in Systems
               PROVE  /\ IsFiniteSet(Allowed(s))
                      /\ posts[s] + Cardinality(Allowed(s))
                            <= MaxAttempts * rec[s].delivery_attempt_count
    BY DEF Paid
  <2>1. Allowed(s) = {}
    BY DEF Init, Allowed, At, Idle
  <2>2. posts[s] = 0 /\ rec[s].delivery_attempt_count = 0
    BY DEF Init, NoRecord, NewRecord
  <2>3. QED
    BY <2>1, <2>2, FS_EmptySet, PropagationAssumption
<1>5. QED
  BY <1>1, <1>2, <1>3, <1>4 DEF Inductive

\* Every step keeps every part.
LEMMA InductiveStep == Inductive /\ [Next]_vars => Inductive'
  BY TypeStep, KnowsStep, AnswerRealStep, EarnedStep, PaidStep, OffExcusedStep, NotForgottenStep
     DEF Inductive

\* Inductive holds in every state of the propagation.
THEOREM AlwaysInductive == Spec => []Inductive
  BY InductiveInit, InductiveStep, PTL DEF Spec

\* Every record, subscription and dispatch keeps its type, and a dispatch that
\* is sending or about to store an outcome is at a record that exists.
THEOREM PropagationTypeCorrect == Spec => []PropagationTypeOK
  BY AlwaysInductive, PTL DEF Inductive

\* A status is never invented, whatever the systems answer and however the
\* applies interleave: record_delivery_outcome stores only answers that were
\* given, and record_delivery_attempt counts before anything is sent.
THEOREM StatusAlwaysEarned == Spec => []StatusEarned
<1>1. Inductive => StatusEarned
  <2> SUFFICES ASSUME Inductive, NEW s \in Systems, rec[s].exists
               PROVE  posts[s] <= MaxAttempts * rec[s].delivery_attempt_count
    BY DEF Inductive, StatusEarned, Earned
  <2>1. Cardinality(Allowed(s)) \in Nat /\ posts[s] \in Nat
        /\ rec[s].delivery_attempt_count \in Nat /\ MaxAttempts \in Nat
    BY FS_CardinalityType, PropagationAssumption
       DEF Inductive, Paid, PropagationTypeOK, PropagationRecord
  <2>2. MaxAttempts * rec[s].delivery_attempt_count \in Nat
    BY <2>1
  <2>3. posts[s] + Cardinality(Allowed(s)) <= MaxAttempts * rec[s].delivery_attempt_count
    BY DEF Inductive, Paid
  <2>4. QED
    BY <2>1, <2>2, <2>3
<1>2. QED
  BY <1>1, AlwaysInductive, PTL

\* The signals of one apply and the outcomes of another never leave a record
\* pending that no apply in flight will settle, unless an apply lost its turn.
THEOREM NobodyForgotten == Spec => []NotForgotten
  BY AlwaysInductive, PTL DEF Inductive
=============================================================================
