-------------------------- MODULE GraphServiceProofs --------------------------
(***************************************************************************)
(* Proofs about GraphService and GraphQueries, for any scopes, ingestions, *)
(* keys, traversals and bounds.  Inductive says of each ingestion what its *)
(* place in the code implies: what it has written and where, whose node id *)
(* is whose, which artifact traces to an intent version, and which row of  *)
(* the ledger it stands for; and of the tables that edges have ends and    *)
(* keys have one row.  QueryInductive says of each traversal which entries *)
(* it has expanded and that every walk of the graph it began with leads    *)
(* through those and the ones it has queued.                               *)
(***************************************************************************)
EXTENDS GraphQueries, FiniteSetTheorems, SequenceTheorems, WellFoundedInduction, TLAPS

PCs == {"idle", "node", "edges", "effect", "commit", "answer", "done"}

WireRow == [type : EdgeTypes, ref : NodeIds, out : BOOLEAN, wants : SUBSET NodeTypes]

RequestRow == [pc : PCs, kind : Kinds \union {None}, path : {"rls", "plain", None},
               scope : Scopes \union {None}, context : Keys \union {NoKey, None},
               wires : Seq(WireRow), node : 0..MaxNodes, wired : SUBSET GraphEdge,
               effect : Requests \union {None},
               answer : {None, "created", "rejected", "error"}]

Typed ==
    /\ node \in [NodeIds -> GraphNode] /\ edges \subseteq GraphEdge
    /\ effects \subseteq [by : Requests, key : Keys \union {NoKey}]
    /\ req \in [Requests -> RequestRow] /\ faults \in 0..MaxFaults

Stored(r) == req[r].node # NoNode /\ Exists(req[r].node)

\* Where a request that is being ingested has its node id, and no wire left.
HasNode == {"edges", "effect", "commit", "answer"}
AllWired == {"effect", "commit", "answer"}

Place(r) ==
    /\ req[r].pc = "idle" => req[r] = NoRequest
    /\ req[r].pc \notin {"idle", "done"} => req[r].kind # None /\ req[r].scope # None
    /\ req[r].pc \in HasNode => req[r].node # NoNode
    /\ req[r].pc = "node" => req[r].node = NoNode
    /\ req[r].node = NoNode => req[r].wired = {}
    /\ req[r].pc \in AllWired => req[r].wires = <<>>
    /\ req[r].pc = "commit" => InTx(r)
    /\ req[r].pc = "effect" => req[r].context # None
    /\ req[r].pc # "done" => req[r].answer = None

\* Outside a transaction what a request did is there at once; inside, nothing of
\* it is there before the commit and everything after.
Written(r) ==
    /\ ~InTx(r) /\ req[r].node # NoNode => Stored(r) /\ req[r].wired \subseteq edges
    /\ InTx(r) /\ req[r].pc \in {"edges", "effect", "commit"} => ~Stored(r)
    /\ InTx(r) /\ Stored(r) => req[r].wires = <<>> /\ req[r].wired \subseteq edges
    /\ req[r].pc = "answer" \/ req[r].answer = "created" =>
        Stored(r) /\ req[r].wires = <<>> /\ req[r].wired \subseteq edges
    /\ \A e \in req[r].wired :
        /\ req[r].node \in {e.from, e.to}
        /\ \A n \in {e.from, e.to} : n = req[r].node \/ Exists(n)

\* A reference is of a type asked for, and that of an artifact an intent version.
WireFits(kind, w) ==
    /\ Exists(w.ref) /\ node[w.ref].type \in w.wants
    /\ kind = "artifact" => w.out /\ w.type = "DependsOn" /\ w.wants = {"IntentVersion"}

\* The references left to wire.
WiresTrace(r) == \A i \in DOMAIN req[r].wires : WireFits(req[r].kind, req[r].wires[i])

\* An artifact has such a reference before it, or has its edge to one.
EdgeTraces(r) ==
    req[r].kind = "artifact" =>
        \/ req[r].wires # <<>>
        \/ \E e \in req[r].wired :
            e.from = req[r].node /\ e.type = "DependsOn" /\ node[e.to].type = "IntentVersion"

Traces(r) == WiresTrace(r) /\ EdgeTraces(r)

\* A reference fits in the next state.
WillFit(kind, w) ==
    /\ w.ref \in NodeIds /\ node'[w.ref].type # None /\ node'[w.ref].type \in w.wants
    /\ kind = "artifact" => w.out /\ w.type = "DependsOn" /\ w.wants = {"IntentVersion"}

\* The row of the ledger that a request reports.
RowStored(r) == \E e \in effects : e.by = req[r].effect /\ e.key = req[r].context

\* A transaction that has inserted a row and not committed it.
Inserting(r) == InTx(r) /\ req[r].pc = "commit" /\ req[r].effect = r

Ledger(r) ==
    /\ ~Stored(r) => \A e \in effects : e.by # r
    /\ req[r].pc \in {"idle", "node", "edges", "effect"} \/ req[r].context = None => req[r].effect = None
    /\ InTx(r) /\ (req[r].pc = "commit" \/ Stored(r)) /\ req[r].context # None => req[r].effect # None
    /\ req[r].effect # None =>
        RowStored(r) \/ Inserting(r) \/ (InTx(r) /\ ~Stored(r) /\ req[r].answer = "error")
    /\ Inserting(r) /\ req[r].context # NoKey => \A e \in effects : e.key # req[r].context

RequestOK == \A r \in Requests : Place(r) /\ Written(r) /\ Traces(r) /\ Ledger(r)

\* Node ids are not shared, edges have their ends, keys have one row, and no two
\* transactions insert the same key.
Tables ==
    /\ \A r, s \in Requests : r # s /\ req[r].node # NoNode => req[r].node # req[s].node
    /\ \A e \in edges : Exists(e.from) /\ Exists(e.to)
    /\ \A e, f \in effects : e.key = f.key /\ e.key # NoKey => e = f
    /\ \A r, s \in Requests :
        Inserting(r) /\ Inserting(s) /\ req[r].context = req[s].context /\ req[r].context # NoKey => r = s

Inductive == Typed /\ RequestOK /\ Tables

-----------------------------------------------------------------------------
(* Types. *)

AnyWire == [type : EdgeTypes, ref : 0..Unknown, out : BOOLEAN, wants : SUBSET NodeTypes]

\* A fresh id is no node's, and no request has taken it.
LEMMA FreshIsFree ==
    ASSUME Typed, IdLeft
    PROVE  Fresh \in NodeIds /\ ~Exists(Fresh) /\ \A r \in Requests : req[r].node # Fresh
<1>1. \E n \in NodeIds : n \notin Used
  BY DEF IdLeft, Used
<1>2. Fresh \in NodeIds /\ Fresh \notin Used
  BY <1>1 DEF Fresh
<1>3. QED
  BY <1>2 DEF Used

\* What clients may ask for are wires, and of an artifact dependencies on
\* intent versions.
LEMMA WiringsType ==
    ASSUME NEW kind \in Kinds, NEW wires \in Wirings(kind)
    PROVE  /\ wires \in Seq(AnyWire)
           /\ kind = "artifact" => \A i \in DOMAIN wires :
                wires[i].out /\ wires[i].type = "DependsOn" /\ wires[i].wants = {"IntentVersion"}
<1>1. kind \in {"artifact", "approval", "side_effect"} /\ MaxNodes \in Nat
  BY GraphAssumption
<1>2. Named \subseteq 0..Unknown /\ Refs \subseteq 0..Unknown
  BY <1>1 DEF Named, Refs, NodeIds, Unknown, NoNode
<1>3. ASSUME NEW type \in EdgeTypes, NEW ref \in 0..Unknown, NEW out \in BOOLEAN,
             NEW wants \in SUBSET NodeTypes
      PROVE  /\ Wire(type, ref, out, wants) \in AnyWire
             /\ Optional(Wire(type, ref, out, wants)) \in Seq(AnyWire)
             /\ <<Wire(type, ref, out, wants)>> \in Seq(AnyWire)
  <2>1. Wire(type, ref, out, wants) \in AnyWire
    BY DEF Wire, AnyWire
  <2>2. QED
    BY <2>1 DEF Optional
<1>4. CASE kind = "artifact"
  <2>0. wires \in ArtifactWires
    BY <1>4 DEF Wirings
  <2>1. PICK ids \in UNION {[1..n -> Named] : n \in 0..2} :
            wires = [i \in DOMAIN ids |-> Wire("DependsOn", ids[i], TRUE, {"IntentVersion"})]
    BY <2>0 DEF ArtifactWires
  <2>2. PICK n \in 0..2 : ids \in [1..n -> Named]
    OBVIOUS
  <2>3. wires = [i \in 1..n |-> Wire("DependsOn", ids[i], TRUE, {"IntentVersion"})]
    BY <2>1, <2>2
  <2>4. \A i \in 1..n : Wire("DependsOn", ids[i], TRUE, {"IntentVersion"}) \in AnyWire
    BY <1>2, <1>3, <2>2 DEF EdgeTypes, NodeTypes
  <2> DEFINE w(i) == Wire("DependsOn", ids[i], TRUE, {"IntentVersion"})
  <2>5. wires \in [1..n -> AnyWire] /\ n \in Nat
    <3>1. wires = [i \in 1..n |-> w(i)] /\ \A i \in 1..n : w(i) \in AnyWire
      BY <2>3, <2>4
    <3> HIDE DEF w
    <3>2. QED
      BY <3>1
  <2>6. wires \in Seq(AnyWire)
    BY <2>5
  <2>7. QED
    BY <2>3, <2>6 DEF Wire
<1>5. CASE kind = "approval"
  <2>0. wires \in ApprovalWires
    BY <1>5 DEF Wirings
  <2>1. PICK p \in Refs, v \in Refs :
            wires = Optional(Wire("GovernedBy", p, TRUE, {"PolicySnapshot"}))
                    \o Optional(Wire("ValidatedBy", v, TRUE, {"IntentVersion"}))
    BY <2>0 DEF ApprovalWires
  <2>2. /\ Optional(Wire("GovernedBy", p, TRUE, {"PolicySnapshot"})) \in Seq(AnyWire)
        /\ Optional(Wire("ValidatedBy", v, TRUE, {"IntentVersion"})) \in Seq(AnyWire)
    BY <1>2, <1>3 DEF EdgeTypes, NodeTypes
  <2>3. QED
    BY <1>5, <2>1, <2>2, ConcatProperties
<1>6. CASE kind = "side_effect"
  <2> DEFINE W(t, v, a) == <<Wire("Triggers", t, FALSE, NodeTypes)>>
                           \o Optional(Wire("DerivedFrom", v, TRUE, {"IntentVersion"}))
                           \o Optional(Wire("GeneratedFrom", a, TRUE, {"Approval"}))
  <2>1. wires \in UNION {UNION {{W(t, v, a) : a \in Refs} : v \in Refs} : t \in Named}
    BY <1>6 DEF Wirings, SideEffectWires
  <2>2. \A t \in Named, v \in Refs, a \in Refs : W(t, v, a) \in Seq(AnyWire)
    <3> TAKE t \in Named, v \in Refs, a \in Refs
    <3>1. /\ <<Wire("Triggers", t, FALSE, NodeTypes)>> \in Seq(AnyWire)
          /\ Optional(Wire("DerivedFrom", v, TRUE, {"IntentVersion"})) \in Seq(AnyWire)
          /\ Optional(Wire("GeneratedFrom", a, TRUE, {"Approval"})) \in Seq(AnyWire)
      BY <1>2, <1>3 DEF EdgeTypes, NodeTypes
    <3>2. QED
      BY <3>1, ConcatProperties
  <2> HIDE DEF W
  <2>3. wires \in Seq(AnyWire)
    BY <2>1, <2>2
  <2>4. QED
    BY <1>6, <2>3
<1>7. QED
  BY <1>1, <1>4, <1>5, <1>6

\* References that were found are nodes.
LEMMA ValidWires ==
    ASSUME NEW kind \in Kinds, NEW scope \in Scopes, NEW wires \in Wirings(kind),
           Valid(kind, scope, wires)
    PROVE  wires \in Seq(WireRow)
<1>1. wires \in Seq(AnyWire)
  BY WiringsType
<1>2. \A i \in 1..Len(wires) : wires[i] \in WireRow
  <2> TAKE i \in 1..Len(wires)
  <2>1. wires[i] \in AnyWire /\ i \in DOMAIN wires
    BY <1>1
  <2>2. wires[i].ref \in NodeIds
    BY <2>1 DEF Valid, Exists
  <2>3. QED
    BY <2>1, <2>2 DEF AnyWire, WireRow
<1>3. QED
  BY <1>1, <1>2

-----------------------------------------------------------------------------
(* What each step makes of its request's row. *)

\* What was asked for does not change.
SameAsk(r) ==
    /\ req'[r].kind = req[r].kind /\ req'[r].path = req[r].path
    /\ req'[r].scope = req[r].scope /\ req'[r].context = req[r].context

SameWork(r) ==
    /\ req'[r].node = req[r].node /\ req'[r].wires = req[r].wires /\ req'[r].wired = req[r].wired

\* The request goes to pc, having done no more than it had.
GoesTo(r, pc) ==
    /\ SameAsk(r) /\ SameWork(r) /\ req'[r].effect = req[r].effect
    /\ req'[r].pc = pc /\ req'[r].answer = req[r].answer

\* The request is answered.
Ends(r, what) ==
    /\ SameAsk(r) /\ SameWork(r) /\ req'[r].effect = req[r].effect
    /\ req'[r].pc = "done" /\ req'[r].answer = what

\* The row has its type and is the only one that changes.
OwnRow(r) == req' \in [Requests -> RequestRow] /\ \A b \in Requests \ {r} : req'[b] = req[b]

\* An update of the fields of one row, as one row.
LEMMA RowUpdate ==
    ASSUME req \in [Requests -> RequestRow], NEW r \in Requests, NEW x \in RequestRow,
           req' = [req EXCEPT ![r] = x]
    PROVE  OwnRow(r) /\ req'[r] = x
  BY DEF OwnRow

\* An answer ends the request and leaves the rest of its row.
LEMMA EndsRow ==
    ASSUME req \in [Requests -> RequestRow], NEW r \in Requests,
           NEW what \in {"created", "rejected", "error"}, req' = [req EXCEPT ![r] = Answer(r, what)]
    PROVE  OwnRow(r) /\ Ends(r, what)
<1>1. req[r] \in RequestRow
  OBVIOUS
<1>2. Answer(r, what) \in RequestRow
  BY <1>1 DEF Answer, RequestRow, PCs
<1>3. OwnRow(r) /\ req'[r] = Answer(r, what)
  BY <1>2, RowUpdate
<1>4. QED
  BY <1>1, <1>3 DEF Answer, Ends, SameAsk, SameWork, RequestRow

\* A step that only moves on.
LEMMA GoesRow ==
    ASSUME req \in [Requests -> RequestRow], NEW r \in Requests, NEW pc \in PCs,
           req' = [req EXCEPT ![r].pc = pc]
    PROVE  OwnRow(r) /\ GoesTo(r, pc)
  BY DEF OwnRow, GoesTo, SameAsk, SameWork, RequestRow

\* A request comes in with the references that were found, and nothing done.
LEMMA ReceiveRow ==
    ASSUME Typed, NEW r \in Requests, Receive(r)
    PROVE  /\ OwnRow(r) /\ req[r].pc = "idle" /\ UNCHANGED <<node, edges, effects, faults>>
           /\ req'[r].pc = "node" /\ req'[r].node = NoNode /\ req'[r].wired = {}
           /\ req'[r].effect = None /\ req'[r].answer = None
           /\ req'[r].kind \in Kinds /\ req'[r].scope \in Scopes
           /\ \A i \in DOMAIN req'[r].wires :
                LET w == req'[r].wires[i] IN
                /\ Exists(w.ref) /\ node[w.ref].type \in w.wants
                /\ req'[r].kind = "artifact" =>
                    w.out /\ w.type = "DependsOn" /\ w.wants = {"IntentVersion"}
           /\ req'[r].kind = "artifact" => req'[r].wires # <<>>
<1>1. PICK kind \in Kinds, scope \in Scopes :
        \E path \in PathsOf(kind), context \in Contexts(kind), wires \in Wirings(kind) :
            /\ Valid(kind, scope, wires)
            /\ req' = [req EXCEPT ![r] = [NoRequest EXCEPT
                        !.pc = "node", !.kind = kind, !.path = path, !.scope = scope,
                        !.context = context, !.wires = wires]]
  BY DEF Receive
<1>2. PICK path \in PathsOf(kind), context \in Contexts(kind), wires \in Wirings(kind) :
            /\ Valid(kind, scope, wires)
            /\ req' = [req EXCEPT ![r] = [NoRequest EXCEPT
                        !.pc = "node", !.kind = kind, !.path = path, !.scope = scope,
                        !.context = context, !.wires = wires]]
  BY <1>1
<1> DEFINE x == [NoRequest EXCEPT !.pc = "node", !.kind = kind, !.path = path, !.scope = scope,
                                  !.context = context, !.wires = wires]
<1>3. /\ NoRequest \in RequestRow /\ NoRequest.node = NoNode /\ NoRequest.wired = {}
      /\ NoRequest.effect = None /\ NoRequest.answer = None
  <2>1. 0 \in 0..MaxNodes /\ <<>> \in Seq(WireRow)
    BY GraphAssumption
  <2>2. QED
    BY <2>1 DEF NoRequest, RequestRow, PCs, NoNode
<1>4. path \in {"rls", "plain"} /\ context \in Keys \union {NoKey, None}
  BY GraphAssumption DEF PathsOf, Contexts
<1>5. wires \in Seq(WireRow)
  BY <1>2, ValidWires
<1>6. x \in RequestRow
  BY <1>3, <1>4, <1>5 DEF RequestRow, PCs
<1>7. OwnRow(r) /\ req'[r] = x
  BY <1>2, <1>6, RowUpdate DEF Typed
<1>8. /\ req'[r].pc = "node" /\ req'[r].node = NoNode /\ req'[r].wired = {}
      /\ req'[r].effect = None /\ req'[r].answer = None
      /\ req'[r].kind = kind /\ req'[r].scope = scope /\ req'[r].wires = wires
  BY <1>3, <1>7 DEF RequestRow
<1>9. \A i \in DOMAIN wires :
        /\ Exists(wires[i].ref) /\ node[wires[i].ref].type \in wires[i].wants
        /\ kind = "artifact" => /\ wires[i].out /\ wires[i].type = "DependsOn"
                                /\ wires[i].wants = {"IntentVersion"}
  BY <1>2, WiringsType DEF Valid
<1>10. kind = "artifact" => wires # <<>>
  BY <1>2 DEF Valid
<1>11. req[r].pc = "idle" /\ UNCHANGED <<node, edges, effects, faults>>
  BY DEF Receive
<1> HIDE DEF x
<1>12. QED
  BY <1>7, <1>8, <1>9, <1>10, <1>11

\* The steps that write.
LEMMA CreateNodeRow ==
    ASSUME Typed, NEW r \in Requests, CreateNode(r)
    PROVE  /\ OwnRow(r) /\ req[r].pc = "node" /\ req'[r].pc = "edges" /\ SameAsk(r)
           /\ req'[r].node = Fresh /\ req'[r].wires = req[r].wires
           /\ req'[r].wired = req[r].wired /\ req'[r].effect = req[r].effect
           /\ req'[r].answer = req[r].answer /\ UNCHANGED <<edges, effects, faults>>
<1>1. Fresh \in 0..MaxNodes
  <2>1. Fresh \in NodeIds /\ MaxNodes \in Nat
    BY FreshIsFree, GraphAssumption DEF CreateNode
  <2>2. QED
    BY <2>1 DEF NodeIds
<1>2. /\ req[r].pc = "node" /\ req' = [req EXCEPT ![r].node = Fresh, ![r].pc = "edges"]
      /\ UNCHANGED <<edges, effects, faults>>
  BY DEF CreateNode
<1> DEFINE x == [req[r] EXCEPT !.node = Fresh, !.pc = "edges"]
<1>3. req \in [Requests -> RequestRow]
  BY DEF Typed
<1>4. x \in RequestRow
  BY <1>1, <1>3 DEF RequestRow, PCs
<1>5. req' = [req EXCEPT ![r] = x]
  BY <1>2, <1>3 DEF RequestRow
<1>6. OwnRow(r) /\ req'[r] = x
  BY <1>3, <1>4, <1>5, RowUpdate
<1>7. QED
  BY <1>2, <1>3, <1>6 DEF SameAsk, RequestRow

\* An edge that is accepted joins two nodes the request sees.
LEMMA CreateEdgeRow ==
    ASSUME Typed, RequestOK, NEW r \in Requests, CreateEdge(r)
    PROVE  /\ OwnRow(r) /\ req[r].pc = "edges" /\ req[r].wires # <<>>
           /\ UNCHANGED <<node, effects, faults>>
           /\ \/ /\ EdgeOf(r) \in GraphEdge /\ req'[r].pc = "edges" /\ SameAsk(r)
                 /\ \A n \in {EdgeOf(r).from, EdgeOf(r).to} : n = req[r].node \/ Exists(n)
                 /\ InTx(r) \/ (Exists(EdgeOf(r).from) /\ Exists(EdgeOf(r).to))
                 /\ req'[r].node = req[r].node /\ req'[r].wires = Tail(req[r].wires)
                 /\ req'[r].wired = req[r].wired \union {EdgeOf(r)}
                 /\ req'[r].effect = req[r].effect /\ req'[r].answer = req[r].answer
                 /\ edges' = IF InTx(r) THEN edges ELSE edges \union {EdgeOf(r)}
              \/ Ends(r, "error") /\ edges' = edges
<1>1. req \in [Requests -> RequestRow] /\ req[r] \in RequestRow /\ node \in [NodeIds -> GraphNode]
  BY DEF Typed
<1>2. req[r].pc = "edges" /\ req[r].wires # <<>> /\ UNCHANGED <<node, effects, faults>>
  BY DEF CreateEdge
<1>3. req[r].wires \in Seq(WireRow)
  BY <1>1 DEF RequestRow
<1>4. Head(req[r].wires) \in WireRow /\ Tail(req[r].wires) \in Seq(WireRow)
  BY <1>2, <1>3, HeadTailProperties
<1>5. req[r].node \in NodeIds
  <2>1. req[r].node \in 0..MaxNodes /\ req[r].node # 0 /\ MaxNodes \in Nat
    BY <1>1, <1>2, GraphAssumption DEF RequestOK, Place, HasNode, RequestRow, NoNode
  <2>2. QED
    BY <2>1 DEF NodeIds
<1>6. EdgeOf(r) \in GraphEdge
  BY <1>4, <1>5 DEF EdgeOf, GraphEdge, WireRow
<1>7. CASE EdgeAccepted(EdgeOf(r), req[r].scope, Seen(r), edges \union req[r].wired)
  <2>1. /\ req' = [req EXCEPT ![r].wires = Tail(@), ![r].wired = @ \union {EdgeOf(r)}]
        /\ edges' = IF InTx(r) THEN edges ELSE edges \union {EdgeOf(r)}
    BY <1>7 DEF CreateEdge
  <2> DEFINE x == [req[r] EXCEPT !.wires = Tail(req[r].wires), !.wired = req[r].wired \union {EdgeOf(r)}]
  <2>2. x \in RequestRow
    BY <1>1, <1>4, <1>6 DEF RequestRow
  <2>3. req' = [req EXCEPT ![r] = x]
    BY <1>1, <2>1 DEF RequestRow
  <2>4. OwnRow(r) /\ req'[r] = x
    BY <1>1, <2>2, <2>3, RowUpdate
  <2>5. /\ req'[r].pc = "edges" /\ SameAsk(r)
        /\ req'[r].node = req[r].node /\ req'[r].wires = Tail(req[r].wires)
        /\ req'[r].wired = req[r].wired \union {EdgeOf(r)}
        /\ req'[r].effect = req[r].effect /\ req'[r].answer = req[r].answer
    BY <1>1, <1>2, <2>4 DEF SameAsk, RequestRow
  <2>6. ASSUME NEW n \in {EdgeOf(r).from, EdgeOf(r).to}
        PROVE  (n = req[r].node \/ Exists(n)) /\ (InTx(r) \/ Exists(n))
    <3>1. n \in NodeIds /\ Seen(r)[n].type # None
      BY <1>6, <1>7 DEF EdgeAccepted, GraphEdge
    <3>2. CASE InTx(r)
      BY <1>1, <1>5, <3>1, <3>2 DEF Seen, Exists
    <3>3. CASE ~InTx(r)
      BY <3>1, <3>3 DEF Seen, Exists
    <3>4. QED
      BY <3>2, <3>3
  <2>7. QED
    BY <1>2, <1>6, <2>1, <2>4, <2>5, <2>6
<1>8. CASE ~EdgeAccepted(EdgeOf(r), req[r].scope, Seen(r), edges \union req[r].wired)
  <2>1. req' = [req EXCEPT ![r] = Answer(r, "error")] /\ edges' = edges
    BY <1>8 DEF CreateEdge
  <2>2. QED
    BY <1>1, <1>2, <2>1, EndsRow
<1>9. QED
  BY <1>7, <1>8

\* The row of the ledger a request gets is the one that has its key, or its own.
LEMMA RecordEffectRow ==
    ASSUME Typed, RequestOK, NEW r \in Requests, RecordEffect(r)
    PROVE  /\ OwnRow(r) /\ req[r].pc = "effect" /\ SameAsk(r) /\ SameWork(r)
           /\ req'[r].pc = IF InTx(r) THEN "commit" ELSE "answer"
           /\ req'[r].answer = req[r].answer /\ UNCHANGED <<node, edges, faults>>
           /\ req[r].context # None /\ (req[r].context # NoKey => ~Held(req[r].context))
           /\ \E x \in [by : Requests, key : Keys \union {NoKey}] :
                /\ x.key = req[r].context /\ req'[r].effect = x.by
                /\ effects' = IF InTx(r) THEN effects ELSE effects \union {x}
                /\ \/ x \in effects
                   \/ /\ x.by = r
                      /\ req[r].context # NoKey => \A e \in effects : e.key # req[r].context
<1>1. /\ req \in [Requests -> RequestRow] /\ req[r] \in RequestRow
      /\ effects \subseteq [by : Requests, key : Keys \union {NoKey}]
  BY DEF Typed
<1>2. /\ req[r].pc = "effect" /\ UNCHANGED <<node, edges, faults>>
      /\ req[r].context # NoKey => ~Held(req[r].context)
      /\ effects' = IF InTx(r) THEN effects ELSE effects \union {RowFor(r)}
  BY DEF RecordEffect
<1>3. req[r].context # None /\ req[r].context \in Keys \union {NoKey}
  BY <1>1, <1>2 DEF RequestOK, Place, RequestRow
<1>4. /\ RowFor(r) \in [by : Requests, key : Keys \union {NoKey}] /\ RowFor(r).key = req[r].context
      /\ \/ RowFor(r) \in effects
         \/ /\ RowFor(r).by = r
            /\ req[r].context # NoKey => \A e \in effects : e.key # req[r].context
  <2> DEFINE same == {e \in effects : e.key = req[r].context}
  <2>1. CASE req[r].context = NoKey \/ same = {}
    <3>1. RowFor(r) = [by |-> r, key |-> req[r].context]
      BY <2>1 DEF RowFor
    <3>2. QED
      BY <1>3, <2>1, <3>1
  <2>2. CASE ~(req[r].context = NoKey \/ same = {})
    <3>1. RowFor(r) = CHOOSE e \in same : TRUE
      BY <2>2 DEF RowFor
    <3>2. RowFor(r) \in same
      BY <2>2, <3>1
    <3>3. QED
      BY <1>1, <3>2
  <2>3. QED
    BY <2>1, <2>2
<1> DEFINE by == RowFor(r).by
           p == IF InTx(r) THEN "commit" ELSE "answer"
           x == [req[r] EXCEPT !.effect = by, !.pc = p]
<1>5. by \in Requests /\ p \in PCs /\ req' = [req EXCEPT ![r].effect = by, ![r].pc = p]
  BY <1>4 DEF RecordEffect, PCs
<1> HIDE DEF by, p
<1>6. x \in RequestRow /\ req' = [req EXCEPT ![r] = x]
  BY <1>1, <1>5 DEF RequestRow
<1>7. OwnRow(r) /\ req'[r] = x
  BY <1>1, <1>6, RowUpdate
<1>8. /\ SameAsk(r) /\ SameWork(r) /\ req'[r].answer = req[r].answer
      /\ req'[r].pc = p /\ req'[r].effect = by
  BY <1>1, <1>7 DEF SameAsk, SameWork, RequestRow
<1>9. QED
  BY <1>2, <1>3, <1>4, <1>7, <1>8 DEF by, p

\* A commit that is answered happened; of one that is not, all did or nothing.
LEMMA CommitRow ==
    ASSUME Typed, NEW r \in Requests, Commit(r) \/ CommitInDoubt(r)
    PROVE  /\ OwnRow(r) /\ req[r].pc = "commit"
           /\ \/ GoesTo(r, "answer") /\ Committed(r)
              \/ Ends(r, "error") /\ (Committed(r) \/ UNCHANGED <<node, edges, effects>>)
<1>1. req \in [Requests -> RequestRow]
  BY DEF Typed
<1>2. CASE Commit(r)
  BY <1>1, <1>2, GoesRow DEF Commit, PCs
<1>3. CASE CommitInDoubt(r)
  BY <1>1, <1>3, EndsRow DEF CommitInDoubt
<1>4. QED
  BY <1>2, <1>3

\* The steps that write nothing.
LEMMA PassRow ==
    ASSUME Typed, NEW r \in Requests
    PROVE  /\ Reject(r) => OwnRow(r) /\ req[r].pc = "idle" /\ Ends(r, "rejected")
           /\ EndEdges(r) => /\ OwnRow(r) /\ req[r].pc = "edges" /\ req[r].wires = <<>>
                             /\ GoesTo(r, AfterEdges(r))
           /\ RecordFails(r) => /\ OwnRow(r) /\ req[r].pc = "effect" /\ ~InTx(r)
                                /\ GoesTo(r, "answer")
           /\ Respond(r) => OwnRow(r) /\ req[r].pc = "answer" /\ Ends(r, "created")
           /\ Fails(r) => /\ OwnRow(r) /\ Ends(r, "error")
                          /\ req[r].pc \in {"node", "edges"} \/ (req[r].pc = "effect" /\ InTx(r))
<1>1. req \in [Requests -> RequestRow]
  BY DEF Typed
<1>2. AfterEdges(r) \in PCs
  BY DEF AfterEdges, PCs
<1>3. Reject(r) => OwnRow(r) /\ req[r].pc = "idle" /\ Ends(r, "rejected")
  BY <1>1, EndsRow DEF Reject
<1>4. EndEdges(r) => /\ OwnRow(r) /\ req[r].pc = "edges" /\ req[r].wires = <<>>
                     /\ GoesTo(r, AfterEdges(r))
  BY <1>1, <1>2, GoesRow DEF EndEdges
<1>5. RecordFails(r) => /\ OwnRow(r) /\ req[r].pc = "effect" /\ ~InTx(r) /\ GoesTo(r, "answer")
  BY <1>1, GoesRow DEF RecordFails, PCs
<1>6. Respond(r) => OwnRow(r) /\ req[r].pc = "answer" /\ Ends(r, "created")
  BY <1>1, EndsRow DEF Respond
<1>7. Fails(r) => /\ OwnRow(r) /\ Ends(r, "error")
                  /\ req[r].pc \in {"node", "edges"} \/ (req[r].pc = "effect" /\ InTx(r))
  BY <1>1, EndsRow DEF Fails
<1>8. QED
  BY <1>3, <1>4, <1>5, <1>6, <1>7

-----------------------------------------------------------------------------
(* The tables only grow, and a request adds to them in its own name. *)

\* What a commit adds.
LEMMA CommitGrows ==
    ASSUME Typed, RequestOK, NEW r \in Requests, req[r].pc = "commit", Committed(r)
    PROVE  /\ req[r].node \in NodeIds /\ ~Exists(req[r].node)
           /\ node' = [node EXCEPT ![req[r].node] = NewNode(r)]
           /\ NewNode(r) \in GraphNode /\ NewNode(r).type # None
           /\ edges' = edges \union req[r].wired /\ req[r].wired \subseteq GraphEdge
           /\ effects \subseteq effects'
           /\ effects' \subseteq [by : Requests, key : Keys \union {NoKey}]
           /\ \A e \in effects' \ effects : e.by = r /\ e.key = req[r].context /\ Inserting(r)
           /\ Inserting(r) => [by |-> r, key |-> req[r].context] \in effects'
<1>1. req[r] \in RequestRow /\ InTx(r) /\ req[r].node # NoNode /\ ~Stored(r) /\ req[r].kind # None
      /\ effects \subseteq [by : Requests, key : Keys \union {NoKey}]
  BY DEF Typed, RequestOK, Place, Written, HasNode
<1>2. req[r].node \in NodeIds /\ ~Exists(req[r].node)
  <2>1. req[r].node \in 0..MaxNodes /\ req[r].node # 0 /\ MaxNodes \in Nat
    BY <1>1, GraphAssumption DEF RequestRow, NoNode
  <2>2. QED
    BY <1>1, <2>1 DEF NodeIds, Stored
<1>3. NewNode(r) \in GraphNode /\ NewNode(r).type # None
  <2>1. req[r].kind \in {"artifact", "approval", "side_effect"} /\ req[r].scope \in Scopes \union {None}
    BY <1>1, GraphAssumption DEF RequestRow
  <2>2. TypeOf(req[r].kind) \in {"Artifact", "Approval", "SideEffect"}
    BY <2>1 DEF TypeOf
  <2>3. QED
    BY <2>1, <2>2 DEF NewNode, GraphNode, NodeTypes, None
<1>4. req[r].effect = r => req[r].context # None /\ req[r].context \in Keys \union {NoKey}
  BY <1>1, GraphAssumption DEF RequestOK, Ledger, RequestRow
<1>5. QED
  BY <1>1, <1>2, <1>3, <1>4 DEF Committed, RequestRow, Inserting

\* A step adds nodes, edges and rows of its own request and removes none.
LEMMA Grows ==
    ASSUME Typed, RequestOK, NEW r \in Requests, Ingest(r)
    PROVE  /\ OwnRow(r)
           /\ node' \in [NodeIds -> GraphNode] /\ edges' \subseteq GraphEdge
           /\ effects' \subseteq [by : Requests, key : Keys \union {NoKey}] /\ faults' \in 0..MaxFaults
           /\ \A n \in NodeIds : Exists(n) => node'[n] = node[n]
           /\ \A n \in NodeIds : node'[n] # node[n] => n = req[r].node \/ (IdLeft /\ n = Fresh)
           /\ edges \subseteq edges' /\ effects \subseteq effects'
           /\ \A e \in effects' \ effects :
                /\ e.by = r
                /\ \/ Inserting(r) /\ e.key = req[r].context
                   \/ e.key # NoKey => ~Held(e.key)
<1> DEFINE Rows == [by : Requests, key : Keys \union {NoKey}]
<1>1. /\ node \in [NodeIds -> GraphNode] /\ edges \subseteq GraphEdge /\ effects \subseteq Rows
      /\ faults \in 0..MaxFaults /\ MaxFaults \in Nat
  BY GraphAssumption DEF Typed
<1> USE <1>1
<1>2. CASE Receive(r)
  BY <1>2, ReceiveRow
<1>3. CASE Reject(r) \/ EndEdges(r) \/ RecordFails(r) \/ Respond(r) \/ Fails(r)
  <2>1. UNCHANGED <<node, edges, effects>> /\ faults' \in 0..MaxFaults
    BY <1>3 DEF Reject, EndEdges, RecordFails, Respond, Fails
  <2>2. QED
    BY <1>3, <2>1, PassRow
<1>4. CASE CreateNode(r)
  <2>1. OwnRow(r) /\ UNCHANGED <<edges, effects, faults>> /\ IdLeft
    BY <1>4, CreateNodeRow DEF CreateNode
  <2>2. Fresh \in NodeIds /\ ~Exists(Fresh)
    BY <2>1, FreshIsFree
  <2>3. NewNode(r) \in GraphNode
    <3>1. req[r] \in RequestRow /\ req[r].kind # None
      BY <1>4, CreateNodeRow DEF Typed, RequestOK, Place
    <3>2. req[r].kind \in {"artifact", "approval", "side_effect"} /\ req[r].scope \in Scopes \union {None}
      BY <3>1, GraphAssumption DEF RequestRow
    <3>3. TypeOf(req[r].kind) \in {"Artifact", "Approval", "SideEffect"}
      BY <3>2 DEF TypeOf
    <3>4. QED
      BY <3>2, <3>3 DEF NewNode, GraphNode, NodeTypes
  <2>4. node' = node \/ node' = [node EXCEPT ![Fresh] = NewNode(r)]
    BY <1>4 DEF CreateNode
  <2>5. QED
    BY <2>1, <2>2, <2>3, <2>4
<1>5. CASE CreateEdge(r)
  BY <1>5, CreateEdgeRow
<1>6. CASE RecordEffect(r)
  BY <1>6, RecordEffectRow
<1>7. CASE Commit(r) \/ CommitInDoubt(r)
  <2>1. /\ OwnRow(r) /\ req[r].pc = "commit" /\ faults' \in 0..MaxFaults
        /\ Committed(r) \/ UNCHANGED <<node, edges, effects>>
    BY <1>7, CommitRow DEF Commit, CommitInDoubt
  <2>2. CASE Committed(r)
    <3>1. /\ req[r].node \in NodeIds /\ ~Exists(req[r].node)
          /\ node' = [node EXCEPT ![req[r].node] = NewNode(r)] /\ NewNode(r) \in GraphNode
          /\ edges' = edges \union req[r].wired /\ req[r].wired \subseteq GraphEdge
          /\ effects \subseteq effects' /\ effects' \subseteq Rows
          /\ \A e \in effects' \ effects : e.by = r /\ e.key = req[r].context /\ Inserting(r)
      BY <2>1, <2>2, CommitGrows
    <3> DEFINE m == req[r].node
               x == NewNode(r)
    <3>2. node' = [node EXCEPT ![m] = x] /\ m \in NodeIds /\ x \in GraphNode /\ ~Exists(m)
      BY <3>1
    <3> HIDE DEF m, x
    <3>3. /\ node' \in [NodeIds -> GraphNode]
          /\ \A n \in NodeIds : (Exists(n) => node'[n] = node[n]) /\ (node'[n] # node[n] => n = m)
      BY <3>2
    <3>4. QED
      BY <2>1, <3>1, <3>3 DEF m
  <2>3. CASE UNCHANGED <<node, edges, effects>>
    BY <2>1, <2>3
  <2>4. QED
    BY <2>1, <2>2, <2>3
<1>8. QED
  BY <1>2, <1>3, <1>4, <1>5, <1>6, <1>7 DEF Ingest

\* What a step leaves of a request that did not take it.
Quiet(b) ==
    /\ req'[b] = req[b]
    /\ req[b].node # NoNode => node'[req[b].node] = node[req[b].node]
    /\ \A n \in NodeIds : Exists(n) => node'[n] = node[n]
    /\ edges \subseteq edges' /\ effects \subseteq effects'
    /\ \A e \in effects' \ effects :
        e.by # b /\ (Inserting(b) /\ req[b].context # NoKey => e.key # req[b].context)

\* What fits goes on fitting while nodes stay what they are.
LEMMA FitsStays ==
    ASSUME \A n : Exists(n) => Exists(n)' /\ node'[n] = node[n]
    PROVE  \A kind, w : WireFits(kind, w) => WillFit(kind, w)
<1> SUFFICES ASSUME NEW kind, NEW w, WireFits(kind, w)
             PROVE  WillFit(kind, w)
  OBVIOUS
<1>1. w.ref \in NodeIds /\ node'[w.ref] = node[w.ref] /\ node[w.ref].type # None
  BY DEF WireFits, Exists
<1>2. QED
  BY <1>1 DEF WireFits, WillFit

\* Wires that will fit are wires that fit, one step later.
LEMMA WillTrace ==
    ASSUME NEW r \in Requests,
           \A i \in DOMAIN req'[r].wires : WillFit(req'[r].kind, req'[r].wires[i])
    PROVE  WiresTrace(r)'
BY DEF WillFit, WiresTrace, WireFits, Exists

\* What is said of a request outlives a step that is quiet about it.
LEMMA QuietKeeps ==
    ASSUME Typed, RequestOK, NEW b \in Requests, Quiet(b)
    PROVE  (Place(b) /\ Written(b) /\ Traces(b) /\ Ledger(b))'
<1>1. /\ Place(b) /\ Written(b) /\ Traces(b) /\ Ledger(b) /\ req[b] \in RequestRow
      /\ req'[b] = req[b] /\ edges \subseteq edges' /\ effects \subseteq effects'
  BY DEF RequestOK, Typed, Quiet
<1>2. ASSUME NEW n \in NodeIds, Exists(n) PROVE Exists(n)' /\ node'[n] = node[n]
  BY <1>2 DEF Quiet, Exists
<1>3. /\ Stored(b)' <=> Stored(b)
      /\ InTx(b)' <=> InTx(b)
      /\ Inserting(b)' <=> Inserting(b)
  BY <1>1 DEF Stored, Exists, InTx, Inserting, Quiet
<1>4. Place(b)'
  BY <1>1, <1>3 DEF Place
<1>5. Written(b)'
  <2>1. \A e \in req[b].wired : \A n \in {e.from, e.to} : Exists(n) => Exists(n)'
    BY <1>2 DEF Exists
  <2>2. QED
    BY <1>1, <1>3, <2>1 DEF Written
<1>6. Traces(b)'
  <2>1. ASSUME NEW e \in req[b].wired, node[e.to].type = "IntentVersion"
        PROVE  node'[e.to].type = "IntentVersion"
    <3>1. e.to \in NodeIds
      BY <1>1 DEF RequestRow, GraphEdge
    <3>2. Exists(e.to)
      BY <2>1, <3>1 DEF Exists, None
    <3>3. QED
      BY <1>2, <2>1, <3>1, <3>2
  <2>2. \A n : Exists(n) => Exists(n)' /\ node'[n] = node[n]
    BY <1>2 DEF Exists
  <2>3. \A i \in DOMAIN req[b].wires : WireFits(req[b].kind, req[b].wires[i])
    BY <1>1 DEF Traces, WiresTrace
  <2>4. \A i \in DOMAIN req'[b].wires : WillFit(req'[b].kind, req'[b].wires[i])
    BY <1>1, <2>2, <2>3, FitsStays
  <2>5. req[b].kind = "artifact" =>
            \/ req[b].wires # <<>>
            \/ \E e \in req[b].wired :
                e.from = req[b].node /\ e.type = "DependsOn" /\ node'[e.to].type = "IntentVersion"
    BY <1>1, <2>1 DEF Traces, EdgeTraces
  <2>6. WiresTrace(b)'
    BY <2>4, WillTrace
  <2>7. EdgeTraces(b)'
    BY <1>1, <2>5 DEF EdgeTraces
  <2>8. QED
    BY <2>6, <2>7 DEF Traces
<1>7. Ledger(b)'
  <2>1. RowStored(b) => RowStored(b)'
    BY <1>1 DEF RowStored
  <2>2. ~Stored(b) => \A e \in effects' : e.by # b
    BY <1>1 DEF Ledger, Quiet
  <2>3. Inserting(b) /\ req[b].context # NoKey => \A e \in effects' : e.key # req[b].context
    BY <1>1 DEF Ledger, Quiet
  <2>4. QED
    BY <1>1, <1>3, <2>1, <2>2, <2>3 DEF Ledger
<1>8. QED
  BY <1>4, <1>5, <1>6, <1>7

\* Nobody's step disturbs another's ingestion.
LEMMA OthersQuiet ==
    ASSUME Typed, RequestOK, Tables, NEW r \in Requests, Ingest(r), NEW b \in Requests \ {r}
    PROVE  Quiet(b)
<1>1. req'[b] = req[b]
  BY Grows DEF OwnRow
<1>2. ASSUME req[b].node # NoNode PROVE node'[req[b].node] = node[req[b].node]
  <2>1. req[b].node \in NodeIds
    <3>1. req[b].node \in 0..MaxNodes /\ req[b].node # 0 /\ MaxNodes \in Nat
      BY <1>2, GraphAssumption DEF Typed, RequestRow, NoNode
    <3>2. QED
      BY <3>1 DEF NodeIds
  <2>2. req[b].node # req[r].node
    BY <1>2 DEF Tables
  <2>3. IdLeft => req[b].node # Fresh
    BY FreshIsFree
  <2>4. QED
    BY <2>1, <2>2, <2>3, Grows
<1>3. ASSUME NEW e \in effects' \ effects
      PROVE  e.by # b /\ (Inserting(b) /\ req[b].context # NoKey => e.key # req[b].context)
  <2>1. e.by = r /\ ((Inserting(r) /\ e.key = req[r].context) \/ (e.key # NoKey => ~Held(e.key)))
    BY <1>3, Grows
  <2>2. ASSUME Inserting(b), req[b].context # NoKey, e.key = req[b].context PROVE FALSE
    <3>1. Held(e.key)
      BY <2>2 DEF Held, Inserting
    <3>2. QED
      BY <2>1, <2>2, <3>1 DEF Tables
  <2>3. QED
    BY <2>1, <2>2
<1>4. QED
  BY <1>1, <1>2, <1>3, Grows DEF Quiet

-----------------------------------------------------------------------------
(* What each step makes of its own request's parts. *)

Parts(r) == Place(r) /\ Written(r) /\ Traces(r) /\ Ledger(r)

\* While nodes, wires and edges of a request stay, so do the references they trace.
LEMMA TracesSame ==
    ASSUME NEW r \in Requests, node' = node, req'[r].kind = req[r].kind, SameWork(r), Traces(r)
    PROVE  Traces(r)'
<1>1. WiresTrace(r)'
  BY DEF Traces, WiresTrace, WireFits, Exists, SameWork
<1>2. EdgeTraces(r)'
  BY DEF Traces, EdgeTraces, SameWork
<1>3. QED
  BY <1>1, <1>2 DEF Traces

\* What was a node stays the node it was.
LEMMA NodesStay ==
    ASSUME Typed, RequestOK, NEW r \in Requests, Ingest(r)
    PROVE  \A n : Exists(n) => Exists(n)' /\ node'[n] = node[n]
  BY Grows DEF Exists

\* A request that has just come in has written nothing.
LEMMA ReceiveKeeps ==
    ASSUME Typed, RequestOK, NEW r \in Requests, Receive(r)
    PROVE  Parts(r)'
<1>1. /\ UNCHANGED <<node, edges, effects>> /\ req[r].pc = "idle"
      /\ req'[r].pc = "node" /\ req'[r].node = NoNode /\ req'[r].wired = {}
      /\ req'[r].effect = None /\ req'[r].answer = None
      /\ req'[r].kind # None /\ req'[r].scope # None
      /\ req'[r].kind = "artifact" => req'[r].wires # <<>>
  BY ReceiveRow, GraphAssumption DEF None
<1>2. req[r] = NoRequest
  BY <1>1 DEF RequestOK, Place
<1>3. ~Stored(r) /\ ~Stored(r)' /\ None # r
  BY <1>1, <1>2, GraphAssumption DEF Stored, NoRequest
<1>4. \A e \in effects : e.by # r
  BY <1>3 DEF RequestOK, Ledger
<1>5. Place(r)'
  BY <1>1 DEF Place, HasNode, AllWired
<1>6. Written(r)'
  BY <1>1, <1>3 DEF Written, None
<1>7. Traces(r)'
  <2>1. \A i \in DOMAIN req'[r].wires :
            LET w == req'[r].wires[i] IN
            /\ w.ref \in NodeIds /\ node'[w.ref].type # None /\ node'[w.ref].type \in w.wants
            /\ req'[r].kind = "artifact" =>
                w.out /\ w.type = "DependsOn" /\ w.wants = {"IntentVersion"}
    BY <1>1, ReceiveRow DEF Exists
  <2>2. QED
    BY <1>1, <2>1 DEF Traces, WiresTrace, WireFits, EdgeTraces, Exists
<1>8. Ledger(r)'
  BY <1>1, <1>3, <1>4 DEF Ledger, Inserting
<1>9. QED
  BY <1>5, <1>6, <1>7, <1>8 DEF Parts

\* Steps that write nothing leave what was written and asked for as it was.
LEMMA PassKeeps ==
    ASSUME Typed, RequestOK, NEW r \in Requests,
           Reject(r) \/ EndEdges(r) \/ RecordFails(r) \/ Respond(r) \/ Fails(r)
    PROVE  Parts(r)'
<1>1. UNCHANGED <<node, edges, effects>>
  BY DEF Reject, EndEdges, RecordFails, Respond, Fails
<1>2. SameAsk(r) /\ SameWork(r) /\ req'[r].effect = req[r].effect
  BY PassRow DEF Ends, GoesTo
<1>3. Place(r) /\ Written(r) /\ Traces(r) /\ Ledger(r)
  BY DEF RequestOK
<1>4. /\ Stored(r)' <=> Stored(r)
      /\ InTx(r)' <=> InTx(r)
      /\ RowStored(r)' <=> RowStored(r)
  BY <1>1, <1>2 DEF Stored, Exists, InTx, RowStored, SameAsk, SameWork
<1>5. Traces(r)'
  BY <1>1, <1>2, <1>3, TracesSame DEF SameAsk
<1>6. r # None
  BY GraphAssumption
<1>7. \A e \in req[r].wired :
        /\ req[r].node \in {e.from, e.to}
        /\ \A n \in {e.from, e.to} : n = req[r].node \/ Exists(n)'
  BY <1>1, <1>3 DEF Written, Exists
<1>8. CASE Reject(r)
  <2>1. req[r] = NoRequest /\ req'[r].pc = "done" /\ req'[r].answer = "rejected"
    BY <1>3, <1>8, PassRow DEF Ends, Place
  <2>2. req[r].node = NoNode /\ req[r].wired = {} /\ req[r].effect = None /\ ~InTx(r)
    BY <2>1 DEF NoRequest, InTx, None
  <2>3. ~Inserting(r)'
    BY <2>1 DEF Inserting
  <2>4. QED
    BY <1>1, <1>2, <1>3, <1>4, <1>5, <1>7, <2>1, <2>2, <2>3
      DEF Parts, Place, Written, Ledger, SameAsk, SameWork, HasNode, AllWired
<1>9. CASE EndEdges(r)
  <2>1. req[r].pc = "edges" /\ req[r].wires = <<>> /\ req'[r].pc = AfterEdges(r) /\ req'[r].answer = req[r].answer
    BY <1>9, PassRow DEF GoesTo
  <2>2. /\ req[r].node # NoNode /\ req[r].effect = None /\ req[r].answer = None
        /\ req[r].kind # None /\ req[r].scope # None
        /\ InTx(r) => ~Stored(r)
    BY <1>3, <2>1 DEF Place, Written, Ledger, HasNode
  <2>3. /\ AfterEdges(r) \in {"effect", "commit", "answer"}
        /\ AfterEdges(r) = "effect" <=> req[r].context # None
        /\ AfterEdges(r) = "commit" => InTx(r)
        /\ AfterEdges(r) = "answer" => ~InTx(r)
    BY DEF AfterEdges
  <2>4. ~Inserting(r)'
    BY <1>2, <1>6, <2>2 DEF Inserting
  <2>5. Place(r)'
    BY <1>2, <1>4, <2>1, <2>2, <2>3 DEF Place, SameAsk, SameWork, HasNode, AllWired
  <2>6. Written(r)'
    BY <1>1, <1>2, <1>3, <1>4, <1>7, <2>1, <2>2, <2>3 DEF Written, SameAsk, SameWork
  <2>7. Ledger(r)'
    BY <1>1, <1>2, <1>3, <1>4, <2>1, <2>2, <2>3, <2>4 DEF Ledger, SameAsk, SameWork
  <2>8. QED
    BY <1>5, <2>5, <2>6, <2>7 DEF Parts
<1>10. CASE RecordFails(r)
  <2>1. req[r].pc = "effect" /\ ~InTx(r) /\ req'[r].pc = "answer" /\ req'[r].answer = req[r].answer
    BY <1>10, PassRow DEF GoesTo
  <2>2. /\ req[r].node # NoNode /\ req[r].effect = None /\ req[r].answer = None
        /\ req[r].kind # None /\ req[r].scope # None /\ req[r].wires = <<>>
    BY <1>3, <2>1 DEF Place, Ledger, HasNode, AllWired
  <2>3. ~Inserting(r)'
    BY <2>1 DEF Inserting
  <2>4. Place(r)'
    BY <1>2, <1>4, <2>1, <2>2 DEF Place, SameAsk, SameWork, HasNode, AllWired
  <2>5. Written(r)'
    BY <1>1, <1>2, <1>3, <1>4, <1>7, <2>1, <2>2 DEF Written, SameAsk, SameWork
  <2>6. Ledger(r)'
    BY <1>1, <1>2, <1>3, <1>4, <2>1, <2>2, <2>3 DEF Ledger, SameAsk, SameWork
  <2>7. QED
    BY <1>5, <2>4, <2>5, <2>6 DEF Parts
<1>11. CASE Respond(r)
  <2>1. req[r].pc = "answer" /\ req'[r].pc = "done" /\ req'[r].answer = "created"
    BY <1>11, PassRow DEF Ends
  <2>2. Stored(r) /\ req[r].wires = <<>> /\ req[r].wired \subseteq edges /\ ~Inserting(r) /\ ~Inserting(r)'
    BY <1>3, <2>1 DEF Written, Inserting
  <2>3. Place(r)'
    BY <1>2, <1>3, <2>1 DEF Place, SameAsk, SameWork, HasNode, AllWired
  <2>4. Written(r)'
    BY <1>1, <1>2, <1>3, <1>4, <1>7, <2>1, <2>2 DEF Written, SameAsk, SameWork
  <2>5. Ledger(r)'
    BY <1>1, <1>2, <1>3, <1>4, <2>1, <2>2 DEF Ledger, SameAsk, SameWork
  <2>6. QED
    BY <1>5, <2>3, <2>4, <2>5 DEF Parts
<1>12. CASE Fails(r)
  <2>1. /\ req[r].pc \in {"node", "edges", "effect"} /\ req'[r].pc = "done" /\ req'[r].answer = "error"
        /\ req[r].pc = "effect" => InTx(r)
    BY <1>12, PassRow DEF Ends
  <2>2. req[r].effect = None /\ (InTx(r) => ~Stored(r)) /\ ~Inserting(r)'
    BY <1>3, <2>1 DEF Ledger, Written, Place, Stored, Inserting
  <2>3. Place(r)'
    BY <1>2, <1>3, <2>1 DEF Place, SameAsk, SameWork, HasNode, AllWired
  <2>4. Written(r)'
    BY <1>1, <1>2, <1>3, <1>4, <1>7, <2>1, <2>2 DEF Written, SameAsk, SameWork
  <2>5. Ledger(r)'
    BY <1>1, <1>2, <1>3, <1>4, <2>1, <2>2 DEF Ledger, SameAsk, SameWork
  <2>6. QED
    BY <1>5, <2>3, <2>4, <2>5 DEF Parts
<1>13. QED
  BY <1>8, <1>9, <1>10, <1>11, <1>12

\* On the plain path the node is there at once; in a transaction not before the commit.
LEMMA CreateNodeKeeps ==
    ASSUME Typed, RequestOK, NEW r \in Requests, CreateNode(r)
    PROVE  Parts(r)'
<1>1. /\ req[r].pc = "node" /\ req'[r].pc = "edges" /\ SameAsk(r)
      /\ req'[r].node = Fresh /\ req'[r].wires = req[r].wires
      /\ req'[r].wired = req[r].wired /\ req'[r].effect = req[r].effect
      /\ req'[r].answer = req[r].answer /\ UNCHANGED <<edges, effects>>
  BY CreateNodeRow
<1>2. Place(r) /\ Written(r) /\ Traces(r) /\ Ledger(r) /\ req[r] \in RequestRow
  BY DEF RequestOK, Typed
<1>3. Fresh \in NodeIds /\ ~Exists(Fresh) /\ Fresh # NoNode
  BY FreshIsFree DEF CreateNode, NodeIds, NoNode
<1>4. /\ req[r].node = NoNode /\ req[r].wired = {} /\ req[r].effect = None /\ req[r].answer = None
      /\ req[r].kind # None /\ req[r].scope # None /\ ~Stored(r)
  BY <1>1, <1>2 DEF Place, Ledger, Stored
<1>5. IF InTx(r) THEN node' = node ELSE node'[Fresh].type # None
  <2>1. req[r].kind \in {"artifact", "approval", "side_effect"}
    BY <1>2, <1>4, GraphAssumption DEF RequestRow
  <2>2. TypeOf(req[r].kind) # None
    BY <2>1 DEF TypeOf, None
  <2>3. NewNode(r).type # None
    BY <2>2 DEF NewNode
  <2>4. CASE InTx(r)
    BY <2>4 DEF CreateNode
  <2>5. CASE ~InTx(r)
    <3>1. node' = [node EXCEPT ![Fresh] = NewNode(r)] /\ node \in [NodeIds -> GraphNode]
      BY <2>5 DEF CreateNode, Typed
    <3>2. QED
      BY <1>3, <2>3, <2>5, <3>1
  <2>6. QED
    BY <2>4, <2>5
<1>6. /\ InTx(r)' <=> InTx(r)
      /\ Stored(r)' <=> ~InTx(r)
      /\ ~Inserting(r)'
  BY <1>1, <1>3, <1>5 DEF InTx, SameAsk, Stored, Exists, Inserting
<1>7. Place(r)'
  BY <1>1, <1>3, <1>4 DEF Place, SameAsk, HasNode, AllWired
<1>8. Written(r)'
  BY <1>1, <1>4, <1>6 DEF Written, None
<1>9. Traces(r)'
  <2>1. \A n : Exists(n) => Exists(n)' /\ node'[n] = node[n]
    BY NodesStay DEF Ingest
  <2>2. \A i \in DOMAIN req[r].wires : WillFit(req[r].kind, req[r].wires[i])
    <3>1. \A i \in DOMAIN req[r].wires : WireFits(req[r].kind, req[r].wires[i])
      BY <1>2 DEF Traces, WiresTrace
    <3>2. QED
      BY <2>1, <3>1, FitsStays
  <2>3. req[r].kind = "artifact" => req[r].wires # <<>>
    BY <1>2, <1>4 DEF Traces, EdgeTraces
  <2>4. WiresTrace(r)'
    BY <1>1, <2>2, WillTrace DEF SameAsk
  <2>5. EdgeTraces(r)'
    BY <1>1, <2>3 DEF EdgeTraces, SameAsk
  <2>6. QED
    BY <2>4, <2>5 DEF Traces
<1>10. Ledger(r)'
  BY <1>1, <1>2, <1>4, <1>6 DEF Ledger, SameAsk
<1>11. QED
  BY <1>7, <1>8, <1>9, <1>10 DEF Parts

\* An edge takes its wire's place, on the plain path in the table as well.
LEMMA CreateEdgeKeeps ==
    ASSUME Typed, RequestOK, NEW r \in Requests, CreateEdge(r)
    PROVE  Parts(r)'
<1>1. OwnRow(r) /\ req[r].pc = "edges" /\ req[r].wires # <<>> /\ UNCHANGED <<node, effects>>
  BY CreateEdgeRow
<1>2. Place(r) /\ Written(r) /\ Traces(r) /\ Ledger(r) /\ req[r] \in RequestRow
  BY DEF RequestOK, Typed
<1>3. /\ req[r].node # NoNode /\ req[r].effect = None /\ req[r].answer = None
      /\ req[r].kind # None /\ req[r].scope # None
      /\ InTx(r) => ~Stored(r)
      /\ ~InTx(r) => Stored(r) /\ req[r].wired \subseteq edges
  BY <1>1, <1>2 DEF Place, Written, Ledger, HasNode
<1>4. CASE /\ EdgeOf(r) \in GraphEdge /\ req'[r].pc = "edges" /\ SameAsk(r)
           /\ \A n \in {EdgeOf(r).from, EdgeOf(r).to} : n = req[r].node \/ Exists(n)
           /\ req'[r].node = req[r].node /\ req'[r].wires = Tail(req[r].wires)
           /\ req'[r].wired = req[r].wired \union {EdgeOf(r)}
           /\ req'[r].effect = req[r].effect /\ req'[r].answer = req[r].answer
           /\ edges' = IF InTx(r) THEN edges ELSE edges \union {EdgeOf(r)}
  <2>1. /\ Stored(r)' <=> Stored(r)
        /\ InTx(r)' <=> InTx(r)
        /\ ~Inserting(r)'
    BY <1>1, <1>4 DEF Stored, Exists, InTx, Inserting, SameAsk
  <2>2. Place(r)'
    BY <1>3, <1>4 DEF Place, SameAsk, HasNode, AllWired
  <2>3. req[r].node \in {EdgeOf(r).from, EdgeOf(r).to}
    BY DEF EdgeOf
  <2>4. Written(r)'
    <3>1. \A e \in req'[r].wired :
            /\ req'[r].node \in {e.from, e.to}
            /\ \A n \in {e.from, e.to} : n = req'[r].node \/ Exists(n)'
      BY <1>1, <1>2, <1>4, <2>3 DEF Written, Exists
    <3>2. ~InTx(r) => req'[r].wired \subseteq edges'
      BY <1>3, <1>4
    <3>3. QED
      BY <1>3, <1>4, <2>1, <3>1, <3>2 DEF Written, None
  <2>5. Traces(r)'
    <3> DEFINE w == Head(req[r].wires)
               more == Tail(req[r].wires)
    <3>1. /\ req[r].wires \in Seq(WireRow) /\ w = req[r].wires[1] /\ 1 \in DOMAIN req[r].wires
          /\ \A i \in DOMAIN more : i + 1 \in DOMAIN req[r].wires /\ more[i] = req[r].wires[i + 1]
      <4>1. req[r].wires \in Seq(WireRow) /\ req[r].wires # <<>>
        BY <1>1, <1>2 DEF RequestRow
      <4>2. QED
        BY <4>1
    <3> HIDE DEF w, more
    <3>0. \A i \in DOMAIN req[r].wires : WireFits(req[r].kind, req[r].wires[i])
      BY <1>2 DEF Traces, WiresTrace
    <3>2. \A i \in DOMAIN more : WillFit(req'[r].kind, more[i])
      <4>1. \A n : Exists(n) => Exists(n)' /\ node'[n] = node[n]
        BY <1>1 DEF Exists
      <4>2. QED
        BY <1>4, <3>0, <3>1, <4>1, FitsStays DEF SameAsk
    <3>3. ASSUME req'[r].kind = "artifact"
          PROVE  \E e \in req'[r].wired :
                    /\ e.from = req'[r].node /\ e.type = "DependsOn"
                    /\ node'[e.to].type = "IntentVersion"
      <4>1. /\ w.out /\ w.type = "DependsOn" /\ w.wants = {"IntentVersion"}
            /\ node[w.ref].type \in w.wants
        BY <1>4, <3>0, <3>1, <3>3 DEF SameAsk, WireFits
      <4>2. EdgeOf(r) = [from |-> req[r].node, to |-> w.ref, type |-> w.type]
        BY <4>1 DEF EdgeOf, w
      <4>3. QED
        BY <1>1, <1>4, <4>1, <4>2
    <3>4. WiresTrace(r)'
      BY <1>4, <3>2, WillTrace DEF more
    <3>5. EdgeTraces(r)'
      BY <3>3 DEF EdgeTraces
    <3>6. QED
      BY <3>4, <3>5 DEF Traces
  <2>6. Ledger(r)'
    BY <1>1, <1>2, <1>3, <1>4, <2>1 DEF Ledger, SameAsk
  <2>7. QED
    BY <2>2, <2>4, <2>5, <2>6 DEF Parts
<1>5. CASE Ends(r, "error") /\ edges' = edges
  <2>1. /\ Stored(r)' <=> Stored(r)
        /\ InTx(r)' <=> InTx(r)
        /\ ~Inserting(r)'
    BY <1>1, <1>5 DEF Ends, SameAsk, SameWork, Stored, Exists, InTx, Inserting
  <2>2. Place(r)'
    BY <1>2, <1>3, <1>5 DEF Place, Ends, SameAsk, SameWork, HasNode, AllWired
  <2>3. Written(r)'
    BY <1>1, <1>2, <1>3, <1>5, <2>1 DEF Written, Ends, SameWork, Exists
  <2>4. Traces(r)'
    BY <1>1, <1>2, <1>5, TracesSame DEF Ends, SameAsk
  <2>5. Ledger(r)'
    BY <1>1, <1>2, <1>3, <1>5, <2>1 DEF Ledger, Ends, SameAsk, SameWork
  <2>6. QED
    BY <2>2, <2>3, <2>4, <2>5 DEF Parts
<1>6. QED
  BY <1>4, <1>5, CreateEdgeRow

\* The ledger: outside a transaction the row is there at once.
LEMMA RecordEffectKeeps ==
    ASSUME Typed, RequestOK, NEW r \in Requests, RecordEffect(r)
    PROVE  Parts(r)'
<1>1. /\ OwnRow(r) /\ req[r].pc = "effect" /\ SameAsk(r) /\ SameWork(r)
      /\ req'[r].pc = IF InTx(r) THEN "commit" ELSE "answer"
      /\ req'[r].answer = req[r].answer /\ UNCHANGED <<node, edges>> /\ req[r].context # None
  BY RecordEffectRow
<1>2. PICK x \in [by : Requests, key : Keys \union {NoKey}] :
        /\ x.key = req[r].context /\ req'[r].effect = x.by
        /\ effects' = IF InTx(r) THEN effects ELSE effects \union {x}
        /\ \/ x \in effects
           \/ /\ x.by = r
              /\ req[r].context # NoKey => \A e \in effects : e.key # req[r].context
  BY RecordEffectRow
<1>3. Place(r) /\ Written(r) /\ Traces(r) /\ Ledger(r) /\ req[r] \in RequestRow
  BY DEF RequestOK, Typed
<1>4. /\ req[r].node # NoNode /\ req[r].answer = None /\ req[r].wires = <<>>
      /\ req[r].kind # None /\ req[r].scope # None
      /\ InTx(r) => ~Stored(r)
      /\ ~InTx(r) => Stored(r) /\ req[r].wired \subseteq edges
  BY <1>1, <1>3 DEF Place, Written, HasNode, AllWired
<1>5. /\ Stored(r)' <=> Stored(r)
      /\ InTx(r)' <=> InTx(r)
  BY <1>1 DEF Stored, Exists, InTx, SameAsk, SameWork
<1>6. x.by # None
  BY GraphAssumption
<1>7. Place(r)'
  BY <1>1, <1>3, <1>4, <1>5 DEF Place, SameAsk, SameWork, HasNode, AllWired
<1>8. Written(r)'
  BY <1>1, <1>3, <1>4, <1>5 DEF Written, SameAsk, SameWork, Exists, None
<1>9. Traces(r)'
  BY <1>1, <1>3, TracesSame DEF SameAsk
<1>10. CASE InTx(r)
  <2>1. \A e \in effects : e.by # r
    BY <1>3, <1>4, <1>10 DEF Ledger
  <2>2. effects' = effects
    BY <1>2, <1>10
  <2>3. RowStored(r)' \/ Inserting(r)'
    BY <1>1, <1>2, <1>5, <1>10, <2>2 DEF RowStored, Inserting, SameAsk
  <2>4. Inserting(r)' /\ req[r].context # NoKey => \A e \in effects : e.key # req[r].context
    BY <1>2, <2>1 DEF Inserting
  <2>5. QED
    BY <1>1, <1>2, <1>5, <1>6, <1>7, <1>8, <1>9, <1>10, <2>1, <2>2, <2>3, <2>4
       DEF Parts, Ledger, SameAsk
<1>11. CASE ~InTx(r)
  <2>1. Stored(r)' /\ ~InTx(r)' /\ ~Inserting(r)'
    BY <1>4, <1>5, <1>11 DEF Inserting
  <2>2. RowStored(r)'
    <3>1. x \in effects' /\ req'[r].effect = x.by /\ req'[r].context = x.key
      BY <1>1, <1>2, <1>11 DEF SameAsk
    <3>2. QED
      BY <3>1 DEF RowStored
  <2>3. QED
    BY <1>1, <1>7, <1>8, <1>9, <1>11, <2>1, <2>2 DEF Parts, Ledger, SameAsk
<1>12. QED
  BY <1>10, <1>11

\* A commit brings all that the transaction wrote, and one in doubt all or nothing.
LEMMA CommitKeeps ==
    ASSUME Typed, RequestOK, NEW r \in Requests, Commit(r) \/ CommitInDoubt(r)
    PROVE  Parts(r)'
<1>1. /\ OwnRow(r) /\ req[r].pc = "commit"
      /\ \/ GoesTo(r, "answer") /\ Committed(r)
         \/ Ends(r, "error") /\ (Committed(r) \/ UNCHANGED <<node, edges, effects>>)
  BY CommitRow
<1>2. /\ SameAsk(r) /\ SameWork(r) /\ req'[r].effect = req[r].effect
      /\ \/ req'[r].pc = "answer" /\ req'[r].answer = req[r].answer /\ Committed(r)
         \/ req'[r].pc = "done" /\ req'[r].answer = "error"
  BY <1>1 DEF GoesTo, Ends
<1>3. Place(r) /\ Written(r) /\ Traces(r) /\ Ledger(r) /\ req[r] \in RequestRow
  BY DEF RequestOK, Typed
<1>4. /\ InTx(r) /\ ~Stored(r) /\ req[r].node # NoNode /\ req[r].answer = None
      /\ req[r].wires = <<>> /\ req[r].kind # None /\ req[r].scope # None
  BY <1>1, <1>3 DEF Place, Written, HasNode, AllWired
<1>5. InTx(r)' /\ ~Inserting(r)'
  BY <1>2, <1>4 DEF InTx, SameAsk, Inserting
<1>6. Place(r)'
  BY <1>2, <1>4 DEF Place, SameAsk, SameWork, HasNode, AllWired
<1>7. \A n : Exists(n) => Exists(n)' /\ node'[n] = node[n]
  BY NodesStay DEF Ingest
<1>8. \A e \in req[r].wired :
        /\ req[r].node \in {e.from, e.to}
        /\ \A n \in {e.from, e.to} : n = req[r].node \/ Exists(n)'
  BY <1>3, <1>7 DEF Written
<1>9. Traces(r)'
  <2>1. ASSUME NEW e \in req[r].wired, node[e.to].type = "IntentVersion"
        PROVE  node'[e.to].type = "IntentVersion"
    <3>1. e.to \in NodeIds
      BY <1>3 DEF RequestRow, GraphEdge
    <3>2. Exists(e.to)
      BY <2>1, <3>1 DEF Exists, None
    <3>3. QED
      BY <1>7, <2>1, <3>2
  <2>2. req[r].kind = "artifact" =>
            \E e \in req[r].wired :
                e.from = req[r].node /\ e.type = "DependsOn" /\ node'[e.to].type = "IntentVersion"
    BY <1>3, <1>4, <2>1 DEF Traces, WiresTrace, WireFits, EdgeTraces
  <2>3. DOMAIN req'[r].wires = {}
    BY <1>2, <1>4 DEF SameWork
  <2>4. QED
    BY <1>2, <2>2, <2>3 DEF Traces, WiresTrace, WireFits, EdgeTraces, SameAsk, SameWork
<1>10. CASE Committed(r)
  <2>1. /\ req[r].node \in NodeIds
        /\ node' = [node EXCEPT ![req[r].node] = NewNode(r)] /\ NewNode(r).type # None
        /\ edges' = edges \union req[r].wired /\ effects \subseteq effects'
        /\ Inserting(r) => [by |-> r, key |-> req[r].context] \in effects'
    BY <1>1, <1>10, CommitGrows
  <2>2. Stored(r)'
    <3>1. node'[req[r].node].type # None
      BY <2>1 DEF Typed
    <3>2. QED
      BY <1>2, <1>4, <2>1, <3>1 DEF Stored, Exists, SameWork
  <2>3. Written(r)'
    BY <1>2, <1>4, <1>5, <1>8, <2>1, <2>2 DEF Written, SameWork
  <2>4. req[r].effect # None => RowStored(r)'
    <3>1. ASSUME req[r].effect # None PROVE RowStored(r) \/ Inserting(r)
      BY <1>3, <1>4, <3>1 DEF Ledger, None
    <3>2. RowStored(r) => RowStored(r)'
      BY <1>2, <2>1 DEF RowStored, SameAsk
    <3>3. Inserting(r) => RowStored(r)'
      <4>1. ASSUME Inserting(r) PROVE RowStored(r)'
        <5> DEFINE x == [by |-> r, key |-> req[r].context]
        <5>1. x \in effects' /\ x.by = req'[r].effect /\ x.key = req'[r].context
          BY <1>2, <2>1, <4>1 DEF Inserting, SameAsk
        <5>2. QED
          BY <5>1 DEF RowStored
      <4>2. QED
        BY <4>1
    <3>4. QED
      BY <3>1, <3>2, <3>3
  <2>5. Ledger(r)'
    BY <1>1, <1>2, <1>3, <1>4, <1>5, <2>2, <2>4 DEF Ledger, SameAsk
  <2>6. QED
    BY <1>6, <1>9, <2>3, <2>5 DEF Parts
<1>11. CASE ~Committed(r)
  <2>1. UNCHANGED <<node, edges, effects>> /\ req'[r].pc = "done" /\ req'[r].answer = "error"
    BY <1>1, <1>2, <1>11
  <2>2. ~Stored(r)'
    BY <1>2, <1>4, <2>1 DEF Stored, Exists, SameWork
  <2>3. Written(r)'
    BY <1>2, <1>5, <1>8, <2>1, <2>2 DEF Written, SameWork
  <2>4. Ledger(r)'
    BY <1>2, <1>3, <1>4, <1>5, <2>1, <2>2 DEF Ledger, SameAsk
  <2>5. QED
    BY <1>6, <1>9, <2>3, <2>4 DEF Parts
<1>12. QED
  BY <1>10, <1>11

\* A step of an ingestion keeps what is said of all of them.
LEMMA IngestKeeps ==
    ASSUME Typed, RequestOK, Tables, NEW r \in Requests, Ingest(r)
    PROVE  Typed' /\ RequestOK'
<1>1. Typed'
  BY Grows DEF Typed, OwnRow
<1>2. Parts(r)'
  BY ReceiveKeeps, PassKeeps, CreateNodeKeeps, CreateEdgeKeeps, RecordEffectKeeps, CommitKeeps
     DEF Ingest
<1>3. \A b \in Requests \ {r} : Parts(b)'
  BY OthersQuiet, QuietKeeps DEF Parts
<1>4. \A b \in Requests : Parts(b)'
  BY <1>2, <1>3
<1>5. QED
  BY <1>1, <1>4 DEF RequestOK, Parts

-----------------------------------------------------------------------------
(* The tables. *)

NodesUnshared == \A r, s \in Requests : r # s /\ req[r].node # NoNode => req[r].node # req[s].node
EdgesHaveEnds == \A e \in edges : Exists(e.from) /\ Exists(e.to)
KeysUnique == \A e, f \in effects : e.key = f.key /\ e.key # NoKey => e = f
OneInserter ==
    \A r, s \in Requests :
        Inserting(r) /\ Inserting(s) /\ req[r].context = req[s].context /\ req[r].context # NoKey => r = s

\* A request's node id is its old one, none, or one that nobody had.
LEMMA NodeIdUnshared ==
    ASSUME Typed, RequestOK, Tables, NEW r \in Requests, Ingest(r)
    PROVE  NodesUnshared'
<1>1. \A b \in Requests \ {r} : req'[b] = req[b]
  BY Grows DEF OwnRow
<1>2. \/ req'[r].node \in {req[r].node, NoNode}
      \/ req'[r].node # NoNode /\ \A s \in Requests : req[s].node # req'[r].node
  <2>1. CASE Receive(r)
    BY <2>1, ReceiveRow
  <2>2. CASE CreateNode(r)
    <3>1. Fresh \in NodeIds /\ \A s \in Requests : req[s].node # Fresh
      BY <2>2, FreshIsFree DEF CreateNode
    <3>2. req'[r].node = Fresh /\ Fresh # NoNode
      BY <2>2, <3>1, CreateNodeRow DEF NodeIds, NoNode
    <3>3. QED
      BY <3>1, <3>2
  <2>3. CASE CreateEdge(r)
    BY <2>3, CreateEdgeRow DEF Ends, SameWork
  <2>4. CASE RecordEffect(r)
    BY <2>4, RecordEffectRow DEF SameWork
  <2>5. CASE Commit(r) \/ CommitInDoubt(r)
    BY <2>5, CommitRow DEF GoesTo, Ends, SameWork
  <2>6. CASE Reject(r) \/ EndEdges(r) \/ RecordFails(r) \/ Respond(r) \/ Fails(r)
    BY <2>6, PassRow DEF GoesTo, Ends, SameWork
  <2>7. QED
    BY <2>1, <2>2, <2>3, <2>4, <2>5, <2>6 DEF Ingest
<1>3. QED
  BY <1>1, <1>2 DEF Tables, NodesUnshared

\* An edge comes to the table with, or after, the nodes it joins.
LEMMA EndsKept ==
    ASSUME Typed, RequestOK, Tables, NEW r \in Requests, Ingest(r)
    PROVE  EdgesHaveEnds'
<1>1. \A n : Exists(n) => Exists(n)'
  BY NodesStay
<1>2. \A e \in edges : Exists(e.from)' /\ Exists(e.to)'
  BY <1>1 DEF Tables
<1>3. CASE edges' = edges
  BY <1>2, <1>3 DEF EdgesHaveEnds, Exists
<1>4. CASE CreateEdge(r)
  <2>1. edges' = edges \/ (edges' = edges \union {EdgeOf(r)} /\ Exists(EdgeOf(r).from) /\ Exists(EdgeOf(r).to))
    BY <1>4, CreateEdgeRow
  <2>2. ASSUME edges' = edges \union {EdgeOf(r)}, Exists(EdgeOf(r).from), Exists(EdgeOf(r).to)
        PROVE  \A e \in edges' : e.from \in NodeIds /\ node'[e.from].type # None
                                 /\ e.to \in NodeIds /\ node'[e.to].type # None
    BY <1>1, <1>2, <2>2 DEF Exists
  <2>3. QED
    BY <1>3, <2>1, <2>2 DEF EdgesHaveEnds, Exists
<1>5. CASE (Commit(r) \/ CommitInDoubt(r)) /\ Committed(r)
  <2>1. /\ req[r].node \in NodeIds /\ edges' = edges \union req[r].wired
        /\ node' = [node EXCEPT ![req[r].node] = NewNode(r)] /\ NewNode(r).type # None
    BY <1>5, CommitRow, CommitGrows
  <2>2. node'[req[r].node].type # None
    BY <2>1 DEF Typed
  <2>3. \A e \in req[r].wired : \A n \in {e.from, e.to} : n = req[r].node \/ Exists(n)
    BY DEF RequestOK, Written
  <2>4. \A e \in req[r].wired : e.from \in NodeIds /\ node'[e.from].type # None
                                /\ e.to \in NodeIds /\ node'[e.to].type # None
    BY <1>1, <2>1, <2>2, <2>3 DEF Exists
  <2>5. QED
    BY <1>2, <2>1, <2>4 DEF EdgesHaveEnds, Exists
<1>6. QED
  BY <1>3, <1>4, <1>5, ReceiveRow, CreateNodeRow, RecordEffectRow, CommitRow
     DEF Ingest, Reject, EndEdges, RecordFails, Respond, Fails, Receive, CreateNode, RecordEffect,
         Commit, CommitInDoubt

\* A new row of the ledger has a key that no row had.
LEMMA KeysKept ==
    ASSUME Typed, RequestOK, Tables, NEW r \in Requests, Ingest(r)
    PROVE  KeysUnique'
<1>1. CASE effects' = effects
  BY <1>1 DEF Tables, KeysUnique
<1>2. ASSUME NEW x, effects' = effects \union {x},
             x \in effects \/ (x.key # NoKey => \A e \in effects : e.key # x.key)
      PROVE  KeysUnique'
  BY <1>2 DEF Tables, KeysUnique
<1>3. CASE RecordEffect(r)
  <2>1. PICK x \in [by : Requests, key : Keys \union {NoKey}] :
            /\ x.key = req[r].context
            /\ effects' = IF InTx(r) THEN effects ELSE effects \union {x}
            /\ x \in effects \/ (req[r].context # NoKey => \A e \in effects : e.key # req[r].context)
    BY <1>3, RecordEffectRow
  <2>2. QED
    BY <1>1, <1>2, <2>1
<1>4. CASE (Commit(r) \/ CommitInDoubt(r)) /\ Committed(r)
  <2> DEFINE x == [by |-> r, key |-> req[r].context]
  <2>1. req[r].pc = "commit" /\ InTx(r)
    BY <1>4, CommitRow DEF RequestOK, Place
  <2>2. effects' = IF req[r].effect = r THEN effects \union {x} ELSE effects
    BY <1>4 DEF Committed
  <2>3. req[r].effect = r => (x.key # NoKey => \A e \in effects : e.key # x.key)
    BY <2>1 DEF RequestOK, Ledger, Inserting
  <2> HIDE DEF x
  <2>4. QED
    BY <1>1, <1>2, <2>2, <2>3
<1>5. QED
  BY <1>1, <1>3, <1>4, CommitRow
     DEF Ingest, Reject, EndEdges, RecordFails, Respond, Fails, Receive, CreateNode, CreateEdge

\* A transaction that would insert a key waits for the one that has inserted it.
LEMMA InserterAlone ==
    ASSUME Typed, RequestOK, Tables, NEW r \in Requests, Ingest(r)
    PROVE  OneInserter'
<1>1. \A b \in Requests \ {r} : req'[b] = req[b]
  BY Grows DEF OwnRow
<1>2. \A b \in Requests \ {r} : Inserting(b)' <=> Inserting(b)
  BY <1>1 DEF Inserting, InTx
<1>3. r # None
  BY GraphAssumption
<1>4. ASSUME Inserting(r)', req'[r].context # NoKey,
             NEW s \in Requests \ {r}, Inserting(s), req[s].context = req'[r].context
      PROVE  FALSE
  <2>1. CASE RecordEffect(r)
    <3>1. ~Held(req[r].context) /\ req'[r].context = req[r].context
      BY <1>4, <2>1, RecordEffectRow DEF SameAsk
    <3>2. Held(req[r].context)
      BY <1>4, <3>1 DEF Held, Inserting
    <3>3. QED
      BY <3>1, <3>2
  <2>2. CASE EndEdges(r)
    <3>1. req[r].effect = None /\ req'[r].effect = req[r].effect
      BY <2>2, PassRow DEF GoesTo, RequestOK, Ledger
    <3>2. QED
      BY <1>3, <1>4, <3>1 DEF Inserting
  <2>3. CASE Receive(r)
    BY <1>4, <2>3, ReceiveRow DEF Inserting
  <2>4. CASE CreateNode(r)
    BY <1>4, <2>4, CreateNodeRow DEF Inserting
  <2>5. CASE CreateEdge(r)
    BY <1>4, <2>5, CreateEdgeRow DEF Inserting, Ends
  <2>6. CASE Commit(r) \/ CommitInDoubt(r)
    BY <1>4, <2>6, CommitRow DEF Inserting, GoesTo, Ends
  <2>7. CASE Reject(r) \/ RecordFails(r) \/ Respond(r) \/ Fails(r)
    BY <1>4, <2>7, PassRow DEF Inserting, GoesTo, Ends
  <2>8. QED
    BY <2>1, <2>2, <2>3, <2>4, <2>5, <2>6, <2>7 DEF Ingest
<1>5. ASSUME NEW a \in Requests, NEW b \in Requests, Inserting(a)', Inserting(b)',
             req'[a].context = req'[b].context, req'[a].context # NoKey
      PROVE  a = b
  <2>1. CASE a # r /\ b # r
    BY <1>1, <1>2, <1>5, <2>1 DEF Tables
  <2>2. CASE a = r /\ b # r
    <3>1. Inserting(b) /\ req'[b] = req[b]
      BY <1>1, <1>2, <1>5, <2>2
    <3>2. QED
      BY <1>4, <1>5, <2>2, <3>1
  <2>3. CASE a # r /\ b = r
    <3>1. Inserting(a) /\ req'[a] = req[a]
      BY <1>1, <1>2, <1>5, <2>3
    <3>2. QED
      BY <1>4, <1>5, <2>3, <3>1
  <2>4. QED
    BY <2>1, <2>2, <2>3
<1>6. QED
  BY <1>5 DEF OneInserter

\* Clients' own nodes and edges disturb no ingestion.
LEMMA ClientsKeep ==
    ASSUME Inductive, AddNode \/ AddEdge
    PROVE  Inductive'
<1>1. /\ Typed /\ RequestOK /\ Tables /\ node \in [NodeIds -> GraphNode] /\ edges \subseteq GraphEdge
      /\ UNCHANGED <<effects, req, faults>>
  BY DEF Inductive, Typed, AddNode, AddEdge
<1>2. /\ node' \in [NodeIds -> GraphNode] /\ edges' \subseteq GraphEdge /\ edges \subseteq edges'
      /\ \A n \in NodeIds : Exists(n) => node'[n] = node[n]
      /\ \A b \in Requests : req[b].node # NoNode => node'[req[b].node] = node[req[b].node]
      /\ \A e \in edges' \ edges : Exists(e.from) /\ Exists(e.to)
  <2>1. CASE AddNode
    <3>1. PICK type \in HandTypes, scope \in Scopes :
            node' = [node EXCEPT ![Fresh] = [type |-> type, scope |-> scope]]
      BY <2>1 DEF AddNode
    <3>2. Fresh \in NodeIds /\ ~Exists(Fresh) /\ \A r \in Requests : req[r].node # Fresh
      BY <1>1, <2>1, FreshIsFree DEF AddNode
    <3>3. [type |-> type, scope |-> scope] \in GraphNode /\ edges' = edges
      BY <2>1, GraphAssumption DEF AddNode, GraphNode
    <3>4. \A b \in Requests : req[b].node \in NodeIds \/ req[b].node = NoNode
      <4>1. MaxNodes \in Nat /\ \A b \in Requests : req[b].node \in 0..MaxNodes
        BY <1>1, GraphAssumption DEF Typed, RequestRow
      <4>2. QED
        BY <4>1 DEF NodeIds, NoNode
    <3>5. QED
      BY <1>1, <3>1, <3>2, <3>3, <3>4
  <2>2. CASE AddEdge
    <3>1. PICK from \in NodeIds, to \in NodeIds, type \in LinkTypes, scope \in Scopes :
            LET e == [from |-> from, to |-> to, type |-> type] IN
            EdgeAccepted(e, scope, node, edges) /\ edges' = edges \union {e}
      BY <2>2 DEF AddEdge
    <3> DEFINE e == [from |-> from, to |-> to, type |-> type]
    <3>2. e \in GraphEdge /\ Exists(e.from) /\ Exists(e.to) /\ edges' = edges \union {e} /\ node' = node
      BY <2>2, <3>1, GraphAssumption DEF AddEdge, EdgeAccepted, Exists, GraphEdge
    <3> HIDE DEF e
    <3>3. QED
      BY <1>1, <3>2
  <2>3. QED
    BY <2>1, <2>2
<1>3. Typed'
  BY <1>1, <1>2 DEF Typed
<1>4. \A b \in Requests : Quiet(b)
  BY <1>1, <1>2 DEF Quiet
<1>5. RequestOK'
  BY <1>1, <1>4, QuietKeeps DEF RequestOK
<1>6. Tables'
  <2>1. \A n : Exists(n) => n \in NodeIds /\ node'[n].type # None
    BY <1>2 DEF Exists
  <2>2. \A e \in edges' : /\ e.from \in NodeIds /\ node'[e.from].type # None
                          /\ e.to \in NodeIds /\ node'[e.to].type # None
    BY <1>1, <1>2, <2>1 DEF Tables
  <2>3. \A b \in Requests : Inserting(b)' <=> Inserting(b)
    BY <1>1 DEF Inserting, InTx
  <2>4. QED
    BY <1>1, <2>2, <2>3 DEF Tables, Exists
<1>7. QED
  BY <1>3, <1>5, <1>6 DEF Inductive

-----------------------------------------------------------------------------
(* The invariant. *)

\* It holds of the empty tables.
LEMMA InductiveInit == Init => Inductive
<1> SUFFICES ASSUME Init PROVE Inductive
  OBVIOUS
<1>1. /\ node = [n \in NodeIds |-> [type |-> None, scope |-> None]]
      /\ edges = {} /\ effects = {} /\ faults = 0 /\ req = [r \in Requests |-> NoRequest]
  BY DEF Init
<1>2. NoRequest \in RequestRow
  <2>1. 0 \in 0..MaxNodes /\ <<>> \in Seq(WireRow)
    BY GraphAssumption
  <2>2. QED
    BY <2>1 DEF NoRequest, RequestRow, PCs, NoNode
<1>3. Typed
  <2>1. 0 \in 0..MaxFaults /\ [type |-> None, scope |-> None] \in GraphNode
    BY GraphAssumption DEF GraphNode
  <2>2. QED
    BY <1>1, <1>2, <2>1 DEF Typed
<1>4. ASSUME NEW r \in Requests PROVE Parts(r)
  <2>1. /\ req[r] = NoRequest /\ NoRequest.pc = "idle" /\ NoRequest.node = NoNode
        /\ NoRequest.path = None /\ NoRequest.kind = None /\ NoRequest.wires = <<>>
        /\ NoRequest.wired = {} /\ NoRequest.effect = None /\ NoRequest.answer = None
    BY <1>1 DEF NoRequest
  <2>2. ~InTx(r) /\ ~Inserting(r)
    BY <2>1 DEF InTx, Inserting, None
  <2>3. Place(r)
    BY <2>1 DEF Place, HasNode, AllWired
  <2>4. Written(r)
    BY <2>1, <2>2 DEF Written, None
  <2>5. Traces(r)
    BY <2>1 DEF Traces, WiresTrace, WireFits, EdgeTraces, None
  <2>6. Ledger(r)
    BY <1>1, <2>1, <2>2 DEF Ledger
  <2>7. QED
    BY <2>3, <2>4, <2>5, <2>6 DEF Parts
<1>5. Tables
  <2>1. \A r \in Requests : req[r].node = NoNode /\ ~Inserting(r)
    BY <1>1 DEF NoRequest, Inserting
  <2>2. QED
    BY <1>1, <2>1 DEF Tables
<1>6. QED
  BY <1>3, <1>4, <1>5 DEF Inductive, RequestOK, Parts

\* Every step keeps it.
LEMMA InductiveStep == Inductive /\ [Next]_vars => Inductive'
<1> SUFFICES ASSUME Inductive, [Next]_vars PROVE Inductive'
  OBVIOUS
<1>1. CASE AddNode \/ AddEdge
  BY <1>1, ClientsKeep
<1>2. ASSUME NEW r \in Requests, Ingest(r) PROVE Inductive'
  <2>1. Typed /\ RequestOK /\ Tables
    BY DEF Inductive
  <2>2. Typed' /\ RequestOK'
    BY <1>2, <2>1, IngestKeeps
  <2>3. NodesUnshared' /\ EdgesHaveEnds' /\ KeysUnique' /\ OneInserter'
    BY <1>2, <2>1, NodeIdUnshared, EndsKept, KeysKept, InserterAlone
  <2>4. Tables'
    BY <2>3 DEF Tables, NodesUnshared, EdgesHaveEnds, KeysUnique, OneInserter
  <2>5. QED
    BY <2>2, <2>4 DEF Inductive
<1>3. CASE UNCHANGED vars
  <2>1. UNCHANGED <<node, edges, effects, req, faults>>
    BY <1>3 DEF vars
  <2>2. Typed' <=> Typed
    BY <2>1 DEF Typed
  <2>3. RequestOK' <=> RequestOK
    BY <2>1
      DEF RequestOK, Place, Written, Traces, WiresTrace, WireFits, EdgeTraces, Ledger, Stored, RowStored, Inserting, InTx, Exists
  <2>4. Tables' <=> Tables
    BY <2>1 DEF Tables, Inserting, InTx, Exists
  <2>5. QED
    BY <2>2, <2>3, <2>4 DEF Inductive
<1>4. QED
  BY <1>1, <1>2, <1>3 DEF Next

\* It always holds.
LEMMA AlwaysInductive == Spec => []Inductive
  BY InductiveInit, InductiveStep, PTL DEF Spec

\* Nodes, edges, ledger rows and ingestions keep their types, whatever is asked for.
THEOREM GraphTypeCorrect == Spec => []GraphTypeOK
<1>1. Inductive => GraphTypeOK
  BY DEF Inductive, Typed, GraphTypeOK, RequestRow, PCs
<1>2. QED
  BY <1>1, AlwaysInductive, PTL

\* ADR-08, Option A: an ingestion on the RLS path has at every moment written all
\* of its node, edges and ledger row, or nothing.
THEOREM RlsIsAllOrNothing == Spec => []AllOrNothing
<1>1. Inductive => AllOrNothing
  <2> SUFFICES ASSUME Inductive, NEW r \in Requests, InTx(r)
               PROVE  LET stored == req[r].node # NoNode /\ Exists(req[r].node) IN
                      /\ stored => req[r].wires = <<>> /\ req[r].wired \subseteq edges
                      /\ stored /\ req[r].context # None =>
                            \E e \in effects : e.by = req[r].effect /\ e.key = req[r].context
                      /\ ~stored => req[r].wired \intersect edges = {} /\ \A e \in effects : e.by # r
    BY DEF AllOrNothing
  <2>1. Place(r) /\ Written(r) /\ Ledger(r) /\ EdgesHaveEnds
    BY DEF Inductive, RequestOK, Tables, EdgesHaveEnds
  <2>2. Stored(r) => req[r].wires = <<>> /\ req[r].wired \subseteq edges
    BY <2>1 DEF Written
  <2>3. ASSUME Stored(r), req[r].context # None PROVE RowStored(r)
    <3>1. ~Inserting(r)
      BY <2>1, <2>3 DEF Written, Inserting
    <3>2. QED
      BY <2>1, <2>3, <3>1 DEF Ledger
  <2>4. ASSUME ~Stored(r) PROVE req[r].wired \intersect edges = {}
    <3>1. CASE req[r].node = NoNode
      BY <2>1, <3>1 DEF Place
    <3>2. CASE req[r].node # NoNode
      <4>1. ASSUME NEW e \in req[r].wired, e \in edges PROVE FALSE
        <5>1. Exists(req[r].node)
          BY <2>1, <4>1 DEF Written, EdgesHaveEnds
        <5>2. QED
          BY <2>4, <3>2, <5>1 DEF Stored
      <4>2. QED
        BY <4>1
    <3>3. QED
      BY <3>1, <3>2
  <2>5. ~Stored(r) => \A e \in effects : e.by # r
    BY <2>1 DEF Ledger
  <2>6. QED
    BY <2>2, <2>3, <2>4, <2>5 DEF Stored, RowStored
<1>2. QED
  BY <1>1, AlwaysInductive, PTL

\* One idempotency key leaves one row, and all that report one report that one.
THEOREM KeyHasOneRow == Spec => []OneRowPerKey
<1>1. Inductive => OneRowPerKey
  <2> SUFFICES ASSUME Inductive PROVE OneRowPerKey
    OBVIOUS
  <2>1. KeysUnique
    BY DEF Inductive, Tables, KeysUnique
  <2>2. ASSUME NEW r \in Requests, req[r].answer = "created", req[r].effect # None
        PROVE  RowStored(r)
    <3>1. Place(r) /\ Ledger(r)
      BY DEF Inductive, RequestOK
    <3>2. req[r].pc = "done"
      BY <2>2, <3>1 DEF Place, None
    <3>3. ~Inserting(r)
      BY <3>2 DEF Inserting
    <3>4. QED
      BY <2>2, <3>1, <3>3 DEF Ledger
  <2>3. ASSUME NEW r \in Requests, NEW s \in Requests,
               req[r].answer = "created", req[s].answer = "created",
               req[r].context \in Keys, req[r].context = req[s].context,
               req[r].effect # None, req[s].effect # None
        PROVE  req[r].effect = req[s].effect
    <3>1. PICK e \in effects : e.by = req[r].effect /\ e.key = req[r].context
      BY <2>2, <2>3 DEF RowStored
    <3>2. PICK f \in effects : f.by = req[s].effect /\ f.key = req[s].context
      BY <2>2, <2>3 DEF RowStored
    <3>3. e = f
      BY <2>1, <2>3, <3>1, <3>2, GraphAssumption DEF KeysUnique
    <3>4. QED
      BY <3>1, <3>2, <3>3
  <2>4. QED
    BY <2>1, <2>3 DEF OneRowPerKey, KeysUnique
<1>2. QED
  BY <1>1, AlwaysInductive, PTL

\* Whoever was answered "created" has its node with all its edges, an artifact one
\* to an intent version, and the side effect it was told of.
THEOREM CreatedMeansWired == Spec => []CreatedIsWired
<1>1. Inductive => CreatedIsWired
  <2> SUFFICES ASSUME Inductive, NEW r \in Requests, req[r].answer = "created"
               PROVE  /\ Exists(req[r].node) /\ req[r].wires = <<>> /\ req[r].wired \subseteq edges
                      /\ req[r].kind = "artifact" =>
                            \E e \in edges : e.from = req[r].node /\ e.type = "DependsOn"
                                             /\ node[e.to].type = "IntentVersion"
                      /\ req[r].effect # None => \E e \in effects : e.by = req[r].effect
    BY DEF CreatedIsWired
  <2>1. Place(r) /\ Written(r) /\ Traces(r) /\ Ledger(r)
    BY DEF Inductive, RequestOK
  <2>2. Stored(r) /\ req[r].wires = <<>> /\ req[r].wired \subseteq edges
    BY <2>1 DEF Written
  <2>3. req[r].kind = "artifact" =>
            \E e \in edges : e.from = req[r].node /\ e.type = "DependsOn"
                             /\ node[e.to].type = "IntentVersion"
    BY <2>1, <2>2 DEF Traces, WiresTrace, WireFits, EdgeTraces
  <2>4. req[r].effect # None => RowStored(r)
    <3>1. req[r].pc = "done"
      BY <2>1 DEF Place, None
    <3>2. ~Inserting(r)
      BY <3>1 DEF Inserting
    <3>3. QED
      BY <2>1, <2>2, <3>2 DEF Ledger
  <2>5. QED
    BY <2>2, <2>3, <2>4 DEF Stored, RowStored
<1>2. QED
  BY <1>1, AlwaysInductive, PTL

-----------------------------------------------------------------------------
(* Recursion and walks. *)

\* A set of numbers that has 0, and the successor of what it has, has all of them.
LEMMA AllNaturals ==
    ASSUME NEW T \in SUBSET Nat, 0 \in T, \A k \in T : k + 1 \in T
    PROVE  T = Nat
<1> SUFFICES ASSUME Nat \ T # {} PROVE FALSE
  OBVIOUS
<1>1. PICK x \in Nat \ T : \A y \in Nat \ T : ~(<<y, x>> \in OpToRel(<, Nat))
  <2>1. IsWellFoundedOn(OpToRel(<, Nat), Nat)
    BY NatLessThanWellFounded
  <2>2. Nat \ T \subseteq Nat
    OBVIOUS
  <2>3. QED
    BY <2>1, <2>2, WFMin
<1>2. \A y \in Nat \ T : ~(y < x)
  BY <1>1 DEF OpToRel
<1>3. x # 0 /\ x - 1 \in Nat /\ x - 1 < x
  OBVIOUS
<1>4. x - 1 \in T
  BY <1>2, <1>3
<1>5. (x - 1) + 1 \in T
  BY <1>4
<1>6. QED
  BY <1>3, <1>5

\* f starts in s0 and takes n steps.
Iterates(f, S, s0, step, n) ==
    f \in [0..n -> S] /\ f[0] = s0 /\ \A k \in 1..n : f[k] = step[f[k - 1]]

\* A step can be iterated from a first state.
LEMMA Iterated ==
    ASSUME NEW S, NEW s0 \in S, NEW step \in [S -> S], NEW n \in Nat
    PROVE  \E f : Iterates(f, S, s0, step, n)
<1> USE DEF Iterates
<1> DEFINE Is(f, j) == Iterates(f, S, s0, step, j)
           T == {j \in Nat : \E f : Is(f, j)}
<1>1. 0 \in T
  <2> DEFINE f == [k \in 0..0 |-> s0]
  <2>1. Is(f, 0)
    OBVIOUS
  <2>2. QED
    BY <2>1
<1>2. \A j \in T : j + 1 \in T
  <2> TAKE j \in T
  <2>1. PICK f : Is(f, j)
    OBVIOUS
  <2> DEFINE g == [k \in 0..(j + 1) |-> IF k = j + 1 THEN step[f[j]] ELSE f[k]]
  <2>2. \A k \in 0..j : g[k] = f[k] /\ f[k] \in S
    BY <2>1
  <2>3. g[j + 1] = step[f[j]] /\ step[f[j]] \in S
    BY <2>2
  <2>4. g \in [0..(j + 1) -> S]
    <3>1. \A k \in 0..(j + 1) : k = j + 1 \/ k \in 0..j
      OBVIOUS
    <3>2. \A k \in 0..(j + 1) : g[k] \in S
      BY <2>2, <2>3, <3>1
    <3>3. g = [k \in 0..(j + 1) |-> g[k]]
      OBVIOUS
    <3> HIDE DEF g
    <3>4. QED
      BY <3>2, <3>3
  <2>5. \A k \in 1..(j + 1) : g[k] = step[g[k - 1]]
    <3> TAKE k \in 1..(j + 1)
    <3>1. k - 1 \in 0..j /\ (k # j + 1 => k \in 1..j) /\ (k = j + 1 => k - 1 = j)
      OBVIOUS
    <3>2. g[k - 1] = f[k - 1]
      BY <2>2, <3>1
    <3>3. CASE k = j + 1
      BY <2>3, <3>1, <3>2, <3>3
    <3>4. CASE k \in 1..j
      <4>1. g[k] = f[k]
        BY <2>2, <3>4
      <4>2. QED
        BY <2>1, <3>2, <3>4, <4>1
    <3>5. QED
      BY <3>1, <3>3, <3>4
  <2>6. g[0] = s0
    BY <2>1, <2>2
  <2> HIDE DEF g
  <2>7. Is(g, j + 1)
    BY <2>4, <2>5, <2>6
  <2>8. QED
    BY <2>7
<1>3. n \in T
  <2> HIDE DEF T
  <2>1. T = Nat
    BY <1>1, <1>2, AllNaturals DEF T
  <2>2. QED
    BY <2>1
<1>4. QED
  BY <1>3

\* A graph as Walks takes it.
Successors == [NodeIds -> SUBSET NodeIds]

\* W are the layers of the walks that begin in first.
Layered(W, first, next, longest) ==
    /\ W \in [1..longest -> SUBSET NodeIds]
    /\ 1 <= longest => W[1] = first
    /\ \A k \in 2..longest : W[k] = UNION {next[m] : m \in W[k - 1]}

\* The walks are what their recursion says.
LEMMA WalksAre ==
    ASSUME NEW first \in SUBSET NodeIds, NEW next \in Successors, NEW longest \in Nat
    PROVE  Layered(Walks(first, next, longest), first, next, longest)
<1> DEFINE S == SUBSET NodeIds
           step == [X \in S |-> UNION {next[m] : m \in X}]
           W == Walks(first, next, longest)
           Body(f) == [k \in 1..longest |-> IF k = 1 THEN first ELSE UNION {next[m] : m \in f[k - 1]}]
<1>1. step \in [S -> S]
  BY DEF Successors
<1>2. \A X \in S : step[X] = UNION {next[m] : m \in X}
  OBVIOUS
<1>0. first \in S
  OBVIOUS
<1> HIDE DEF step, S
<1>3. PICK g : /\ g \in [0..longest -> S] /\ g[0] = first
               /\ \A k \in 1..longest : g[k] = step[g[k - 1]]
  <2>1. \E g : Iterates(g, S, first, step, longest)
    BY <1>0, <1>1, Iterated
  <2>2. QED
    BY <2>1 DEF Iterates
<1> USE DEF S
<1> DEFINE f == [k \in 1..longest |-> g[k - 1]]
<1>4. f = Body(f)
  <2>1. ASSUME NEW k \in 1..longest
        PROVE  g[k - 1] = IF k = 1 THEN first ELSE UNION {next[m] : m \in f[k - 1]}
    <3>1. CASE k = 1
      BY <1>3, <3>1
    <3>2. CASE k # 1
      <4>1. k - 1 \in 1..longest /\ k - 1 \in 0..longest /\ (k - 1) - 1 \in 0..longest
        BY <3>2
      <4>2. g[k - 1] = step[g[(k - 1) - 1]] /\ f[k - 1] = g[(k - 1) - 1] /\ g[(k - 1) - 1] \in S
        BY <1>3, <4>1
      <4>3. QED
        BY <1>2, <3>2, <4>2
    <3>3. QED
      BY <3>1, <3>2
  <2>2. QED
    BY <2>1
<1>5. W = CHOOSE h : h = Body(h)
  BY DEF Walks
<1> HIDE DEF f, W
<1>6. W = Body(W)
  BY <1>4, <1>5
<1>7. \A k \in 1..longest : W[k] = IF k = 1 THEN first ELSE UNION {next[m] : m \in W[k - 1]}
  <2> TAKE k \in 1..longest
  <2> DEFINE B == Body(W)
  <2>1. B[k] = IF k = 1 THEN first ELSE UNION {next[m] : m \in W[k - 1]}
    OBVIOUS
  <2>2. W = B
    BY <1>6
  <2> HIDE DEF B
  <2>3. QED
    BY <2>1, <2>2
<1>8. W \in [1..longest -> SUBSET NodeIds]
  <2> DEFINE T == {j \in Nat : j + 1 \in 1..longest => W[j + 1] \subseteq NodeIds}
  <2>1. 0 \in T
    <3>1. 0 + 1 = 1 /\ 0 \in Nat
      OBVIOUS
    <3>2. 1 \in 1..longest => W[1] = first
      BY <1>7
    <3>3. QED
      BY <3>1, <3>2
  <2>2. \A j \in T : j + 1 \in T
    <3> TAKE j \in T
    <3> SUFFICES ASSUME (j + 1) + 1 \in 1..longest PROVE W[(j + 1) + 1] \subseteq NodeIds
      OBVIOUS
    <3>1. j + 1 \in 1..longest /\ (j + 1) + 1 # 1 /\ ((j + 1) + 1) - 1 = j + 1
      OBVIOUS
    <3>2. W[(j + 1) + 1] = UNION {next[m] : m \in W[j + 1]} /\ W[j + 1] \subseteq NodeIds
      BY <1>7, <3>1
    <3>3. QED
      BY <3>2 DEF Successors
  <2> HIDE DEF T
  <2>3. T = Nat
    BY <2>1, <2>2, AllNaturals DEF T
  <2>4. \A k \in 1..longest : W[k] \subseteq NodeIds
    <3> TAKE k \in 1..longest
    <3>1. k - 1 \in T /\ (k - 1) + 1 = k
      BY <2>3
    <3>2. QED
      BY <3>1 DEF T
  <2>5. DOMAIN W = 1..longest /\ W = [k \in 1..longest |-> W[k]]
    BY <1>6
  <2>6. QED
    BY <2>4, <2>5
<1>9. QED
  BY <1>7, <1>8 DEF W, Layered

\* More edges, more walks.
LEMMA WalksGrow ==
    ASSUME NEW first \in SUBSET NodeIds, NEW next \in Successors,
           NEW more \in SUBSET NodeIds, NEW wider \in Successors, NEW longest \in Nat,
           first \subseteq more, \A m \in NodeIds : next[m] \subseteq wider[m]
    PROVE  \A k \in 1..longest : Walks(first, next, longest)[k] \subseteq Walks(more, wider, longest)[k]
<1> DEFINE V == Walks(first, next, longest)
           W == Walks(more, wider, longest)
           T == {j \in Nat : j + 1 \in 1..longest => V[j + 1] \subseteq W[j + 1]}
<1>0. Layered(V, first, next, longest) /\ Layered(W, more, wider, longest)
  BY WalksAre
<1> HIDE DEF V, W
<1>1. /\ V \in [1..longest -> SUBSET NodeIds] /\ W \in [1..longest -> SUBSET NodeIds]
      /\ 1 <= longest => V[1] = first /\ W[1] = more
      /\ \A k \in 2..longest : V[k] = UNION {next[m] : m \in V[k - 1]} /\ W[k] = UNION {wider[m] : m \in W[k - 1]}
  BY <1>0 DEF Layered
<1>2. 0 \in T
  <2>1. 0 + 1 = 1 /\ 0 \in Nat /\ (1 \in 1..longest => 1 <= longest)
    OBVIOUS
  <2>2. QED
    BY <1>1, <2>1
<1>3. \A j \in T : j + 1 \in T
  <2> TAKE j \in T
  <2> SUFFICES ASSUME (j + 1) + 1 \in 1..longest PROVE V[(j + 1) + 1] \subseteq W[(j + 1) + 1]
    OBVIOUS
  <2>1. (j + 1) + 1 \in 2..longest /\ ((j + 1) + 1) - 1 = j + 1 /\ j + 1 \in 1..longest
    OBVIOUS
  <2>2. /\ V[(j + 1) + 1] = UNION {next[m] : m \in V[j + 1]}
        /\ W[(j + 1) + 1] = UNION {wider[m] : m \in W[j + 1]}
        /\ V[j + 1] \subseteq W[j + 1] /\ V[j + 1] \subseteq NodeIds
    BY <1>1, <2>1
  <2>3. QED
    BY <2>2
<1> HIDE DEF T
<1>4. T = Nat
  BY <1>2, <1>3, AllNaturals DEF T
<1>5. \A k \in 1..longest : V[k] \subseteq W[k]
  <2> TAKE k \in 1..longest
  <2>1. k - 1 \in T /\ (k - 1) + 1 = k
    BY <1>4
  <2>2. QED
    BY <2>1 DEF T
<1>6. QED
  BY <1>5 DEF V, W

-----------------------------------------------------------------------------
(* Breadth-first search.  Of its entries some, E, have been expanded and some, *)
(* Q, wait in the queue.                                                     *)

Entry == [node : NodeIds, depth : Nat]

Covers(P, n, k) == \E e \in P : e.node = n /\ e.depth <= k

\* What the search starts from is among its entries.
Seeded(P, first, max) == 1 <= max => \A n \in first : Covers(P, n, 1)

\* Nothing in the queue is nearer than what was expanded, of which every
\* neighbour is among the entries.
Covered(E, Q, next, max) ==
    /\ E \subseteq Entry /\ Q \subseteq Entry
    /\ \A e \in E, q \in Q : e.depth <= q.depth
    /\ \A e \in E : e.depth < max => \A n \in next[e.node] : Covers(E \union Q, n, e.depth + 1)

\* A search that has nothing left below a depth has met all walks of that length.
LEMMA WalksCovered ==
    ASSUME NEW first \in SUBSET NodeIds, NEW next \in Successors, NEW max \in Nat, NEW E, NEW Q,
           Covered(E, Q, next, max), Seeded(E \union Q, first, max),
           NEW k \in 1..max, \A q \in Q : k <= q.depth
    PROVE  \A n \in Walks(first, next, max)[k] : Covers(E \union Q, n, k)
<1> DEFINE W == Walks(first, next, max)
           T == {j \in Nat : j + 1 \in 1..k => \A n \in W[j + 1] : Covers(E \union Q, n, j + 1)}
<1>0. Layered(W, first, next, max)
  BY WalksAre
<1> HIDE DEF W
<1>1. /\ W \in [1..max -> SUBSET NodeIds] /\ (1 <= max => W[1] = first)
      /\ \A i \in 2..max : W[i] = UNION {next[m] : m \in W[i - 1]}
  BY <1>0 DEF Layered
<1>2. E \subseteq Entry /\ Q \subseteq Entry
  BY DEF Covered
<1>3. 0 \in T
  <2>1. 0 + 1 = 1 /\ 0 \in Nat /\ (1 \in 1..k => 1 <= max)
    OBVIOUS
  <2>2. QED
    BY <1>1, <2>1 DEF Seeded
<1>4. \A j \in T : j + 1 \in T
  <2> TAKE j \in T
  <2> SUFFICES ASSUME (j + 1) + 1 \in 1..k, NEW n \in W[(j + 1) + 1]
               PROVE  Covers(E \union Q, n, (j + 1) + 1)
    OBVIOUS
  <2>1. /\ (j + 1) + 1 \in 2..max /\ ((j + 1) + 1) - 1 = j + 1 /\ j + 1 \in 1..k
        /\ j + 1 < k /\ j + 1 < max
    OBVIOUS
  <2>2. PICK m \in W[j + 1] : n \in next[m]
    BY <1>1, <2>1
  <2>3. Covers(E \union Q, m, j + 1)
    BY <2>1
  <2>4. PICK e \in E \union Q : e.node = m /\ e.depth <= j + 1
    BY <2>3 DEF Covers
  <2>5. e.depth \in Nat /\ e.depth < max /\ e \in E
    BY <1>2, <2>1, <2>4 DEF Entry
  <2>6. PICK f \in E \union Q : f.node = n /\ f.depth <= e.depth + 1
    BY <2>2, <2>4, <2>5 DEF Covered, Covers
  <2>7. f.depth <= (j + 1) + 1
    <3>1. f.depth \in Nat
      BY <1>2 DEF Entry
    <3>2. QED
      BY <2>4, <2>5, <2>6, <3>1
  <2>8. QED
    BY <2>6, <2>7 DEF Covers
<1> HIDE DEF T
<1>5. T = Nat
  BY <1>3, <1>4, AllNaturals DEF T
<1>6. k - 1 \in T /\ (k - 1) + 1 = k /\ k \in 1..k
  BY <1>5
<1>7. QED
  BY <1>6 DEF T, W

\* One of the nearest entries is expanded; what is missing of its neighbours is added.
LEMMA Expand ==
    ASSUME NEW next, NEW max \in Nat, NEW E, NEW Q, Covered(E, Q, next, max),
           NEW x \in Q, \A q \in Q : x.depth <= q.depth,
           NEW new \in SUBSET Entry, \A q \in new : q.depth = x.depth + 1,
           x.depth < max => \A n \in next[x.node] : Covers(E \union Q \union new, n, x.depth + 1)
    PROVE  /\ Covered(E \union {x}, (Q \ {x}) \union new, next, max)
           /\ (E \union {x}) \union ((Q \ {x}) \union new) = E \union Q \union new
<1> DEFINE F == E \union {x}
           R == (Q \ {x}) \union new
           P == E \union Q \union new
<1>1. F \union R = P /\ E \union Q \subseteq P
  OBVIOUS
<1>2. F \subseteq Entry /\ R \subseteq Entry /\ x \in Entry /\ E \subseteq Entry
  BY DEF Covered
<1>3. \A e \in F, q \in R : e.depth <= q.depth
  <2>1. \A e \in F : e.depth \in Nat /\ e.depth <= x.depth
    BY <1>2 DEF Covered, Entry
  <2>2. \A q \in R : q.depth \in Nat /\ x.depth <= q.depth
    BY <1>2 DEF Entry
  <2>3. x.depth \in Nat
    BY <1>2 DEF Entry
  <2> HIDE DEF F, R
  <2>4. QED
    BY <2>1, <2>2, <2>3
<1>4. \A e \in F : e.depth < max => \A n \in next[e.node] : Covers(P, n, e.depth + 1)
  <2>1. \A e \in E : e.depth < max => \A n \in next[e.node] : Covers(P, n, e.depth + 1)
    BY <1>1 DEF Covered, Covers
  <2>2. QED
    BY <2>1
<1>5. QED
  BY <1>1, <1>2, <1>3, <1>4 DEF Covered

\* An entry of a node that no walk goes to is dropped.
LEMMA Pass ==
    ASSUME NEW first, NEW next, NEW max \in Nat, NEW E, NEW Q, Covered(E, Q, next, max),
           Seeded(E \union Q, first, max), NEW x \in Q, x.node \notin first,
           \A e \in E : x.node \notin next[e.node]
    PROVE  Covered(E, Q \ {x}, next, max) /\ Seeded(E \union (Q \ {x}), first, max)
<1>1. \A n, k : n # x.node /\ Covers(E \union Q, n, k) => Covers(E \union (Q \ {x}), n, k)
  BY DEF Covers
<1>2. Seeded(E \union (Q \ {x}), first, max)
  BY <1>1 DEF Seeded
<1>3. \A e \in E : e.depth < max => \A n \in next[e.node] : Covers(E \union (Q \ {x}), n, e.depth + 1)
  BY <1>1 DEF Covered
<1>4. QED
  BY <1>2, <1>3 DEF Covered

\* With more entries the search has as much.
LEMMA SeededStays ==
    ASSUME NEW first, NEW max, NEW P, NEW R, P \subseteq R, Seeded(P, first, max)
    PROVE  Seeded(R, first, max)
  BY DEF Seeded, Covers

-----------------------------------------------------------------------------
(* The graph while a traversal reads it. *)

\* Edges are added, and what was a node stays the node it was.
LEMMA GraphGrows ==
    ASSUME Inductive, Next
    PROVE  edges \subseteq edges' /\ \A n : Exists(n) => Exists(n)' /\ node'[n] = node[n]
<1>1. Typed /\ RequestOK /\ node \in [NodeIds -> GraphNode]
  BY DEF Inductive, Typed
<1>2. CASE AddNode
  <2>1. PICK type \in HandTypes, scope \in Scopes :
          node' = [node EXCEPT ![Fresh] = [type |-> type, scope |-> scope]]
    BY <1>2 DEF AddNode
  <2>2. Fresh \in NodeIds /\ ~Exists(Fresh) /\ edges' = edges
    BY <1>1, <1>2, FreshIsFree DEF AddNode
  <2>3. QED
    BY <1>1, <2>1, <2>2 DEF Exists
<1>3. CASE AddEdge
  BY <1>3 DEF AddEdge, Exists
<1>4. ASSUME NEW r \in Requests, Ingest(r)
      PROVE  edges \subseteq edges' /\ \A n : Exists(n) => Exists(n)' /\ node'[n] = node[n]
  BY <1>1, <1>4, Grows, NodesStay
<1>5. QED
  BY <1>2, <1>3, <1>4 DEF Next

\* No edge joins two scopes, and none that an ingestion has drawn will.
InOneScope == \A e \in edges : node[e.from].scope = node[e.to].scope

DrawnInScope ==
    \A r \in Requests : \A e \in req[r].wired : \A n \in {e.from, e.to} :
        n = req[r].node \/ node[n].scope = req[r].scope

ScopesOK == InOneScope /\ DrawnInScope

\* At first there are no edges.
LEMMA ScopesInit == Init => ScopesOK
  BY DEF Init, ScopesOK, InOneScope, DrawnInScope, NoRequest

\* An edge that an ingestion draws lies in its scope.
LEMMA CreateEdgeInScope ==
    ASSUME Inductive, ScopesOK, NEW r \in Requests, CreateEdge(r)
    PROVE  ScopesOK'
<1>1. /\ Typed /\ RequestOK /\ node \in [NodeIds -> GraphNode] /\ node' = node /\ OwnRow(r)
      /\ req[r] \in RequestRow /\ \A b \in Requests \ {r} : req'[b] = req[b]
  BY CreateEdgeRow DEF Inductive, Typed, OwnRow
<1>2. CASE Ends(r, "error") /\ edges' = edges
  <2>1. \A b \in Requests : /\ req'[b].wired = req[b].wired /\ req'[b].node = req[b].node
                            /\ req'[b].scope = req[b].scope
    BY <1>1, <1>2 DEF Ends, SameAsk, SameWork
  <2>2. QED
    BY <1>1, <1>2, <2>1 DEF ScopesOK, InOneScope, DrawnInScope
<1>3. CASE ~(Ends(r, "error") /\ edges' = edges)
  <2> DEFINE e == EdgeOf(r)
  <2>1. /\ e \in GraphEdge /\ SameAsk(r) /\ req'[r].node = req[r].node /\ req'[r].pc = "edges"
        /\ req'[r].wired = req[r].wired \union {e}
        /\ edges' = IF InTx(r) THEN edges ELSE edges \union {e}
    BY <1>1, <1>3, CreateEdgeRow
  <2>2. EdgeAccepted(e, req[r].scope, Seen(r), edges \union req[r].wired)
    <3>1. SUFFICES ASSUME ~EdgeAccepted(e, req[r].scope, Seen(r), edges \union req[r].wired) PROVE FALSE
      OBVIOUS
    <3>2. req' = [req EXCEPT ![r] = Answer(r, "error")] /\ edges' = edges
      BY <3>1 DEF CreateEdge
    <3>3. Ends(r, "error")
      BY <1>1, <3>2, EndsRow DEF Typed
    <3>4. QED
      BY <1>3, <3>2, <3>3
  <2>3. \A n \in {e.from, e.to} : n \in NodeIds /\ Seen(r)[n].scope = req[r].scope
    BY <2>1, <2>2 DEF EdgeAccepted, GraphEdge
  <2>4. \A n \in {e.from, e.to} : /\ n = req[r].node \/ node[n].scope = req[r].scope
                                  /\ ~InTx(r) => node[n].scope = req[r].scope
    BY <1>1, <2>3 DEF Seen
  <2> HIDE DEF e
  <2>5. req'[r].scope = req[r].scope
    BY <2>1 DEF SameAsk
  <2>6. InOneScope'
    BY <1>1, <2>1, <2>4 DEF ScopesOK, InOneScope
  <2>7. DrawnInScope'
    BY <1>1, <2>1, <2>4, <2>5 DEF ScopesOK, DrawnInScope
  <2>8. QED
    BY <2>6, <2>7 DEF ScopesOK
<1>4. QED
  BY <1>2, <1>3

\* A commit puts the node under the edges that were drawn to it.
LEMMA CommitInScope ==
    ASSUME Inductive, ScopesOK, NEW r \in Requests, Commit(r) \/ CommitInDoubt(r)
    PROVE  ScopesOK'
<1>1. /\ Typed /\ RequestOK /\ OwnRow(r) /\ req[r].pc = "commit" /\ SameAsk(r) /\ SameWork(r)
      /\ Committed(r) \/ UNCHANGED <<node, edges, effects>>
  BY CommitRow DEF Inductive, Commit, CommitInDoubt, GoesTo, Ends
<1>2. \A b \in Requests : /\ req'[b].wired = req[b].wired /\ req'[b].node = req[b].node
                          /\ req'[b].scope = req[b].scope
  BY <1>1 DEF OwnRow, SameAsk, SameWork
<1>3. CASE UNCHANGED <<node, edges, effects>>
  BY <1>2, <1>3 DEF ScopesOK, InOneScope, DrawnInScope
<1>4. CASE Committed(r)
  <2> DEFINE m == req[r].node
  <2>1. /\ m \in NodeIds /\ ~Exists(m) /\ node' = [node EXCEPT ![m] = NewNode(r)]
        /\ edges' = edges \union req[r].wired
    BY <1>1, <1>4, CommitGrows
  <2>2. node \in [NodeIds -> GraphNode] /\ \A n \in NodeIds : n # m => node'[n] = node[n]
    BY <1>1, <2>1 DEF Typed
  <2>3. node'[m].scope = req[r].scope
    BY <2>1, <2>2 DEF NewNode
  <2>4. \A e \in edges : e.from \in NodeIds /\ e.to \in NodeIds /\ e.from # m /\ e.to # m
    BY <2>1 DEF Inductive, Tables, Exists
  <2>5. \A b \in Requests : \A e \in req[b].wired : \A n \in {e.from, e.to} :
          n \in NodeIds /\ (n # req[b].node /\ b # r => n # m)
    <3>1. \A b \in Requests : \A e \in req[b].wired : e \in GraphEdge
      BY <1>1 DEF Typed, RequestRow
    <3>2. \A b \in Requests : \A e \in req[b].wired : \A n \in {e.from, e.to} : n = req[b].node \/ Exists(n)
      BY <1>1 DEF RequestOK, Written
    <3>3. QED
      BY <2>1, <3>1, <3>2 DEF GraphEdge
  <2> HIDE DEF m
  <2>6. \A e \in req[r].wired : node'[e.from].scope = req[r].scope /\ node'[e.to].scope = req[r].scope
    BY <2>2, <2>3, <2>5 DEF ScopesOK, DrawnInScope, m
  <2>7. InOneScope'
    BY <2>1, <2>2, <2>4, <2>6 DEF ScopesOK, InOneScope
  <2>8. DrawnInScope'
    BY <1>2, <2>2, <2>5, <2>6 DEF ScopesOK, DrawnInScope
  <2>9. QED
    BY <2>7, <2>8 DEF ScopesOK
<1>5. QED
  BY <1>1, <1>3, <1>4

\* Every step keeps scopes apart.
LEMMA ScopesStep ==
    ASSUME Inductive, ScopesOK, Next
    PROVE  ScopesOK'
<1>1. /\ Typed /\ RequestOK /\ node \in [NodeIds -> GraphNode] /\ edges \subseteq GraphEdge
      /\ \A e \in edges : Exists(e.from) /\ Exists(e.to)
      /\ \A n : Exists(n) => node'[n] = node[n]
  BY GraphGrows DEF Inductive, Typed, Tables
<1>2. \A r \in Requests : \A e \in req[r].wired : \A n \in {e.from, e.to} : n = req[r].node \/ Exists(n)
  BY <1>1 DEF RequestOK, Written
<1>3. edges' = edges => InOneScope'
  BY <1>1 DEF ScopesOK, InOneScope
<1>4. ASSUME NEW r \in Requests, OwnRow(r), req'[r].scope = req[r].scope, req'[r].wired = req[r].wired,
             req'[r].node = req[r].node \/ req[r].wired = {}
      PROVE  DrawnInScope'
  <2>1. \A b \in Requests : /\ req'[b].wired = req[b].wired /\ req'[b].scope = req[b].scope
                            /\ req'[b].node = req[b].node \/ req[b].wired = {}
    BY <1>4 DEF OwnRow
  <2>2. QED
    BY <1>1, <1>2, <2>1 DEF ScopesOK, DrawnInScope
<1>5. CASE AddNode
  BY <1>1, <1>2, <1>3, <1>5 DEF AddNode, ScopesOK, DrawnInScope
<1>6. CASE AddEdge
  <2>1. PICK from \in NodeIds, to \in NodeIds, type \in LinkTypes, scope \in Scopes :
          LET e == [from |-> from, to |-> to, type |-> type] IN
          EdgeAccepted(e, scope, node, edges) /\ edges' = edges \union {e}
    BY <1>6 DEF AddEdge
  <2> DEFINE e == [from |-> from, to |-> to, type |-> type]
  <2>2. node[e.from].scope = node[e.to].scope /\ edges' = edges \union {e} /\ UNCHANGED <<node, req>>
    BY <1>6, <2>1 DEF AddEdge, EdgeAccepted
  <2> HIDE DEF e
  <2>3. QED
    BY <2>2 DEF ScopesOK, InOneScope, DrawnInScope
<1>7. ASSUME NEW r \in Requests, Ingest(r) PROVE ScopesOK'
  <2>1. CASE Receive(r)
    <3>1. /\ req[r] = NoRequest /\ edges' = edges /\ node' = node /\ OwnRow(r)
          /\ req'[r].wired = {}
      BY <1>1, <2>1, ReceiveRow DEF Receive, RequestOK, Place
    <3>2. \A b \in Requests : req'[b] = req[b] \/ req'[b].wired = {}
      BY <3>1 DEF OwnRow
    <3>3. QED
      BY <1>3, <3>1, <3>2 DEF ScopesOK, DrawnInScope
  <2>2. CASE CreateNode(r)
    <3>1. /\ OwnRow(r) /\ edges' = edges /\ req[r].wired = {} /\ req'[r].wired = {}
          /\ req'[r].scope = req[r].scope
      BY <1>1, <2>2, CreateNodeRow DEF CreateNode, SameAsk, RequestOK, Place
    <3>2. QED
      BY <1>3, <1>4, <3>1 DEF ScopesOK
  <2>3. CASE CreateEdge(r)
    BY <2>3, CreateEdgeInScope
  <2>4. CASE Commit(r) \/ CommitInDoubt(r)
    BY <2>4, CommitInScope
  <2>5. CASE RecordEffect(r)
    <3>1. OwnRow(r) /\ SameAsk(r) /\ SameWork(r) /\ edges' = edges
      BY <1>1, <2>5, RecordEffectRow DEF RecordEffect
    <3>2. QED
      BY <1>3, <1>4, <3>1 DEF ScopesOK, SameAsk, SameWork
  <2>6. CASE Reject(r) \/ EndEdges(r) \/ RecordFails(r) \/ Respond(r) \/ Fails(r)
    <3>1. OwnRow(r) /\ SameAsk(r) /\ SameWork(r) /\ edges' = edges
      BY <1>1, <2>6, PassRow DEF GoesTo, Ends, Reject, EndEdges, RecordFails, Respond, Fails
    <3>2. QED
      BY <1>3, <1>4, <3>1 DEF ScopesOK, SameAsk, SameWork
  <2>7. QED
    BY <1>7, <2>1, <2>2, <2>3, <2>4, <2>5, <2>6 DEF Ingest
<1>8. QED
  BY <1>5, <1>6, <1>7 DEF Next

-----------------------------------------------------------------------------
(* The neighbours that the walks go to. *)

\* The walks that find_reachable and find_path are compared with take the rows that
\* they read, to nodes that are passed.
LEMMA OutNextIs ==
    ASSUME NEW es, NEW follow, NEW ok \in SUBSET NodeIds
    PROVE  /\ OutNext(es, follow, ok) \in Successors
           /\ \A m \in NodeIds : \A n :
                n \in OutNext(es, follow, ok)[m]
                <=> n \in ok /\ \E e \in es : e.from = m /\ e.to = n /\ e.type \in follow
           /\ \A m \in NodeIds : OutNext(es, follow, ok)[m] = Outgoing(es, m, follow) \intersect ok
<1>1. OutNext(es, follow, ok) \in Successors
  BY DEF OutNext, Successors
<1>2. \A m \in NodeIds : OutNext(es, follow, ok)[m]
                         = {n \in ok : \E e \in es : e.from = m /\ e.to = n /\ e.type \in follow}
  BY DEF OutNext
<1>3. QED
  BY <1>1, <1>2 DEF Outgoing

\* What classify_impact enqueues of a node, with both of its reads.
Downstream(es, n, follow) == Dependents(es, n, follow) \union Triggered(es, n, follow)

\* The walks that classify_impact is compared with go where it goes.
LEMMA ImpactNextIs ==
    ASSUME NEW es \in SUBSET GraphEdge, NEW follow
    PROVE  /\ ImpactNext(es, follow) \in Successors
           /\ \A m \in NodeIds : \A n :
                n \in ImpactNext(es, follow)[m]
                <=> \E e \in es :
                        /\ e.type \in follow
                        /\ \/ e.type = "DependsOn" /\ e.from = n /\ e.to = m
                           \/ e.type \in {"Triggers", "GeneratedFrom"} /\ e.from = m /\ e.to = n
           /\ \A m \in NodeIds : ImpactNext(es, follow)[m] = Downstream(es, m, follow)
<1> DEFINE Joins(m, n) == \E e \in es :
              /\ e.type \in follow
              /\ \/ e.type = "DependsOn" /\ e.from = n /\ e.to = m
                 \/ e.type \in {"Triggers", "GeneratedFrom"} /\ e.from = m /\ e.to = n
<1>1. ImpactNext(es, follow) \in Successors
  BY DEF ImpactNext, Successors
<1>2. \A m \in NodeIds : ImpactNext(es, follow)[m] = {n \in NodeIds : Joins(m, n)}
  BY DEF ImpactNext
<1>3. \A m, n : Joins(m, n) => n \in NodeIds
  BY DEF GraphEdge
<1>4. \A m, n : n \in Downstream(es, m, follow) <=> Joins(m, n)
  <2> TAKE m, n
  <2> DEFINE In == Incoming(es, m, follow \intersect {"DependsOn"})
             Out == Outgoing(es, m, follow \intersect {"Triggers", "GeneratedFrom"})
             A(e) == e.to = m /\ e.type \in follow /\ e.type = "DependsOn" /\ e.from = n
             B(e) == e.from = m /\ e.type \in follow /\ e.type \in {"Triggers", "GeneratedFrom"} /\ e.to = n
  <2>1. n \in In <=> \E e \in es : A(e)
    BY DEF Incoming
  <2>2. n \in Out <=> \E e \in es : B(e)
    BY DEF Outgoing
  <2>3. Joins(m, n) <=> (\E e \in es : A(e)) \/ (\E e \in es : B(e))
    OBVIOUS
  <2>4. Downstream(es, m, follow) = In \union Out
    BY DEF Downstream, Dependents, Triggered
  <2> HIDE DEF In, Out, A, B, Joins
  <2>5. QED
    BY <2>1, <2>2, <2>3, <2>4
<1> HIDE DEF Joins
<1>5. \A m \in NodeIds : \A n : n \in ImpactNext(es, follow)[m] <=> Joins(m, n)
  BY <1>2, <1>3
<1>6. \A m \in NodeIds : ImpactNext(es, follow)[m] = Downstream(es, m, follow)
  BY <1>4, <1>5
<1>7. QED
  BY <1>1, <1>5, <1>6 DEF Joins

\* That again, of one node.
LEMMA ImpactIsDownstream ==
    ASSUME NEW es \in SUBSET GraphEdge, NEW follow, NEW m \in NodeIds
    PROVE  ImpactNext(es, follow)[m] = Downstream(es, m, follow)
<1>1. \A n \in NodeIds : ImpactNext(es, follow)[n] = Downstream(es, n, follow)
  BY ImpactNextIs
<1>2. QED
  BY <1>1

\* And they begin where it begins.
LEMMA FirstAffectedIs ==
    ASSUME NEW es \in SUBSET GraphEdge, NEW n, NEW follow
    PROVE  FirstAffected(es, n, follow) = Seeds(es, n, follow) /\ Seeds(es, n, follow) \subseteq NodeIds
  BY DEF FirstAffected, Seeds, Incoming, GraphEdge

\* The graph only grows, and the walks with it.
LEMMA MoreWalks ==
    ASSUME NEW es \in SUBSET GraphEdge, NEW fs \in SUBSET GraphEdge, es \subseteq fs,
           NEW start \in NodeIds, NEW follow, NEW max \in Nat,
           NEW ok \in SUBSET NodeIds, NEW ok2 \in SUBSET NodeIds, ok \subseteq ok2
    PROVE  \A k \in 1..max :
            /\ ImpactWalks(es, start, follow, max)[k] \subseteq ImpactWalks(fs, start, follow, max)[k]
            /\ OutWalks(es, start, follow, ok, max)[k] \subseteq OutWalks(fs, start, follow, ok2, max)[k]
<1>1. \A k \in 1..max :
        ImpactWalks(es, start, follow, max)[k] \subseteq ImpactWalks(fs, start, follow, max)[k]
  <2> DEFINE a == FirstAffected(es, start, follow)
             b == FirstAffected(fs, start, follow)
             f == ImpactNext(es, follow)
             g == ImpactNext(fs, follow)
  <2>1. a \subseteq NodeIds /\ b \subseteq NodeIds /\ a \subseteq b
    BY DEF FirstAffected
  <2>2. f \in Successors /\ g \in Successors /\ \A m \in NodeIds : f[m] \subseteq g[m]
    <3>1. f \in Successors /\ g \in Successors
      BY ImpactNextIs
    <3>2. \A m \in NodeIds : /\ f[m] = Downstream(es, m, follow) /\ g[m] = Downstream(fs, m, follow)
      BY ImpactNextIs
    <3>3. \A m \in NodeIds : Downstream(es, m, follow) \subseteq Downstream(fs, m, follow)
      BY DEF Downstream, Dependents, Triggered, Incoming, Outgoing
    <3> HIDE DEF f, g
    <3>4. QED
      BY <3>1, <3>2, <3>3
  <2> HIDE DEF a, b, f, g
  <2>3. \A k \in 1..max : Walks(a, f, max)[k] \subseteq Walks(b, g, max)[k]
    BY <2>1, <2>2, WalksGrow
  <2>4. QED
    BY <2>3 DEF ImpactWalks, a, b, f, g
<1>2. \A k \in 1..max :
        OutWalks(es, start, follow, ok, max)[k] \subseteq OutWalks(fs, start, follow, ok2, max)[k]
  <2> DEFINE f == OutNext(es, follow, ok)
             g == OutNext(fs, follow, ok2)
  <2>1. f \in Successors /\ g \in Successors
    BY OutNextIs
  <2>2. \A m \in NodeIds : f[m] \subseteq g[m]
    BY DEF OutNext
  <2> HIDE DEF f, g
  <2>3. f[start] \in SUBSET NodeIds /\ g[start] \in SUBSET NodeIds
    BY <2>1 DEF Successors
  <2>4. \A k \in 1..max : Walks(f[start], f, max)[k] \subseteq Walks(g[start], g, max)[k]
    BY <2>1, <2>2, <2>3, WalksGrow
  <2>5. QED
    BY <2>4 DEF OutWalks, f, g
<1>3. QED
  BY <1>1, <1>2

\* A walk goes on along an edge.
LEMMA WalksGoOn ==
    ASSUME NEW first \in SUBSET NodeIds, NEW next \in Successors, NEW max \in Nat
    PROVE  /\ 1 <= max => Walks(first, next, max)[1] = first
           /\ \A k \in 1..max : \A m \in Walks(first, next, max)[k] :
                m \in NodeIds /\ (k < max => next[m] \subseteq Walks(first, next, max)[k + 1])
<1> DEFINE W == Walks(first, next, max)
<1>1. Layered(W, first, next, max)
  BY WalksAre
<1> HIDE DEF W
<1>2. ASSUME NEW k \in 1..max, NEW m \in W[k]
      PROVE  m \in NodeIds /\ (k < max => next[m] \subseteq W[k + 1])
  <2>1. m \in NodeIds
    BY <1>1, <1>2 DEF Layered
  <2>2. ASSUME k < max PROVE next[m] \subseteq W[k + 1]
    <3>1. k + 1 \in 2..max /\ (k + 1) - 1 = k
      BY <2>2
    <3>2. W[k + 1] = UNION {next[i] : i \in W[k]}
      BY <1>1, <3>1 DEF Layered
    <3>3. QED
      BY <3>2
  <2>3. QED
    BY <2>1, <2>2
<1>3. QED
  BY <1>1, <1>2 DEF Layered, W

-----------------------------------------------------------------------------
(* The state of a traversal. *)

AskFields == {"pc", "kind", "start", "target", "max", "follow", "types", "include_start", "queue",
              "half", "visited", "depth", "parent", "path", "listed", "meanwhile", "then"}

AskOK ==
    /\ DOMAIN ask = AskFields /\ ask.max \in Nat /\ ask.types \subseteq NodeTypes
    /\ ask.queue \subseteq Entry /\ ask.visited \subseteq NodeIds
    /\ ask.depth \in [NodeIds -> Nat] /\ ask.parent \in [NodeIds -> 0..MaxNodes]
    /\ ask.then \subseteq edges
    /\ ask.kind \in {"classify", "reachable", "path"} => Exists(ask.start)

\* What was asked, and the graph as it was then, do not change.
SameQuestion ==
    /\ ask'.kind = ask.kind /\ ask'.start = ask.start /\ ask'.target = ask.target
    /\ ask'.max = ask.max /\ ask'.follow = ask.follow /\ ask'.types = ask.types
    /\ ask'.include_start = ask.include_start /\ ask'.listed = ask.listed /\ ask'.then = ask.then

\* The search has not moved.
SameSearch ==
    /\ ask'.queue = ask.queue /\ ask'.half = ask.half /\ ask'.visited = ask.visited
    /\ ask'.depth = ask.depth /\ ask'.parent = ask.parent

\* x is one of the nearest entries of the queue.
Nearest(x) == x \in ask.queue /\ \A q \in ask.queue : x.depth <= q.depth

\* The graph under a traversal is one of nodes and edges.
LEMMA GraphUnder ==
    ASSUME Inductive, AskOK
    PROVE  /\ edges \in SUBSET GraphEdge /\ ask.then \in SUBSET GraphEdge
           /\ \A e \in edges : Exists(e.from) /\ Exists(e.to)
           /\ Asked \in SUBSET NodeIds
  BY DEF Inductive, Typed, Tables, AskOK, Asked

-----------------------------------------------------------------------------
(* Classification.  E holds the entries that were popped and expanded.       *)

\* The entry between its two reads is one of the nearest, and what depended on it
\* when the traversal began is in the queue.
HalfRead ==
    \A x \in ask.half :
        /\ ask.half = {x} /\ x \notin ask.queue /\ x.depth < ask.max
        /\ \A q \in ask.queue : x.depth <= q.depth
        /\ \A n \in Dependents(ask.then, x.node, ask.follow) : Covers(ask.queue, n, x.depth + 1)

Classifying(E) ==
    /\ Covered(E, ask.queue \union ask.half, ImpactNext(ask.then, ask.follow), ask.max)
    /\ Seeded(E \union (ask.queue \union ask.half),
              FirstAffected(ask.then, ask.start, ask.follow), ask.max)
    /\ \A p \in E \union (ask.queue \union ask.half) :
        /\ Exists(p.node) /\ 1 <= p.depth
        /\ p.depth <= ask.max => p.node \in ImpactWalks(edges, ask.start, ask.follow, ask.max)[p.depth]
    /\ \A m \in ask.visited :
        [node |-> m, depth |-> ask.depth[m]] \in E \union ask.half /\ ask.depth[m] <= ask.max
    /\ \A m \in NodeIds \ ask.visited : ask.depth[m] = 0
    /\ \A e \in E \union ask.half : e.depth <= ask.max /\ e.node \in Asked =>
        e.node \in ask.visited /\ ask.depth[e.node] <= e.depth
    /\ HalfRead

\* What a turn of its loop sets, up to the first read.
LEMMA ClassifyStep ==
    ASSUME AskOK, Classify
    PROVE  /\ ask.kind = "classify" /\ ask'.pc = "run" /\ SameQuestion /\ DOMAIN ask' = AskFields
           /\ ask'.parent = ask.parent /\ ask.half = {}
           /\ \E x : Nearest(x) /\
                LET skip == x.depth > ask.max \/ x.node \in ask.visited
                    counts == ~skip /\ node[x.node].type \in ask.types
                    half == IF skip \/ x.depth >= ask.max THEN {} ELSE {x}
                    next == IF half = {} THEN {} ELSE At(Dependents(edges, x.node, ask.follow), x.depth + 1) IN
                /\ ask'.queue = (ask.queue \ {x}) \union next /\ ask'.half = half
                /\ ask'.visited = IF counts THEN ask.visited \union {x.node} ELSE ask.visited
                /\ ask'.depth = IF counts THEN [ask.depth EXCEPT ![x.node] = x.depth] ELSE ask.depth
<1>1. ask.pc = "run" /\ ask.kind = "classify" /\ DOMAIN ask = AskFields /\ ask.half = {}
      /\ ask.queue \subseteq Entry /\ ask.depth \in [NodeIds -> Nat]
  BY DEF AskOK, Classify
<1>2. PICK x \in Popped :
        LET skip == x.depth > ask.max \/ x.node \in ask.visited
            counts == ~skip /\ node[x.node].type \in ask.types
            half == IF skip \/ x.depth >= ask.max THEN {} ELSE {x}
            next == IF half = {} THEN {} ELSE At(Dependents(edges, x.node, ask.follow), x.depth + 1) IN
        ask' = [ask EXCEPT !.queue = (@ \ {x}) \union next, !.half = half,
                           !.visited = IF counts THEN @ \union {x.node} ELSE @,
                           !.depth[x.node] = IF counts THEN x.depth ELSE @]
  BY DEF Classify
<1> DEFINE skip == x.depth > ask.max \/ x.node \in ask.visited
           counts == ~skip /\ node[x.node].type \in ask.types
           half == IF skip \/ x.depth >= ask.max THEN {} ELSE {x}
           next == IF half = {} THEN {} ELSE At(Dependents(edges, x.node, ask.follow), x.depth + 1)
           vis == IF counts THEN ask.visited \union {x.node} ELSE ask.visited
           dep == [ask.depth EXCEPT ![x.node] = IF counts THEN x.depth ELSE ask.depth[x.node]]
           q == (ask.queue \ {x}) \union next
<1>3. ask' = [ask EXCEPT !.queue = q, !.half = half, !.visited = vis, !.depth = dep]
  BY <1>2
<1>4. Nearest(x) /\ x.node \in NodeIds
  BY <1>1, <1>2 DEF Popped, Nearest, Entry
<1>5. dep = IF counts THEN [ask.depth EXCEPT ![x.node] = x.depth] ELSE ask.depth
  BY <1>1, <1>4
<1> HIDE DEF q, half, vis, dep
<1>6. /\ ask'.pc = "run" /\ SameQuestion /\ DOMAIN ask' = AskFields /\ ask'.parent = ask.parent
      /\ ask'.queue = q /\ ask'.half = half /\ ask'.visited = vis /\ ask'.depth = dep
  BY <1>1, <1>3 DEF SameQuestion, AskFields
<1>7. QED
  BY <1>1, <1>4, <1>5, <1>6 DEF q, half, vis

\* The entries of nodes at a depth.
LEMMA AtIs ==
    ASSUME NEW ns, NEW d
    PROVE  /\ \A p \in At(ns, d) : p.node \in ns /\ p.depth = d /\ p = [node |-> p.node, depth |-> d]
           /\ \A n \in ns : \E p \in At(ns, d) : p.node = n /\ p.depth = d
<1>1. \A n \in ns : [node |-> n, depth |-> d] \in At(ns, d)
  BY DEF At
<1>2. \A n : [node |-> n, depth |-> d].node = n /\ [node |-> n, depth |-> d].depth = d
  OBVIOUS
<1>3. \A p \in At(ns, d) : p.node \in ns /\ p.depth = d /\ p = [node |-> p.node, depth |-> d]
  BY DEF At
<1>4. QED
  BY <1>1, <1>2, <1>3

\* What lies downstream of a node a walk goes to is at the end of the next walk.
LEMMA WalkGoesDown ==
    ASSUME Inductive, AskOK, ask.kind = "classify", NEW m \in NodeIds, NEW d \in 1..ask.max, d < ask.max,
           m \in ImpactWalks(edges, ask.start, ask.follow, ask.max)[d],
           NEW n \in Downstream(edges, m, ask.follow)
    PROVE  Exists(n) /\ n \in NodeIds /\ n \in ImpactWalks(edges, ask.start, ask.follow, ask.max)[d + 1]
<1> DEFINE f == FirstAffected(edges, ask.start, ask.follow)
           g == ImpactNext(edges, ask.follow)
           max == ask.max
           W == ImpactWalks(edges, ask.start, ask.follow, ask.max)
<1>1. edges \in SUBSET GraphEdge /\ \A e \in edges : Exists(e.from) /\ Exists(e.to)
  BY GraphUnder
<1>2. Exists(n) /\ n \in NodeIds
  BY <1>1 DEF Downstream, Dependents, Triggered, Incoming, Outgoing, Exists
<1>3. g[m] = Downstream(edges, m, ask.follow) /\ g \in Successors
  <2>1. g[m] = Downstream(edges, m, ask.follow)
    BY <1>1, ImpactIsDownstream
  <2>2. g \in Successors
    BY <1>1, ImpactNextIs
  <2>3. QED
    BY <2>1, <2>2
<1>4. f \in SUBSET NodeIds /\ W = Walks(f, g, max) /\ max \in Nat
  BY DEF FirstAffected, ImpactWalks, AskOK
<1> HIDE DEF f, g, W
<1>5. m \in W[d]
  BY DEF W
<1>6. g[m] \subseteq W[d + 1]
  BY <1>3, <1>4, <1>5, WalksGoOn
<1>7. QED
  BY <1>2, <1>3, <1>6 DEF W

\* More entries, none of them nearer than what was expanded, take nothing away.
LEMMA MoreCovered ==
    ASSUME NEW E, NEW Q, NEW next, NEW max, Covered(E, Q, next, max),
           NEW new \in SUBSET Entry, \A e \in E, q \in new : e.depth <= q.depth
    PROVE  Covered(E, Q \union new, next, max)
<1>1. \A e \in E : e.depth < max => \A n \in next[e.node] : Covers(E \union (Q \union new), n, e.depth + 1)
  BY DEF Covered, Covers
<1>2. QED
  BY <1>1 DEF Covered

\* The entry that is popped waits for its second read, or it is beyond the limit, or
\* a nearer one of its node was expanded before.
LEMMA ClassifyKeeps ==
    ASSUME Inductive, AskOK, NEW E, Classifying(E), Classify
    PROVE  AskOK' /\ \E F \in SUBSET Entry : Classifying(F)'
<1>1. /\ ask'.pc = "run" /\ SameQuestion /\ DOMAIN ask' = AskFields /\ ask'.parent = ask.parent
      /\ ask.kind = "classify" /\ UNCHANGED <<node, edges>> /\ ask.half = {}
  BY ClassifyStep DEF Classify, vars
<1>2. PICK x : Nearest(x) /\
        LET skip == x.depth > ask.max \/ x.node \in ask.visited
            counts == ~skip /\ node[x.node].type \in ask.types
            half == IF skip \/ x.depth >= ask.max THEN {} ELSE {x}
            next == IF half = {} THEN {} ELSE At(Dependents(edges, x.node, ask.follow), x.depth + 1) IN
        /\ ask'.queue = (ask.queue \ {x}) \union next /\ ask'.half = half
        /\ ask'.visited = IF counts THEN ask.visited \union {x.node} ELSE ask.visited
        /\ ask'.depth = IF counts THEN [ask.depth EXCEPT ![x.node] = x.depth] ELSE ask.depth
  BY ClassifyStep
<1> DEFINE skip == x.depth > ask.max \/ x.node \in ask.visited
           counts == ~skip /\ node[x.node].type \in ask.types
           half == IF skip \/ x.depth >= ask.max THEN {} ELSE {x}
           new == IF half = {} THEN {} ELSE At(Dependents(edges, x.node, ask.follow), x.depth + 1)
           next == ImpactNext(ask.then, ask.follow)
           first == FirstAffected(ask.then, ask.start, ask.follow)
           W == ImpactWalks(edges, ask.start, ask.follow, ask.max)
           max == ask.max
           Q == ask.queue
           R == ask'.queue \union half
<1>0. PICK F : F = E \union ({x} \ half)
  OBVIOUS
<1>3. /\ x \in Q /\ (\A y \in Q : x.depth <= y.depth) /\ x \in Entry /\ x.node \in NodeIds
      /\ x.depth \in Nat /\ max \in Nat /\ E \subseteq Entry /\ Q \subseteq Entry
      /\ Q \union ask.half = Q /\ E \union ask.half = E
      /\ Covered(E, Q, next, max) /\ Seeded(E \union Q, first, max)
      /\ ask.visited \subseteq NodeIds /\ ask.depth \in [NodeIds -> Nat]
  <2>1. Q \union ask.half = Q /\ E \union ask.half = E
    BY <1>1
  <2>2. Covered(E, Q, next, max) /\ Seeded(E \union Q, first, max)
    BY <2>1 DEF Classifying
  <2>3. QED
    BY <1>2, <2>1, <2>2 DEF Nearest, Covered, AskOK, Entry
<1>4. /\ edges \in SUBSET GraphEdge /\ ask.then \in SUBSET GraphEdge /\ ask.then \subseteq edges
      /\ \A e \in edges : Exists(e.from) /\ Exists(e.to)
  BY GraphUnder DEF AskOK
<1>5. /\ \A p \in E \union Q : Exists(p.node) /\ 1 <= p.depth /\ (p.depth <= max => p.node \in W[p.depth])
      /\ \A m \in ask.visited : [node |-> m, depth |-> ask.depth[m]] \in E /\ ask.depth[m] <= max
      /\ \A m \in NodeIds \ ask.visited : ask.depth[m] = 0
      /\ \A e \in E : e.depth <= max /\ e.node \in Asked =>
            e.node \in ask.visited /\ ask.depth[e.node] <= e.depth
  BY <1>3 DEF Classifying
<1>6. half = {} \/ (half = {x} /\ ~skip /\ x.depth < max)
  BY <1>3
<1>7. /\ new \in SUBSET Entry /\ \A p \in new : p.depth = x.depth + 1
      /\ \A p \in new : Exists(p.node) /\ p.node \in W[p.depth]
  <2>1. CASE half # {}
    <3>1. \A p \in new : p.node \in Dependents(edges, x.node, ask.follow) /\ p.depth = x.depth + 1
                         /\ p = [node |-> p.node, depth |-> x.depth + 1]
      BY <2>1 DEF At
    <3>2. x.depth \in 1..max /\ x.depth < max /\ x.node \in W[x.depth]
      BY <1>3, <1>5, <1>6, <2>1
    <3>3. \A n \in Dependents(edges, x.node, ask.follow) : n \in Downstream(edges, x.node, ask.follow)
      BY DEF Downstream
    <3>4. \A n \in Dependents(edges, x.node, ask.follow) : Exists(n) /\ n \in NodeIds /\ n \in W[x.depth + 1]
      BY <1>1, <1>3, <3>2, <3>3, WalkGoesDown
    <3> HIDE DEF new, W, skip, half
    <3>5. QED
      BY <1>3, <3>1, <3>4 DEF Entry
  <2>2. CASE half = {}
    <3>1. new = {}
      BY <2>2
    <3>2. QED
      BY <3>1
  <2>3. QED
    BY <2>1, <2>2
<1>8. ASSUME half = {}, x.depth < max, NEW n \in next[x.node]
      PROVE  Covers(E \union Q \union new, n, x.depth + 1)
  <2>1. x.node \in ask.visited
    BY <1>3, <1>8
  <2> DEFINE e == [node |-> x.node, depth |-> ask.depth[x.node]]
  <2>2. e \in E /\ e.node = x.node /\ e.depth = ask.depth[x.node]
    BY <1>5, <2>1
  <2> HIDE DEF e, next, new
  <2>3. e.depth \in Nat /\ e.depth <= x.depth /\ e.depth < max
    BY <1>3, <1>8, <2>2 DEF Covered, Entry
  <2>4. PICK p \in E \union Q : p.node = n /\ p.depth <= e.depth + 1
    BY <1>3, <1>8, <2>2, <2>3 DEF Covered, Covers
  <2>5. p.depth \in Nat
    BY <1>3 DEF Entry
  <2>6. p.depth <= x.depth + 1
    BY <1>3, <2>3, <2>4, <2>5
  <2>7. QED
    BY <2>4, <2>6 DEF Covers
<1>9. ASSUME half = {x}, NEW n \in Dependents(ask.then, x.node, ask.follow)
      PROVE  \E p \in new : p.node = n /\ p.depth = x.depth + 1
  <2>1. n \in Dependents(edges, x.node, ask.follow)
    BY <1>4, <1>9 DEF Dependents, Incoming
  <2>2. new = At(Dependents(edges, x.node, ask.follow), x.depth + 1)
    BY <1>9
  <2> HIDE DEF new
  <2>3. QED
    BY <2>1, <2>2, AtIs
<1> HIDE DEF next, first, W
<1>10. /\ ask'.queue = (Q \ {x}) \union new /\ ask'.half = half
       /\ ask'.visited = IF counts THEN ask.visited \union {x.node} ELSE ask.visited
       /\ ask'.depth = IF counts THEN [ask.depth EXCEPT ![x.node] = x.depth] ELSE ask.depth
  BY <1>2
<1> HIDE DEF new, half
<1>11. /\ Covered(F, R, next, max) /\ F \union R = E \union Q \union new
       /\ F \subseteq Entry /\ ask'.queue \subseteq Entry
  <2>1. \A q \in new : q.depth = x.depth + 1
    BY <1>7
  <2>2. CASE half = {}
    <3>1. F = E \union {x} /\ R = (Q \ {x}) \union new
      BY <1>0, <1>10, <2>2
    <3>2. x.depth < max => \A n \in next[x.node] : Covers(E \union Q \union new, n, x.depth + 1)
      BY <1>8, <2>2
    <3>3. /\ Covered(E \union {x}, (Q \ {x}) \union new, next, max)
          /\ (E \union {x}) \union ((Q \ {x}) \union new) = E \union Q \union new
      BY <1>3, <1>7, <2>1, <3>2, Expand
    <3>4. QED
      BY <1>3, <1>7, <1>10, <3>1, <3>3
  <2>3. CASE half = {x}
    <3>1. F = E /\ R = Q \union new
      BY <1>0, <1>3, <1>10, <2>3
    <3>2. \A e \in E, q \in new : e.depth <= q.depth
      <4>1. \A e \in E : e.depth \in Nat /\ e.depth <= x.depth
        BY <1>3 DEF Covered, Entry
      <4>2. QED
        BY <1>3, <2>1, <4>1
    <3>3. Covered(E, Q \union new, next, max)
      BY <1>3, <1>7, <3>2, MoreCovered
    <3>4. QED
      BY <1>3, <1>7, <1>10, <3>1, <3>3
  <2>4. QED
    BY <1>6, <2>2, <2>3
<1>12. Seeded(F \union R, first, max)
  BY <1>3, <1>11, SeededStays
<1>13. \A p \in F \union R : Exists(p.node) /\ 1 <= p.depth /\ (p.depth <= max => p.node \in W[p.depth])
  <2>1. \A p \in new : 1 <= p.depth
    BY <1>3, <1>7
  <2>2. QED
    BY <1>5, <1>7, <1>11, <2>1
<1>14. x.node \in ask.visited => ask.depth[x.node] <= x.depth
  <2> DEFINE e == [node |-> x.node, depth |-> ask.depth[x.node]]
  <2>1. x.node \in ask.visited => e \in E /\ e.depth = ask.depth[x.node]
    BY <1>5
  <2> HIDE DEF e
  <2>2. QED
    BY <1>3, <2>1 DEF Covered
<1>15. ask'.visited \subseteq NodeIds /\ ask'.depth \in [NodeIds -> Nat]
  BY <1>3, <1>10
<1> DEFINE G == E \union {x}
<1>16. F \union half = G
  BY <1>0, <1>6
<1>17. /\ \A m \in ask'.visited : [node |-> m, depth |-> ask'.depth[m]] \in G /\ ask'.depth[m] <= max
       /\ \A m \in NodeIds \ ask'.visited : ask'.depth[m] = 0
       /\ \A e \in G : e.depth <= max /\ e.node \in Asked =>
            e.node \in ask'.visited /\ ask'.depth[e.node] <= e.depth
  <2>1. CASE counts
    <3>1. /\ ask'.visited = ask.visited \union {x.node} /\ x.node \notin ask.visited /\ x.depth <= max
          /\ ask'.depth[x.node] = x.depth /\ \A m \in NodeIds \ {x.node} : ask'.depth[m] = ask.depth[m]
      BY <1>3, <1>10, <2>1
    <3>2. [node |-> x.node, depth |-> ask'.depth[x.node]] = x /\ x.depth <= x.depth
      BY <1>3, <3>1 DEF Entry
    <3>3. \A e \in E : e.node \in NodeIds
      BY <1>3 DEF Entry
    <3> HIDE DEF counts
    <3>4. QED
      BY <1>3, <1>5, <3>1, <3>2, <3>3
  <2>2. CASE ~counts
    <3>1. ask'.visited = ask.visited /\ ask'.depth = ask.depth
      BY <1>10, <2>2
    <3>2. x.depth <= max /\ x.node \in Asked => x.node \in ask.visited
      BY <1>3, <2>2 DEF Asked
    <3> HIDE DEF counts
    <3>3. QED
      BY <1>5, <1>14, <3>1, <3>2
  <2>3. QED
    BY <2>1, <2>2
<1>18. \A y \in half :
        /\ half = {y} /\ y \notin ask'.queue /\ y.depth < max
        /\ \A q \in ask'.queue : y.depth <= q.depth
        /\ \A n \in Dependents(ask.then, y.node, ask.follow) : Covers(ask'.queue, n, y.depth + 1)
  <2> SUFFICES ASSUME half = {x}, x.depth < max
               PROVE  /\ x \notin ask'.queue /\ \A q \in ask'.queue : x.depth <= q.depth
                      /\ \A n \in Dependents(ask.then, x.node, ask.follow) :
                            Covers(ask'.queue, n, x.depth + 1)
    BY <1>6
  <2>1. \A q \in new : q.depth \in Nat /\ q.depth = x.depth + 1
    BY <1>3, <1>7
  <2>2. x \notin ask'.queue /\ \A q \in ask'.queue : x.depth <= q.depth
    BY <1>3, <1>10, <2>1
  <2>3. x.depth + 1 <= x.depth + 1
    BY <1>3
  <2>4. \A n \in Dependents(ask.then, x.node, ask.follow) : Covers(new, n, x.depth + 1)
    BY <1>9, <2>3 DEF Covers
  <2>5. QED
    BY <1>10, <2>2, <2>4 DEF Covers
<1>19. /\ ask'.max = max /\ ask'.start = ask.start /\ ask'.follow = ask.follow /\ ask'.then = ask.then
       /\ ask'.types = ask.types /\ ask'.kind = ask.kind
  BY <1>1 DEF SameQuestion
<1>20. HalfRead'
  BY <1>10, <1>18, <1>19 DEF HalfRead
<1>21. Asked' = Asked
  BY <1>1, <1>19 DEF Asked
<1> HIDE DEF G
<1>22. /\ Covered(F, ask'.queue \union ask'.half, next, max)
       /\ Seeded(F \union (ask'.queue \union ask'.half), first, max)
       /\ \A p \in F \union (ask'.queue \union ask'.half) :
            Exists(p.node)' /\ 1 <= p.depth /\ (p.depth <= max => p.node \in W[p.depth])
       /\ \A m \in ask'.visited :
            [node |-> m, depth |-> ask'.depth[m]] \in F \union ask'.half /\ ask'.depth[m] <= max
       /\ \A e \in F \union ask'.half : e.depth <= max /\ e.node \in Asked' =>
            e.node \in ask'.visited /\ ask'.depth[e.node] <= e.depth
  <2>1. F \union ask'.half = G /\ ask'.queue \union ask'.half = R
    BY <1>10, <1>16
  <2>2. \A p \in F \union R :
            Exists(p.node)' /\ 1 <= p.depth /\ (p.depth <= max => p.node \in W[p.depth])
    BY <1>1, <1>13 DEF Exists
  <2> HIDE DEF R
  <2>3. QED
    BY <1>11, <1>12, <1>17, <1>21, <2>1, <2>2
<1> HIDE DEF R
<1>23. Classifying(F)'
  BY <1>1, <1>17, <1>19, <1>20, <1>22 DEF Classifying, next, first, W
<1>24. AskOK'
  BY <1>1, <1>11, <1>15, <1>19 DEF AskOK, Exists
<1>25. QED
  BY <1>11, <1>23, <1>24

\* The second read sets the queue, and the entry is expanded.
LEMMA PropagateKeeps ==
    ASSUME Inductive, AskOK, NEW E, Classifying(E), Propagate
    PROVE  AskOK' /\ \E F \in SUBSET Entry : Classifying(F)'
<1>1. PICK x \in ask.half :
        ask' = [ask EXCEPT !.queue = @ \union At(Triggered(edges, x.node, ask.follow), x.depth + 1),
                           !.half = {}]
  BY DEF Propagate
<1> DEFINE new == At(Triggered(edges, x.node, ask.follow), x.depth + 1)
           next == ImpactNext(ask.then, ask.follow)
           first == FirstAffected(ask.then, ask.start, ask.follow)
           W == ImpactWalks(edges, ask.start, ask.follow, ask.max)
           max == ask.max
           Q == ask.queue \union {x}
           F == E \union {x}
<1>2. /\ SameQuestion /\ DOMAIN ask' = AskFields /\ ask'.parent = ask.parent /\ ask'.half = {}
      /\ ask'.queue = ask.queue \union new /\ ask'.visited = ask.visited /\ ask'.depth = ask.depth
      /\ ask.kind = "classify" /\ UNCHANGED <<node, edges>>
  BY <1>1 DEF AskOK, AskFields, SameQuestion, Propagate, vars
<1>3. /\ ask.half = {x} /\ x \notin ask.queue /\ x.depth < max
      /\ \A q \in ask.queue : x.depth <= q.depth
      /\ \A n \in Dependents(ask.then, x.node, ask.follow) : Covers(ask.queue, n, x.depth + 1)
  BY DEF Classifying, HalfRead
<1>4. /\ Covered(E, Q, next, max) /\ Seeded(E \union Q, first, max)
      /\ \A p \in E \union Q : Exists(p.node) /\ 1 <= p.depth /\ (p.depth <= max => p.node \in W[p.depth])
      /\ \A m \in ask.visited : [node |-> m, depth |-> ask.depth[m]] \in F /\ ask.depth[m] <= max
      /\ \A m \in NodeIds \ ask.visited : ask.depth[m] = 0
      /\ \A e \in F : e.depth <= max /\ e.node \in Asked =>
            e.node \in ask.visited /\ ask.depth[e.node] <= e.depth
  BY <1>3 DEF Classifying
<1>5. /\ x \in Q /\ x \in Entry /\ x.node \in NodeIds /\ x.depth \in Nat /\ max \in Nat
      /\ E \subseteq Entry /\ Q \subseteq Entry /\ (\A q \in Q : x.depth <= q.depth)
  BY <1>3, <1>4 DEF Covered, AskOK, Entry
<1>6. /\ edges \in SUBSET GraphEdge /\ ask.then \in SUBSET GraphEdge /\ ask.then \subseteq edges
  BY GraphUnder DEF AskOK
<1>7. \A p \in new : /\ p.node \in Triggered(edges, x.node, ask.follow) /\ p.depth = x.depth + 1
                     /\ p = [node |-> p.node, depth |-> x.depth + 1]
  BY AtIs
<1>8. \A n \in Triggered(ask.then, x.node, ask.follow) : \E p \in new : p.node = n /\ p.depth = x.depth + 1
  <2>1. \A n \in Triggered(ask.then, x.node, ask.follow) : n \in Triggered(edges, x.node, ask.follow)
    BY <1>6 DEF Triggered, Outgoing
  <2>2. QED
    BY <2>1, AtIs
<1>9. next[x.node] = Dependents(ask.then, x.node, ask.follow) \union Triggered(ask.then, x.node, ask.follow)
  BY <1>5, <1>6, ImpactIsDownstream DEF Downstream
<1>10. \A n \in Triggered(edges, x.node, ask.follow) : Exists(n) /\ n \in NodeIds /\ n \in W[x.depth + 1]
  <2>1. \A n \in Triggered(edges, x.node, ask.follow) : n \in Downstream(edges, x.node, ask.follow)
    BY DEF Downstream
  <2>2. x.depth \in 1..max /\ x.node \in W[x.depth]
    BY <1>3, <1>4, <1>5
  <2>3. QED
    BY <1>2, <1>3, <1>5, <2>1, <2>2, WalkGoesDown
<1> HIDE DEF new, next, first, W
<1>11. /\ new \in SUBSET Entry /\ \A p \in new : p.depth = x.depth + 1
       /\ \A p \in new : Exists(p.node) /\ 1 <= p.depth /\ p.node \in W[p.depth]
  BY <1>5, <1>7, <1>10 DEF Entry
<1>12. \A n \in next[x.node] : Covers(E \union Q \union new, n, x.depth + 1)
  <2>1. x.depth + 1 <= x.depth + 1
    BY <1>5
  <2>2. \A n \in Triggered(ask.then, x.node, ask.follow) : Covers(E \union Q \union new, n, x.depth + 1)
    BY <1>8, <2>1 DEF Covers
  <2>3. \A n \in Dependents(ask.then, x.node, ask.follow) : Covers(E \union Q \union new, n, x.depth + 1)
    BY <1>3 DEF Covers
  <2>4. QED
    BY <1>9, <2>2, <2>3
<1>13. /\ Covered(E \union {x}, (Q \ {x}) \union new, next, max)
       /\ (E \union {x}) \union ((Q \ {x}) \union new) = E \union Q \union new
  BY <1>4, <1>5, <1>11, <1>12, Expand
<1>14. (Q \ {x}) \union new = ask'.queue \union ask'.half /\ F \union ask'.half = F
  BY <1>2, <1>3
<1>15. /\ Covered(F, ask'.queue \union ask'.half, next, max)
       /\ F \union (ask'.queue \union ask'.half) = E \union Q \union new
  BY <1>13, <1>14
<1>16. Seeded(F \union (ask'.queue \union ask'.half), first, max)
  BY <1>4, <1>15, SeededStays
<1>17. \A p \in F \union (ask'.queue \union ask'.half) :
        Exists(p.node)' /\ 1 <= p.depth /\ (p.depth <= max => p.node \in W[p.depth])
  <2>1. \A p \in E \union Q \union new :
            Exists(p.node) /\ 1 <= p.depth /\ (p.depth <= max => p.node \in W[p.depth])
    BY <1>4, <1>11
  <2>2. QED
    BY <1>2, <1>15, <2>1 DEF Exists
<1>18. /\ ask'.max = max /\ ask'.start = ask.start /\ ask'.follow = ask.follow /\ ask'.then = ask.then
       /\ ask'.types = ask.types /\ ask'.kind = ask.kind /\ Asked' = Asked
  BY <1>2 DEF SameQuestion, Asked
<1>19. HalfRead'
  BY <1>2 DEF HalfRead
<1>20. F \subseteq Entry /\ ask'.queue \subseteq Entry
  BY <1>2, <1>5, <1>11
<1> HIDE DEF F, Q
<1>21. Classifying(F)'
  BY <1>2, <1>4, <1>14, <1>15, <1>16, <1>17, <1>18, <1>19 DEF Classifying, next, first, W
<1>22. AskOK'
  BY <1>2, <1>18, <1>20 DEF AskOK, Exists
<1>23. QED
  BY <1>20, <1>21, <1>22

\* What beginning a traversal sets.
LEMMA BeginStep ==
    ASSUME NEW kind, NEW q, DOMAIN q = AskFields, Begin(kind, q)
    PROVE  /\ DOMAIN ask' = AskFields /\ ask.pc = "idle" /\ UNCHANGED <<node, edges>>
           /\ ask'.pc = "run" /\ ask'.kind = kind /\ ask'.then = edges
           /\ ask'.start = q.start /\ ask'.target = q.target /\ ask'.max = q.max
           /\ ask'.follow = q.follow /\ ask'.types = q.types /\ ask'.include_start = q.include_start
           /\ ask'.queue = q.queue /\ ask'.half = q.half /\ ask'.visited = q.visited /\ ask'.depth = q.depth
           /\ ask'.parent = q.parent /\ ask'.path = q.path /\ ask'.listed = q.listed
  BY DEF Begin, AskFields, vars

\* What a traversal that has not begun is.
LEMMA NoQueryIs ==
    /\ DOMAIN NoQuery = AskFields /\ NoQuery.pc = "idle" /\ NoQuery.start = NoNode /\ NoQuery.target = NoNode
    /\ NoQuery.max = 0 /\ NoQuery.follow = {} /\ NoQuery.types = {} /\ NoQuery.include_start = TRUE
    /\ NoQuery.queue = {} /\ NoQuery.half = {} /\ NoQuery.visited = {} /\ NoQuery.depth = [n \in NodeIds |-> 0]
    /\ NoQuery.parent = [n \in NodeIds |-> NoNode] /\ NoQuery.path = <<>> /\ NoQuery.listed = {}
    /\ NoQuery.then = {} /\ NoQuery.kind = None
  BY DEF NoQuery, AskFields

\* Its maps have the types of maps.
LEMMA BlankMaps ==
    [n \in NodeIds |-> 0] \in [NodeIds -> Nat] /\ [n \in NodeIds |-> NoNode] \in [NodeIds -> 0..MaxNodes]
  BY GraphAssumption DEF NoNode

\* A classification begins with the rows of its start in the queue.
LEMMA BeginClassifyKeeps ==
    ASSUME Inductive, BeginClassify
    PROVE  AskOK' /\ ask'.kind = "classify" /\ ask'.pc = "run" /\ Classifying({})'
<1>1. PICK start \in NodeIds, max \in Depths, follow \in Follows, types \in TypeFilters :
        /\ Exists(start)
        /\ Begin("classify", [NoQuery EXCEPT !.start = start, !.max = max, !.follow = follow,
                    !.types = types, !.queue = At(Seeds(edges, start, follow), 1)])
  BY DEF BeginClassify
<1> DEFINE Q == At(Seeds(edges, start, follow), 1)
           q == [NoQuery EXCEPT !.start = start, !.max = max, !.follow = follow, !.types = types, !.queue = Q]
           first == FirstAffected(edges, start, follow)
           next == ImpactNext(edges, follow)
           W == ImpactWalks(edges, start, follow, max)
<1>2. /\ edges \in SUBSET GraphEdge /\ \A e \in edges : Exists(e.from) /\ Exists(e.to)
  BY DEF Inductive, Typed, Tables
<1>3. max \in Nat
  BY QueryAssumption
<1>4. first = Seeds(edges, start, follow) /\ first \subseteq NodeIds /\ \A n \in first : Exists(n)
  <2>1. first = Seeds(edges, start, follow) /\ first \subseteq NodeIds
    BY <1>2, FirstAffectedIs
  <2>2. \A n \in first : Exists(n)
    BY <1>2 DEF FirstAffected
  <2>3. QED
    BY <2>1, <2>2
<1>5. \A p \in Q : p.node \in first /\ p.depth = 1 /\ p \in Entry
  BY <1>4 DEF At, Entry
<1>6. \A n \in first : \E p \in Q : p.node = n /\ p.depth = 1
  BY <1>4, AtIs
<1> HIDE DEF Q
<1>7. /\ DOMAIN ask' = AskFields /\ UNCHANGED <<node, edges>>
      /\ ask'.pc = "run" /\ ask'.kind = "classify" /\ ask'.then = edges /\ ask'.start = start /\ ask'.max = max
      /\ ask'.follow = follow /\ ask'.types = types /\ ask'.queue = Q /\ ask'.half = {} /\ ask'.visited = {}
      /\ ask'.depth = [n \in NodeIds |-> 0] /\ ask'.parent = [n \in NodeIds |-> NoNode]
  <2>1. Begin("classify", q)
    BY <1>1 DEF Q
  <2>2. /\ DOMAIN q = AskFields /\ q.start = start /\ q.max = max /\ q.follow = follow
        /\ q.types = types /\ q.queue = Q /\ q.half = {} /\ q.visited = {} /\ q.depth = [n \in NodeIds |-> 0] /\ q.parent = [n \in NodeIds |-> NoNode]
    BY NoQueryIs DEF AskFields
  <2> HIDE DEF q
  <2>3. QED
    BY <2>1, <2>2, BeginStep
<1>8. AskOK'
  BY <1>1, <1>3, <1>5, <1>7, BlankMaps, QueryAssumption DEF AskOK, Exists
<1>9. 1 <= max => W[1] = first
  <2>1. first \in SUBSET NodeIds /\ next \in Successors
    BY <1>2, <1>4, ImpactNextIs
  <2> HIDE DEF first, next
  <2>2. 1 <= max => Walks(first, next, max)[1] = first
    BY <1>3, <2>1, WalksGoOn
  <2>3. QED
    BY <2>2 DEF ImpactWalks, first, next
<1> HIDE DEF first, next, W
<1>10. Covered({}, Q, next, max) /\ Seeded({} \union Q, first, max)
  <2>1. Seeded({} \union Q, first, max)
    BY <1>6 DEF Seeded, Covers
  <2>2. Covered({}, Q, next, max)
    BY <1>5 DEF Covered
  <2>3. QED
    BY <2>1, <2>2
<1>11. \A p \in Q : Exists(p.node) /\ 1 <= p.depth /\ (p.depth <= max => p.node \in W[p.depth])
  BY <1>4, <1>5, <1>9
<1>12. HalfRead' /\ Q \union ask'.half = Q /\ {} \union ask'.half = {}
  BY <1>7 DEF HalfRead
<1>13. Classifying({})'
  BY <1>7, <1>10, <1>11, <1>12 DEF Classifying, Exists, first, next, W
<1>14. QED
  BY <1>7, <1>8, <1>13

\* A change of the graph leaves the traversal where it is.
LEMMA ChangeStep ==
    ASSUME Inductive, AskOK, Change
    PROVE  /\ ask'.pc = ask.pc /\ SameQuestion /\ SameSearch /\ DOMAIN ask' = AskFields
           /\ ask.pc \in {"idle", "run"}
           /\ edges \subseteq edges' /\ \A n : Exists(n) => Exists(n)' /\ node'[n] = node[n]
<1>1. edges \subseteq edges' /\ \A n : Exists(n) => Exists(n)' /\ node'[n] = node[n]
  BY GraphGrows DEF Change
<1>2. \/ ask.pc = "idle" /\ ask' = ask
      \/ ask.pc = "run" /\ ask' = [ask EXCEPT !.meanwhile = ask.meanwhile + 1]
  BY DEF Change
<1>3. QED
  BY <1>1, <1>2 DEF AskOK, AskFields, SameQuestion, SameSearch

\* What a traversal has recorded keeps its types while the graph grows.
LEMMA AskOKStays ==
    ASSUME Inductive, AskOK, Change
    PROVE  AskOK'
  BY ChangeStep DEF AskOK, SameQuestion, SameSearch

\* The walks grow with the graph, and nodes keep their types.
LEMMA ClassifyingStays ==
    ASSUME Inductive, Inductive', AskOK, NEW E, Classifying(E), ask.kind = "classify", Change
    PROVE  Classifying(E)'
<1>1. /\ SameQuestion /\ SameSearch /\ edges \subseteq edges'
      /\ \A n : Exists(n) => Exists(n)' /\ node'[n] = node[n]
  BY ChangeStep
<1>2. edges \in SUBSET GraphEdge /\ edges' \in SUBSET GraphEdge
  BY DEF Inductive, Typed
<1>3. ask.start \in NodeIds /\ ask.max \in Nat
  BY DEF AskOK, Exists
<1>4. \A k \in 1..ask.max : ImpactWalks(edges, ask.start, ask.follow, ask.max)[k]
                            \subseteq ImpactWalks(edges', ask.start, ask.follow, ask.max)[k]
  BY <1>1, <1>2, <1>3, MoreWalks
<1>5. E \subseteq Entry /\ ask.queue \union ask.half \subseteq Entry
  BY DEF Classifying, Covered
<1>6. \A p \in E \union (ask.queue \union ask.half) :
        /\ Exists(p.node)' /\ 1 <= p.depth
        /\ p.depth <= ask.max => p.node \in ImpactWalks(edges', ask.start, ask.follow, ask.max)[p.depth]
  <2> TAKE p \in E \union (ask.queue \union ask.half)
  <2>1. /\ Exists(p.node) /\ 1 <= p.depth /\ p.depth \in Nat
        /\ p.depth <= ask.max => p.node \in ImpactWalks(edges, ask.start, ask.follow, ask.max)[p.depth]
    BY <1>5 DEF Classifying, Entry
  <2>2. p.depth <= ask.max => p.depth \in 1..ask.max
    BY <1>3, <2>1
  <2>3. QED
    BY <1>1, <1>4, <2>1, <2>2
<1>7. \A e \in E \union ask.half : e.node \in Asked' => e.node \in Asked
  <2>1. \A e \in E \union ask.half : e.node \in NodeIds /\ node'[e.node] = node[e.node]
    BY <1>1 DEF Classifying, Exists
  <2>2. ask'.types = ask.types
    BY <1>1 DEF SameQuestion
  <2>3. QED
    BY <2>1, <2>2 DEF Asked
<1>8. HalfRead'
  BY <1>1 DEF Classifying, HalfRead, SameQuestion, SameSearch
<1>9. QED
  BY <1>1, <1>6, <1>7, <1>8 DEF Classifying, SameQuestion, SameSearch

\* What ending a search sets.
LEMMA ExhaustedStep ==
    ASSUME AskOK, Exhausted
    PROVE  /\ ask'.pc = "done" /\ SameQuestion /\ SameSearch /\ ask'.path = ask.path
           /\ DOMAIN ask' = AskFields /\ UNCHANGED <<node, edges>> /\ ask.pc = "run"
           /\ ask.queue = {} /\ ask.half = {} /\ ask.kind # "cycles"
<1>1. ask' = [ask EXCEPT !.pc = "done"] /\ ask.queue = {} /\ ask.half = {} /\ UNCHANGED <<node, edges>>
      /\ ask.pc = "run" /\ ask.kind # "cycles"
  BY DEF Exhausted, vars
<1>2. QED
  BY <1>1 DEF AskOK, AskFields, SameQuestion, SameSearch

\* When the queue is empty, everything was popped that there was a walk to.
LEMMA ClassifyAnswers ==
    ASSUME Inductive, AskOK, NEW E, Classifying(E), ask.kind = "classify", Exhausted
    PROVE  ImpactBracketed'
<1> DEFINE next == ImpactNext(ask.then, ask.follow)
           first == FirstAffected(ask.then, ask.start, ask.follow)
           before == ImpactWalks(ask.then, ask.start, ask.follow, ask.max)
           after == ImpactWalks(edges, ask.start, ask.follow, ask.max)
           max == ask.max
<1>1. /\ SameQuestion /\ SameSearch /\ UNCHANGED <<node, edges>>
      /\ ask.queue \union ask.half = {} /\ E \union ask.half = E
  BY ExhaustedStep
<1>2. ask.then \in SUBSET GraphEdge /\ max \in Nat /\ ask.depth \in [NodeIds -> Nat]
      /\ ask.visited \subseteq NodeIds
  BY GraphUnder DEF AskOK
<1>3. first \in SUBSET NodeIds /\ next \in Successors
  BY <1>2, ImpactNextIs DEF FirstAffected
<1>4. before = Walks(first, next, max)
  BY DEF ImpactWalks
<1>5. Covered(E, {}, next, max) /\ Seeded(E \union {}, first, max) /\ E \subseteq Entry
  BY <1>1 DEF Classifying, Covered
<1>6. \A m \in ask.visited : [node |-> m, depth |-> ask.depth[m]] \in E /\ ask.depth[m] <= max
  BY <1>1 DEF Classifying
<1>7. \A p \in E : 1 <= p.depth /\ (p.depth <= max => p.node \in after[p.depth])
  BY DEF Classifying
<1>8. \A e \in E : e.depth <= max /\ e.node \in Asked =>
        e.node \in ask.visited /\ ask.depth[e.node] <= e.depth
  BY <1>1 DEF Classifying
<1>9. \A m \in NodeIds : ask.depth[m] # 0 => m \in ask.visited
  BY DEF Classifying
<1> HIDE DEF first, next, before, after
<1>10. \A m \in ask.visited : 1 <= ask.depth[m] /\ m \in after[ask.depth[m]]
  <2> TAKE m \in ask.visited
  <2> DEFINE p == [node |-> m, depth |-> ask.depth[m]]
  <2>1. p \in E /\ p.node = m /\ p.depth = ask.depth[m] /\ ask.depth[m] <= max
    BY <1>6
  <2> HIDE DEF p
  <2>2. QED
    BY <1>7, <2>1
<1>11. ASSUME NEW k \in 1..max, NEW n \in before[k] \intersect Asked
       PROVE  ask.depth[n] \in 1..k
  <2>1. Covers(E \union {}, n, k)
    BY <1>2, <1>3, <1>4, <1>5, WalksCovered
  <2>2. PICK e \in E : e.node = n /\ e.depth <= k
    BY <2>1 DEF Covers
  <2>3. e.depth \in Nat /\ e.depth <= max
    BY <1>5, <2>2, <1>2 DEF Entry
  <2>4. n \in ask.visited /\ ask.depth[n] <= e.depth
    BY <1>8, <2>2, <2>3
  <2>5. ask.depth[n] \in Nat /\ 1 <= ask.depth[n]
    BY <1>2, <1>10, <2>4
  <2>6. QED
    BY <2>2, <2>3, <2>4, <2>5
<1>12. \A n \in NodeIds : ask.depth[n] # 0 => ask.depth[n] <= max /\ n \in after[ask.depth[n]]
  BY <1>6, <1>9, <1>10
<1>13. /\ ask'.depth = ask.depth /\ ask'.max = max /\ ask'.start = ask.start /\ ask'.follow = ask.follow
       /\ ask'.then = ask.then /\ Asked' = Asked
  BY <1>1 DEF SameQuestion, SameSearch, Asked
<1>14. QED
  BY <1>1, <1>11, <1>12, <1>13 DEF ImpactBracketed, before, after

-----------------------------------------------------------------------------
(* Reachability.  E holds the entries that were popped, but for those of nodes *)
(* of other types.                                                           *)

Reaching(E) ==
    /\ Covered(E, ask.queue, OutNext(ask.then, ask.follow, Asked), ask.max)
    /\ Seeded(E \union ask.queue, OutNext(ask.then, ask.follow, Asked)[ask.start], ask.max)
    /\ \A p \in E \union ask.queue :
        /\ Exists(p.node) /\ 1 <= p.depth
        /\ p.depth <= ask.max /\ p.node \in Asked =>
            p.node \in OutWalks(edges, ask.start, ask.follow, Asked, ask.max)[p.depth]
    /\ \A m \in ask.visited :
        \/ m = ask.start /\ ask.include_start
        \/ m \in Asked /\ \E e \in E : e.node = m /\ e.depth <= ask.max
    /\ ask.start \in ask.visited => ask.include_start
    /\ \A e \in E : e.depth <= ask.max => e.node \in ask.visited \union {ask.start}

\* What a turn of its loop sets.
LEMMA ReachStep ==
    ASSUME AskOK, Reach
    PROVE  /\ ask.kind = "reachable" /\ ask'.pc = "run" /\ SameQuestion /\ DOMAIN ask' = AskFields
           /\ ask'.parent = ask.parent /\ ask'.depth = ask.depth
           /\ \E x : Nearest(x) /\
                LET skip == \/ x.node = ask.start /\ ~ask.include_start
                            \/ x.depth > ask.max
                            \/ node[x.node].type \notin ask.types
                            \/ x.node \in ask.visited
                    next == IF skip \/ x.depth >= ask.max THEN {}
                            ELSE At(Outgoing(edges, x.node, ask.follow), x.depth + 1) IN
                /\ ask'.queue = (ask.queue \ {x}) \union next
                /\ ask'.visited = IF skip THEN ask.visited ELSE ask.visited \union {x.node}
<1>1. ask.kind = "reachable" /\ ask.pc = "run" /\ DOMAIN ask = AskFields
  BY DEF AskOK, Reach
<1>2. PICK x \in Popped :
        LET skip == \/ x.node = ask.start /\ ~ask.include_start
                    \/ x.depth > ask.max
                    \/ node[x.node].type \notin ask.types
                    \/ x.node \in ask.visited
            next == IF skip \/ x.depth >= ask.max THEN {}
                    ELSE At(Outgoing(edges, x.node, ask.follow), x.depth + 1) IN
        ask' = [ask EXCEPT !.queue = (@ \ {x}) \union next,
                           !.visited = IF skip THEN @ ELSE @ \union {x.node}]
  BY DEF Reach
<1> DEFINE skip == \/ x.node = ask.start /\ ~ask.include_start
                   \/ x.depth > ask.max
                   \/ node[x.node].type \notin ask.types
                   \/ x.node \in ask.visited
           next == IF skip \/ x.depth >= ask.max THEN {}
                   ELSE At(Outgoing(edges, x.node, ask.follow), x.depth + 1)
           vis == IF skip THEN ask.visited ELSE ask.visited \union {x.node}
           q == (ask.queue \ {x}) \union next
<1>3. ask' = [ask EXCEPT !.queue = q, !.visited = vis]
  BY <1>2
<1>4. Nearest(x)
  BY <1>2 DEF Popped, Nearest
<1> HIDE DEF q, vis
<1>5. /\ ask'.pc = "run" /\ SameQuestion /\ DOMAIN ask' = AskFields /\ ask'.parent = ask.parent
      /\ ask'.depth = ask.depth /\ ask'.queue = q /\ ask'.visited = vis
  BY <1>1, <1>3 DEF SameQuestion, AskFields
<1>6. QED
  BY <1>1, <1>4, <1>5 DEF q, vis

\* Of a node of another type the entry is dropped; any other was expanded, now
\* or before, if it lies within the limit.
LEMMA ReachKeeps ==
    ASSUME Inductive, AskOK, NEW E, Reaching(E), Reach
    PROVE  AskOK' /\ \E F \in SUBSET Entry : Reaching(F)'
<1>1. /\ ask'.pc = "run" /\ SameQuestion /\ DOMAIN ask' = AskFields /\ ask'.parent = ask.parent
      /\ ask'.depth = ask.depth /\ ask.kind = "reachable" /\ UNCHANGED <<node, edges>>
  BY ReachStep DEF Reach, vars
<1>2. PICK x : Nearest(x) /\
        LET skip == \/ x.node = ask.start /\ ~ask.include_start
                    \/ x.depth > ask.max
                    \/ node[x.node].type \notin ask.types
                    \/ x.node \in ask.visited
            next == IF skip \/ x.depth >= ask.max THEN {}
                    ELSE At(Outgoing(edges, x.node, ask.follow), x.depth + 1) IN
        /\ ask'.queue = (ask.queue \ {x}) \union next
        /\ ask'.visited = IF skip THEN ask.visited ELSE ask.visited \union {x.node}
  BY ReachStep
<1> DEFINE skip == \/ x.node = ask.start /\ ~ask.include_start
                   \/ x.depth > ask.max
                   \/ node[x.node].type \notin ask.types
                   \/ x.node \in ask.visited
           new == IF skip \/ x.depth >= ask.max THEN {}
                  ELSE At(Outgoing(edges, x.node, ask.follow), x.depth + 1)
           next == OutNext(ask.then, ask.follow, Asked)
           W == OutWalks(edges, ask.start, ask.follow, Asked, ask.max)
           max == ask.max
           Q == ask.queue
           F == E \union {x}
<1>3. /\ x \in Q /\ (\A y \in Q : x.depth <= y.depth) /\ x \in Entry /\ x.node \in NodeIds
      /\ x.depth \in Nat /\ max \in Nat /\ E \subseteq Entry /\ Q \subseteq Entry
      /\ Covered(E, Q, next, max) /\ Seeded(E \union Q, next[ask.start], max)
      /\ ask.visited \subseteq NodeIds /\ ask.start \in NodeIds
  BY <1>1, <1>2 DEF Nearest, Reaching, Covered, AskOK, Entry, Exists
<1>4. /\ edges \in SUBSET GraphEdge /\ ask.then \in SUBSET GraphEdge /\ ask.then \subseteq edges
      /\ \A e \in edges : Exists(e.from) /\ Exists(e.to)
      /\ Asked \in SUBSET NodeIds
  BY GraphUnder DEF AskOK
<1>5. /\ next \in Successors /\ \A m \in NodeIds : next[m] \subseteq Asked
      /\ next[x.node] \subseteq Outgoing(edges, x.node, ask.follow)
  <2>1. /\ next \in Successors /\ \A m \in NodeIds : next[m] = Outgoing(ask.then, m, ask.follow) \intersect Asked
    BY <1>4, OutNextIs
  <2>2. Outgoing(ask.then, x.node, ask.follow) \subseteq Outgoing(edges, x.node, ask.follow)
    BY <1>4 DEF Outgoing
  <2> HIDE DEF next
  <2>3. QED
    BY <1>3, <2>1, <2>2
<1>6. \A n \in Outgoing(edges, x.node, ask.follow) : Exists(n) /\ n \in NodeIds
  BY <1>4 DEF Outgoing, Exists
<1>7. ASSUME ~skip, x.depth < max, NEW n \in Outgoing(edges, x.node, ask.follow), n \in Asked
      PROVE  n \in W[x.depth + 1]
  <2>1. x.node \in Asked /\ x.node \in W[x.depth] /\ x.depth \in 1..max
    <3>1. x.node \in Asked
      BY <1>3, <1>7 DEF Asked
    <3>2. 1 <= x.depth /\ x.depth <= max
      BY <1>3, <1>7 DEF Reaching
    <3>3. QED
      BY <1>3, <3>1, <3>2 DEF Reaching
  <2> DEFINE g == OutNext(edges, ask.follow, Asked)
  <2>2. g \in Successors /\ n \in g[x.node]
    <3>1. g[x.node] = Outgoing(edges, x.node, ask.follow) \intersect Asked
      BY <1>3, <1>4, OutNextIs
    <3>2. g \in Successors
      BY <1>4, OutNextIs
    <3>3. QED
      BY <1>7, <3>1, <3>2
  <2>3. W = Walks(g[ask.start], g, max)
    BY DEF OutWalks
  <2> HIDE DEF g, W
  <2>4. g[ask.start] \in SUBSET NodeIds
    BY <1>3, <2>2 DEF Successors
  <2>5. g[x.node] \subseteq W[x.depth + 1]
    BY <1>3, <1>7, <2>1, <2>2, <2>3, <2>4, WalksGoOn
  <2>6. QED
    BY <2>2, <2>5
<1>8. /\ new \in SUBSET Entry /\ \A p \in new : p.depth = x.depth + 1
      /\ \A p \in new : Exists(p.node) /\ (p.node \in Asked => p.node \in W[p.depth])
  <2>1. CASE ~skip /\ x.depth < max
    <3>1. new = At(Outgoing(edges, x.node, ask.follow), x.depth + 1)
      BY <1>3, <2>1
    <3>2. \A p \in new : p.node \in Outgoing(edges, x.node, ask.follow) /\ p.depth = x.depth + 1
                         /\ p = [node |-> p.node, depth |-> x.depth + 1]
      BY <3>1, AtIs
    <3> HIDE DEF new, W, skip
    <3>3. QED
      BY <1>3, <1>6, <1>7, <2>1, <3>2 DEF Entry
  <2>2. CASE ~(~skip /\ x.depth < max)
    <3>1. new = {}
      BY <1>3, <2>2
    <3>2. QED
      BY <3>1
  <2>3. QED
    BY <2>1, <2>2
<1> HIDE DEF next, W
<1>9. x.node \in Asked /\ x.depth < max =>
        \A n \in next[x.node] : Covers(E \union Q \union new, n, x.depth + 1)
  <2> SUFFICES ASSUME x.node \in Asked, x.depth < max, NEW n \in next[x.node]
               PROVE  Covers(E \union Q \union new, n, x.depth + 1)
    OBVIOUS
  <2>0. x.depth < max /\ x.node \in Asked
    OBVIOUS
  <2>1. CASE x.node = ask.start
    <3>0. 1 <= max
      BY <1>3, <2>0
    <3>1. Covers(E \union Q, n, 1)
      BY <1>3, <2>1, <3>0 DEF Seeded
    <3>2. PICK p \in E \union Q : p.node = n /\ p.depth <= 1
      BY <3>1 DEF Covers
    <3>3. p.depth \in Nat
      BY <1>3 DEF Entry
    <3>4. p.depth <= x.depth + 1
      BY <1>3, <3>2, <3>3
    <3>5. QED
      BY <3>2, <3>4 DEF Covers
  <2>2. CASE x.node # ask.start /\ x.node \in ask.visited
    <3>1. PICK e \in E : e.node = x.node
      BY <2>2 DEF Reaching
    <3>2. e.depth \in Nat /\ e.depth <= x.depth /\ e.depth < max
      BY <1>3, <3>1 DEF Covered, Entry
    <3>3. PICK p \in E \union Q : p.node = n /\ p.depth <= e.depth + 1
      BY <1>3, <3>1, <3>2 DEF Covered, Covers
    <3>4. p.depth \in Nat
      BY <1>3 DEF Entry
    <3>5. p.depth <= x.depth + 1
      BY <1>3, <3>2, <3>3, <3>4
    <3>6. QED
      BY <3>3, <3>5 DEF Covers
  <2>3. CASE x.node # ask.start /\ x.node \notin ask.visited
    <3>1. ~skip
      BY <1>3, <2>3 DEF Asked
    <3>2. new = At(Outgoing(edges, x.node, ask.follow), x.depth + 1)
      BY <1>3, <3>1
    <3> HIDE DEF new
    <3>3. PICK p \in new : p.node = n /\ p.depth = x.depth + 1
      BY <1>5, <3>2, AtIs
    <3>4. p.depth <= x.depth + 1
      BY <1>3, <3>3
    <3>5. QED
      BY <3>3, <3>4 DEF Covers
  <2>4. QED
    BY <2>1, <2>2, <2>3
<1>10. ask'.queue = (Q \ {x}) \union new /\ ask'.visited = IF skip THEN ask.visited ELSE ask.visited \union {x.node}
  BY <1>2
<1>11. skip => new = {}
  OBVIOUS
<1> HIDE DEF new
<1>12. /\ ask'.max = max /\ ask'.start = ask.start /\ ask'.follow = ask.follow /\ ask'.then = ask.then
       /\ ask'.types = ask.types /\ ask'.kind = ask.kind /\ ask'.include_start = ask.include_start
       /\ Asked' = Asked
  BY <1>1 DEF SameQuestion, Asked
<1>13. ask'.visited \subseteq NodeIds /\ ask'.queue \subseteq Entry
  BY <1>3, <1>8, <1>10
<1>14. AskOK'
  BY <1>1, <1>12, <1>13 DEF AskOK, Exists
<1>15. \A p \in E \union Q : Exists(p.node) /\ 1 <= p.depth /\ (p.depth <= max /\ p.node \in Asked => p.node \in W[p.depth])
  BY DEF Reaching, W
<1>16. /\ \A m \in ask.visited :
            \/ m = ask.start /\ ask.include_start
            \/ m \in Asked /\ \E e \in E : e.node = m /\ e.depth <= max
       /\ ask.start \in ask.visited => ask.include_start
       /\ \A e \in E : e.depth <= max => e.node \in ask.visited \union {ask.start}
  BY DEF Reaching
<1>17. CASE x.node \notin Asked
  <2>1. skip
    BY <1>3, <1>17 DEF Asked
  <2>2. ask'.queue = Q \ {x} /\ ask'.visited = ask.visited
    BY <1>10, <1>11, <2>1
  <2> HIDE DEF skip
  <2>3. x.node \notin next[ask.start] /\ \A e \in E : x.node \notin next[e.node]
    BY <1>3, <1>5, <1>17 DEF Entry
  <2>4. Covered(E, ask'.queue, next, max) /\ Seeded(E \union ask'.queue, next[ask.start], max)
    <3>1. Covered(E, Q \ {x}, next, max) /\ Seeded(E \union (Q \ {x}), next[ask.start], max)
      BY <1>3, <2>3, Pass
    <3>2. QED
      BY <2>2, <3>1
  <2>5. Reaching(E)'
    BY <1>1, <1>12, <1>15, <1>16, <2>2, <2>4 DEF Reaching, Exists, next, W
  <2>6. QED
    BY <1>3, <1>14, <2>5
<1>18. CASE x.node \in Asked
  <2>1. /\ Covered(F, ask'.queue, next, max) /\ F \union ask'.queue = E \union Q \union new
        /\ F \subseteq Entry
    <3>1. \A q \in new : q.depth = x.depth + 1
      BY <1>8
    <3>2. /\ Covered(E \union {x}, (Q \ {x}) \union new, next, max)
          /\ (E \union {x}) \union ((Q \ {x}) \union new) = E \union Q \union new
      BY <1>3, <1>8, <1>9, <1>18, <3>1, Expand
    <3>3. QED
      BY <1>3, <1>10, <3>2
  <2>2. Seeded(F \union ask'.queue, next[ask.start], max)
    BY <1>3, <2>1, SeededStays
  <2>3. \A p \in F \union ask'.queue :
          Exists(p.node) /\ 1 <= p.depth /\ (p.depth <= max /\ p.node \in Asked => p.node \in W[p.depth])
    <3>1. \A p \in new : 1 <= p.depth
      BY <1>3, <1>8
    <3>2. QED
      BY <1>8, <1>15, <2>1, <3>1
  <2>4. /\ \A m \in ask'.visited :
            \/ m = ask.start /\ ask.include_start
            \/ m \in Asked /\ \E e \in F : e.node = m /\ e.depth <= max
        /\ ask.start \in ask'.visited => ask.include_start
        /\ \A e \in F : e.depth <= max => e.node \in ask'.visited \union {ask.start}
    <3>1. CASE skip
      <4>1. x.depth <= max => x.node \in ask.visited \union {ask.start}
        BY <1>3, <1>18, <3>1 DEF Asked
      <4>2. ask'.visited = ask.visited
        BY <1>10, <3>1
      <4> HIDE DEF skip
      <4>3. QED
        BY <1>16, <4>1, <4>2
    <3>2. CASE ~skip
      <4>1. x.depth <= max /\ (x.node = ask.start => ask.include_start)
        BY <1>3, <3>2
      <4>2. ask'.visited = ask.visited \union {x.node}
        BY <1>10, <3>2
      <4> HIDE DEF skip
      <4>3. QED
        BY <1>16, <1>18, <4>1, <4>2
    <3>3. QED
      BY <3>1, <3>2
  <2>5. Reaching(F)'
    BY <1>1, <1>12, <2>1, <2>2, <2>3, <2>4 DEF Reaching, Exists, next, W
  <2>6. QED
    BY <1>14, <2>1, <2>5
<1>19. QED
  BY <1>17, <1>18

\* A reachability search begins with the rows of its start in the queue.
LEMMA BeginReachableKeeps ==
    ASSUME Inductive, BeginReachable
    PROVE  AskOK' /\ ask'.kind = "reachable" /\ ask'.pc = "run" /\ Reaching({})'
<1>1. PICK start \in NodeIds, max \in Depths, follow \in Follows, types \in TypeFilters, inc \in BOOLEAN :
        /\ Exists(start)
        /\ Begin("reachable", [NoQuery EXCEPT !.start = start, !.max = max, !.follow = follow,
                    !.types = types, !.include_start = inc,
                    !.visited = IF inc THEN {start} ELSE {},
                    !.queue = At(Outgoing(edges, start, follow), 1)])
  BY DEF BeginReachable
<1> DEFINE Q == At(Outgoing(edges, start, follow), 1)
           vis == IF inc THEN {start} ELSE {}
           q == [NoQuery EXCEPT !.start = start, !.max = max, !.follow = follow, !.types = types,
                                !.include_start = inc, !.visited = vis, !.queue = Q]
           ok == {n \in NodeIds : node[n].type \in types}
           next == OutNext(edges, follow, ok)
           W == OutWalks(edges, start, follow, ok, max)
<1>2. /\ edges \in SUBSET GraphEdge /\ \A e \in edges : Exists(e.from) /\ Exists(e.to)
  BY DEF Inductive, Typed, Tables
<1>3. max \in Nat
  BY QueryAssumption
<1>4. \A n \in Outgoing(edges, start, follow) : Exists(n) /\ n \in NodeIds
  BY <1>2 DEF Outgoing, Exists
<1>5. next \in Successors /\ next[start] = Outgoing(edges, start, follow) \intersect ok
  BY OutNextIs
<1>6. \A p \in Q : p.node \in Outgoing(edges, start, follow) /\ p.depth = 1 /\ p \in Entry
  BY <1>4 DEF At, Entry
<1>7. \A n \in Outgoing(edges, start, follow) : \E p \in Q : p.node = n /\ p.depth = 1
  BY AtIs
<1> HIDE DEF Q
<1>8. /\ DOMAIN ask' = AskFields /\ UNCHANGED <<node, edges>>
      /\ ask'.pc = "run" /\ ask'.kind = "reachable" /\ ask'.then = edges /\ ask'.start = start /\ ask'.max = max
      /\ ask'.follow = follow /\ ask'.types = types /\ ask'.queue = Q /\ ask'.visited = vis
      /\ ask'.include_start = inc
      /\ ask'.depth = [n \in NodeIds |-> 0] /\ ask'.parent = [n \in NodeIds |-> NoNode]
  <2>1. Begin("reachable", q)
    BY <1>1 DEF Q
  <2> HIDE DEF vis
  <2>2. /\ DOMAIN q = AskFields /\ q.start = start /\ q.max = max /\ q.follow = follow
        /\ q.types = types /\ q.queue = Q /\ q.visited = vis /\ q.include_start = inc
        /\ q.depth = [n \in NodeIds |-> 0] /\ q.parent = [n \in NodeIds |-> NoNode]
    BY NoQueryIs DEF AskFields
  <2> HIDE DEF q
  <2>3. QED
    BY <2>1, <2>2, BeginStep
<1>9. AskOK'
  BY <1>1, <1>3, <1>6, <1>8, BlankMaps, QueryAssumption DEF AskOK, Exists
<1>10. 1 <= max => W[1] = next[start]
  <2> HIDE DEF next
  <2>1. next[start] \in SUBSET NodeIds
    BY <1>5 DEF Successors
  <2>2. 1 <= max => Walks(next[start], next, max)[1] = next[start]
    BY <1>3, <1>5, <2>1, WalksGoOn
  <2>3. QED
    BY <2>2 DEF OutWalks, next
<1>11. Asked' = ok
  BY <1>8 DEF Asked
<1> HIDE DEF next, W, ok
<1>12. Covered({}, Q, next, max) /\ Seeded({} \union Q, next[start], max)
  <2>1. Seeded({} \union Q, next[start], max)
    BY <1>5, <1>7 DEF Seeded, Covers
  <2>2. Covered({}, Q, next, max)
    BY <1>6 DEF Covered
  <2>3. QED
    BY <2>1, <2>2
<1>13. \A p \in Q : Exists(p.node) /\ 1 <= p.depth /\ (p.depth <= max /\ p.node \in ok => p.node \in W[p.depth])
  BY <1>4, <1>5, <1>6, <1>10
<1>14. Reaching({})'
  BY <1>8, <1>11, <1>12, <1>13 DEF Reaching, Exists, next, W
<1>15. QED
  BY <1>8, <1>9, <1>14

\* The nodes that were there keep their types, and what is added is not walked
\* to in the graph the search began with.
LEMMA AskedStays ==
    ASSUME Inductive, AskOK, Change
    PROVE  /\ Asked \subseteq Asked' /\ \A n : Exists(n) /\ n \in Asked' => n \in Asked
           /\ OutNext(ask.then, ask.follow, Asked') = OutNext(ask.then, ask.follow, Asked)
<1>1. /\ SameQuestion /\ \A n : Exists(n) => Exists(n)' /\ node'[n] = node[n]
  BY ChangeStep
<1>2. \A n \in Asked : Exists(n)
  <2>1. ask.types \subseteq NodeTypes
    BY DEF AskOK
  <2>2. None \notin NodeTypes
    BY DEF None, NodeTypes
  <2>3. QED
    BY <2>1, <2>2 DEF Asked, Exists
<1>3. Asked \subseteq Asked' /\ \A n : Exists(n) /\ n \in Asked' => n \in Asked
  BY <1>1, <1>2 DEF Asked, SameQuestion
<1>4. \A e \in ask.then : Exists(e.to)
  BY GraphUnder DEF AskOK
<1>5. OutNext(ask.then, ask.follow, Asked') = OutNext(ask.then, ask.follow, Asked)
  BY <1>3, <1>4 DEF OutNext
<1>6. QED
  BY <1>3, <1>5

\* The walks grow with the graph, and nodes keep their types.
LEMMA ReachingStays ==
    ASSUME Inductive, Inductive', AskOK, NEW E, Reaching(E), ask.kind = "reachable", Change
    PROVE  Reaching(E)'
<1> DEFINE next == OutNext(ask.then, ask.follow, Asked)
           W == OutWalks(edges, ask.start, ask.follow, Asked, ask.max)
           V == OutWalks(edges', ask.start, ask.follow, Asked', ask.max)
           max == ask.max
<1>1. /\ SameQuestion /\ SameSearch /\ edges \subseteq edges'
      /\ \A n : Exists(n) => Exists(n)' /\ node'[n] = node[n]
  BY ChangeStep
<1>2. edges \in SUBSET GraphEdge /\ edges' \in SUBSET GraphEdge
  BY DEF Inductive, Typed
<1>3. ask.start \in NodeIds /\ max \in Nat
  BY DEF AskOK, Exists
<1>4. /\ Asked \subseteq Asked' /\ \A n : Exists(n) /\ n \in Asked' => n \in Asked
      /\ OutNext(ask.then, ask.follow, Asked') = next
  BY AskedStays
<1>5. Asked \in SUBSET NodeIds /\ Asked' \in SUBSET NodeIds
  BY DEF Asked
<1>6. \A k \in 1..max : W[k] \subseteq V[k]
  BY <1>1, <1>2, <1>3, <1>4, <1>5, MoreWalks
<1>7. E \subseteq Entry /\ ask.queue \subseteq Entry
  BY DEF Reaching, Covered
<1>8. \A p \in E \union ask.queue :
        Exists(p.node) /\ 1 <= p.depth /\ (p.depth <= max /\ p.node \in Asked => p.node \in W[p.depth])
  BY DEF Reaching
<1> HIDE DEF W, V
<1>9. \A p \in E \union ask.queue :
        Exists(p.node)' /\ 1 <= p.depth /\ (p.depth <= max /\ p.node \in Asked' => p.node \in V[p.depth])
  <2> TAKE p \in E \union ask.queue
  <2>1. p.depth \in Nat /\ 1 <= p.depth
    BY <1>7, <1>8 DEF Entry
  <2>2. p.depth <= max => p.depth \in 1..max
    BY <1>3, <2>1
  <2>3. QED
    BY <1>1, <1>4, <1>6, <1>8, <2>1, <2>2
<1>10. /\ Covered(E, ask.queue, next, max) /\ Seeded(E \union ask.queue, next[ask.start], max)
       /\ \A m \in ask.visited :
            \/ m = ask.start /\ ask.include_start
            \/ m \in Asked /\ \E e \in E : e.node = m /\ e.depth <= max
       /\ ask.start \in ask.visited => ask.include_start
       /\ \A e \in E : e.depth <= max => e.node \in ask.visited \union {ask.start}
  BY DEF Reaching
<1>11. /\ ask'.max = max /\ ask'.start = ask.start /\ ask'.follow = ask.follow /\ ask'.then = ask.then
       /\ ask'.include_start = ask.include_start /\ ask'.visited = ask.visited /\ ask'.queue = ask.queue
  BY <1>1 DEF SameQuestion, SameSearch
<1>12. OutNext(ask'.then, ask'.follow, Asked') = next
  BY <1>4, <1>11
<1>13. OutWalks(edges', ask'.start, ask'.follow, Asked', ask'.max) = V
  BY <1>11 DEF V
<1> HIDE DEF next
<1>14. \A m \in ask.visited :
            \/ m = ask.start /\ ask.include_start
            \/ m \in Asked' /\ \E e \in E : e.node = m /\ e.depth <= max
  BY <1>4, <1>10
<1>15. QED
  BY <1>9, <1>10, <1>11, <1>12, <1>13, <1>14 DEF Reaching

\* When the queue is empty, everything was visited that there was a walk to, and
\* there is a walk to everything that was visited.
LEMMA ReachAnswers ==
    ASSUME Inductive, AskOK, NEW E, Reaching(E), ask.kind = "reachable", Exhausted
    PROVE  ReachableBracketed'
<1> DEFINE next == OutNext(ask.then, ask.follow, Asked)
           before == OutWalks(ask.then, ask.start, ask.follow, Asked, ask.max)
           after == OutWalks(edges, ask.start, ask.follow, Asked, ask.max)
           self == IF ask.include_start THEN {ask.start} ELSE {}
           max == ask.max
<1>1. /\ SameQuestion /\ SameSearch /\ UNCHANGED <<node, edges>> /\ ask.queue = {}
  BY ExhaustedStep
<1>2. max \in Nat /\ Asked \in SUBSET NodeIds /\ ask.start \in NodeIds
  BY GraphUnder DEF AskOK, Exists
<1>3. next \in Successors /\ before = Walks(next[ask.start], next, max)
  BY <1>2, OutNextIs DEF OutWalks
<1>4. Covered(E, {}, next, max) /\ Seeded(E \union {}, next[ask.start], max) /\ E \subseteq Entry
  BY <1>1 DEF Reaching, Covered
<1>5. \A p \in E : 1 <= p.depth /\ (p.depth <= max /\ p.node \in Asked => p.node \in after[p.depth])
  BY DEF Reaching
<1>6. /\ \A m \in ask.visited :
            \/ m = ask.start /\ ask.include_start
            \/ m \in Asked /\ \E e \in E : e.node = m /\ e.depth <= max
      /\ ask.start \in ask.visited => ask.include_start
      /\ \A e \in E : e.depth <= max => e.node \in ask.visited \union {ask.start}
  BY DEF Reaching
<1> HIDE DEF next, before, after
<1>7. ASSUME NEW k \in 1..max, NEW n \in before[k]
      PROVE  n \in ask.visited \union {ask.start}
  <2>1. next[ask.start] \in SUBSET NodeIds
    BY <1>2, <1>3 DEF Successors
  <2>2. Covers(E \union {}, n, k)
    BY <1>2, <1>3, <1>4, <1>7, <2>1, WalksCovered
  <2>3. PICK e \in E : e.node = n /\ e.depth <= k
    BY <2>2 DEF Covers
  <2>4. e.depth <= max
    BY <1>2, <1>4, <2>3 DEF Entry
  <2>5. QED
    BY <1>6, <2>3, <2>4
<1>8. ASSUME NEW m \in ask.visited
      PROVE  m \in self \union UNION {after[k] : k \in 1..max}
  <2>1. CASE m = ask.start /\ ask.include_start
    BY <2>1
  <2>2. CASE m \in Asked /\ \E e \in E : e.node = m /\ e.depth <= max
    <3>1. PICK e \in E : e.node = m /\ e.depth <= max
      BY <2>2
    <3>2. e.depth \in 1..max /\ m \in after[e.depth]
      BY <1>2, <1>4, <1>5, <2>2, <3>1 DEF Entry
    <3>3. QED
      BY <3>2
  <2>3. QED
    BY <1>6, <2>1, <2>2
<1>9. /\ ask'.max = max /\ ask'.start = ask.start /\ ask'.follow = ask.follow /\ ask'.then = ask.then
      /\ ask'.visited = ask.visited /\ ask'.include_start = ask.include_start /\ Asked' = Asked
  BY <1>1 DEF SameQuestion, SameSearch, Asked
<1>10. /\ self \union UNION {before[k] : k \in 1..max} \subseteq ask.visited \union {ask.start}
       /\ ask.visited \subseteq self \union UNION {after[k] : k \in 1..max}
  BY <1>7, <1>8
<1>11. /\ before = OutWalks(ask'.then, ask'.start, ask'.follow, Asked', ask'.max)
       /\ after = OutWalks(edges', ask'.start, ask'.follow, Asked', ask'.max)
       /\ self = IF ask'.include_start THEN {ask'.start} ELSE {}
  BY <1>1, <1>9 DEF before, after
<1> HIDE DEF self
<1>12. QED
  BY <1>6, <1>9, <1>10, <1>11 DEF ReachableBracketed

-----------------------------------------------------------------------------
(* Paths.  The entries P of a search carry a parent each, but for the one of  *)
(* the source.                                                               *)

Traced(P, parent, source, next) ==
    /\ P \subseteq Entry
    /\ \A p, q \in P : p.node = q.node => p.depth = q.depth
    /\ \A p \in P : p.node = source <=> p.depth = 0
    /\ \A p \in P : 1 <= p.depth =>
        \E r \in P : r.node = parent[p.node] /\ r.depth + 1 = p.depth /\ p.node \in next[r.node]

\* Every depth up to that of an entry has a node of its own.
LEMMA DepthBelow ==
    ASSUME NEW P, NEW parent, NEW source, NEW next, Traced(P, parent, source, next), NEW t \in P
    PROVE  t.depth \in Nat /\ t.depth < MaxNodes
<1> DEFINE d == t.depth
           T == {j \in Nat : j <= d => \E p \in P : p.depth + j = d}
<1>1. \A p \in P : p.node \in NodeIds /\ p.depth \in Nat
  BY DEF Traced, Entry
<1>2. 0 \in T
  BY <1>1
<1>3. \A j \in T : j + 1 \in T
  <2> TAKE j \in T
  <2> SUFFICES ASSUME j + 1 <= d PROVE \E p \in P : p.depth + (j + 1) = d
    OBVIOUS
  <2>0. j \in Nat /\ d \in Nat
    BY <1>1
  <2>1. PICK p \in P : p.depth + j = d
    BY <2>0
  <2>2. 1 <= p.depth
    BY <1>1, <2>0, <2>1
  <2>3. PICK r \in P : r.depth + 1 = p.depth
    BY <2>2 DEF Traced
  <2>4. r.depth + (j + 1) = d
    BY <1>1, <2>0, <2>1, <2>3
  <2>5. QED
    BY <2>4
<1>4. T = Nat
  <2> HIDE DEF T
  <2>1. T \in SUBSET Nat
    BY DEF T
  <2>2. QED
    BY <1>2, <1>3, <2>1, AllNaturals
<1>5. \A l \in 0..d : \E n \in NodeIds : \E p \in P : p.node = n /\ p.depth = l
  <2> TAKE l \in 0..d
  <2>1. d - l \in Nat /\ d - l <= d /\ d \in Nat
    BY <1>1
  <2>2. PICK p \in P : p.depth + (d - l) = d
    BY <1>4, <2>1
  <2>3. p.depth = l
    BY <1>1, <2>1, <2>2
  <2>4. QED
    BY <1>1, <2>3
<1> DEFINE at == [l \in 0..d |-> CHOOSE n \in NodeIds : \E p \in P : p.node = n /\ p.depth = l]
<1>6. \A l \in 0..d : at[l] \in NodeIds /\ \E p \in P : p.node = at[l] /\ p.depth = l
  BY <1>5
<1>7. at \in [0..d -> NodeIds]
  BY <1>6
<1> HIDE DEF at, T
<1>8. \A k, l \in 0..d : at[k] = at[l] => k = l
  BY <1>6 DEF Traced
<1>9. d \in Nat /\ MaxNodes \in Nat
  BY <1>1, GraphAssumption
<1>10. IsFiniteSet(0..d) /\ Cardinality(0..d) = d + 1 /\ IsFiniteSet(NodeIds) /\ Cardinality(NodeIds) = MaxNodes
  <2>1. IsFiniteSet(0..d) /\ Cardinality(0..d) = d + 1
    <3>1. 0 \in Int /\ d \in Int /\ ~(0 > d)
      BY <1>9
    <3>2. QED
      BY <1>9, <3>1, FS_Interval
  <2>2. IsFiniteSet(1..MaxNodes) /\ Cardinality(1..MaxNodes) = MaxNodes
    <3>1. 1 \in Int /\ MaxNodes \in Int /\ (1 > MaxNodes => MaxNodes = 0)
      BY <1>9
    <3>2. QED
      BY <1>9, <3>1, FS_Interval
  <2>3. QED
    BY <2>1, <2>2 DEF NodeIds
<1>11. ~(MaxNodes < d + 1)
  <2> SUFFICES ASSUME MaxNodes < d + 1 PROVE FALSE
    OBVIOUS
  <2>1. \E k, l \in 0..d : k # l /\ at[k] = at[l]
    BY <1>7, <1>10, FS_PigeonHole
  <2>2. QED
    BY <1>8, <2>1
<1>12. QED
  BY <1>9, <1>11

\* The end of a path to t that has been put together from its parents.
Suffix(P, t, next) ==
    {s \in Seq(NodeIds) :
        /\ 1 <= Len(s) /\ s[Len(s)] = t.node
        /\ \E p \in P : p.node = s[1] /\ p.depth + Len(s) = t.depth + 1
        /\ \A i \in 1..(Len(s) - 1) : s[i + 1] \in next[s[i]]}

\* reconstruct_path puts the parent before the path, until that is the source.
LEMMA SuffixGrows ==
    ASSUME NEW P, NEW parent, NEW source, NEW next, Traced(P, parent, source, next), NEW t \in P,
           NEW s \in Suffix(P, t, next)
    PROVE  /\ Head(s) = s[1] /\ Len(s) \in Nat /\ Len(s) <= t.depth + 1
           /\ s[1] = source <=> Len(s) = t.depth + 1
           /\ s[1] # source => /\ <<parent[Head(s)]>> \o s \in Suffix(P, t, next)
                               /\ Len(<<parent[Head(s)]>> \o s) = Len(s) + 1
<1>1. /\ s \in Seq(NodeIds) /\ 1 <= Len(s) /\ s[Len(s)] = t.node
      /\ \A i \in 1..(Len(s) - 1) : s[i + 1] \in next[s[i]]
  BY DEF Suffix
<1>2. PICK p \in P : p.node = s[1] /\ p.depth + Len(s) = t.depth + 1
  BY DEF Suffix
<1>3. \A q \in P : q.node \in NodeIds /\ q.depth \in Nat
  BY DEF Traced, Entry
<1>4. Head(s) = s[1] /\ Len(s) \in Nat /\ Len(s) <= t.depth + 1 /\ (p.depth = 0 <=> Len(s) = t.depth + 1)
  BY <1>1, <1>2, <1>3
<1>5. s[1] = source <=> p.depth = 0
  BY <1>2 DEF Traced
<1>6. ASSUME s[1] # source
      PROVE  /\ <<parent[Head(s)]>> \o s \in Suffix(P, t, next)
             /\ Len(<<parent[Head(s)]>> \o s) = Len(s) + 1
  <2>1. 1 <= p.depth
    BY <1>3, <1>5, <1>6
  <2>2. PICK r \in P : r.node = parent[p.node] /\ r.depth + 1 = p.depth /\ p.node \in next[r.node]
    BY <2>1 DEF Traced
  <2>3. r.node = parent[Head(s)] /\ s[1] \in next[r.node] /\ r.node \in NodeIds
    BY <1>2, <1>3, <1>4, <2>2
  <2> DEFINE u == <<r.node>> \o s
  <2>4. /\ u \in Seq(NodeIds) /\ Len(u) = Len(s) + 1 /\ u[1] = r.node
        /\ \A i \in 1..Len(s) : u[i + 1] = s[i]
    BY <1>1, <1>4, <2>3
  <2> HIDE DEF u
  <2>5. u[Len(u)] = t.node
    BY <1>1, <1>4, <2>4
  <2>6. r.depth + Len(u) = t.depth + 1
    BY <1>2, <1>3, <1>4, <2>2, <2>4
  <2>7. \A i \in 1..(Len(u) - 1) : u[i + 1] \in next[u[i]]
    <3> TAKE i \in 1..(Len(u) - 1)
    <3>1. i \in 1..Len(s) /\ u[i + 1] = s[i]
      BY <1>4, <2>4
    <3>2. CASE i = 1
      BY <2>3, <2>4, <3>1, <3>2
    <3>3. CASE i # 1
      <4>1. i - 1 \in 1..(Len(s) - 1) /\ i - 1 \in 1..Len(s) /\ (i - 1) + 1 = i
        BY <1>4, <3>1, <3>3
      <4>2. u[i] = s[i - 1] /\ s[i] \in next[s[i - 1]]
        BY <1>1, <2>4, <4>1
      <4>3. QED
        BY <3>1, <4>2
    <3>4. QED
      BY <3>2, <3>3
  <2>8. u \in Suffix(P, t, next)
    <3>1. 1 <= Len(u)
      BY <1>4, <2>4
    <3>2. QED
      BY <2>4, <2>5, <2>6, <2>7, <3>1 DEF Suffix
  <2>9. u = <<parent[Head(s)]>> \o s
    BY <2>3 DEF u
  <2>10. QED
    BY <2>4, <2>8, <2>9
<1>7. QED
  BY <1>4, <1>5, <1>6

\* The path has all depths down to the source on it.
LEMMA PathToIs ==
    ASSUME NEW P, NEW parent, NEW source, NEW next, Traced(P, parent, source, next), NEW t \in P
    PROVE  /\ PathTo(parent, source, t.node) \in Suffix(P, t, next)
           /\ Len(PathTo(parent, source, t.node)) = t.depth + 1
           /\ PathTo(parent, source, t.node)[1] = source
<1> DEFINE S == Suffix(P, t, next)
           one == <<t.node>>
           step == [s \in S |-> IF Head(s) = source THEN s ELSE <<parent[Head(s)]>> \o s]
           Body(f) == [k \in 0..MaxNodes |->
                         IF k = 0 THEN one
                         ELSE IF Head(f[k - 1]) = source THEN f[k - 1]
                         ELSE <<parent[Head(f[k - 1])]>> \o f[k - 1]]
           trace == CHOOSE f : f = Body(f)
           d == t.depth
<1>1. d \in Nat /\ d < MaxNodes /\ MaxNodes \in Nat
  BY DepthBelow, GraphAssumption
<1>2. one \in S /\ Len(one) = 1
  <2>1. t.node \in NodeIds
    BY DEF Traced, Entry
  <2>2. one \in Seq(NodeIds) /\ Len(one) = 1 /\ one[1] = t.node
    BY <2>1
  <2> HIDE DEF one
  <2>3. 1 <= Len(one) /\ one[Len(one)] = t.node /\ t.depth + Len(one) = t.depth + 1
    BY <1>1, <2>2
  <2>4. \A i \in 1..(Len(one) - 1) : one[i + 1] \in next[one[i]]
    BY <2>2
  <2>5. one \in S
    BY <2>2, <2>3, <2>4 DEF Suffix
  <2>6. QED
    BY <2>2, <2>5
<1>3. \A s \in S : /\ Head(s) = s[1] /\ Len(s) \in Nat /\ Len(s) <= d + 1
                   /\ s[1] = source <=> Len(s) = d + 1
                   /\ s[1] # source => /\ <<parent[Head(s)]>> \o s \in S
                                       /\ Len(<<parent[Head(s)]>> \o s) = Len(s) + 1
  BY SuffixGrows
<1> HIDE DEF S, one
<1>4. step \in [S -> S]
  BY <1>3
<1>5. \A s \in S : step[s] = IF Head(s) = source THEN s ELSE <<parent[Head(s)]>> \o s
  OBVIOUS
<1> HIDE DEF step
<1>6. PICK f : /\ f \in [0..MaxNodes -> S] /\ f[0] = one
               /\ \A k \in 1..MaxNodes : f[k] = step[f[k - 1]]
  <2>1. MaxNodes \in Nat
    BY <1>1
  <2>2. one \in S
    BY <1>2
  <2>3. \E f : Iterates(f, S, one, step, MaxNodes)
    BY <2>1, <2>2, <1>4, Iterated
  <2>4. QED
    BY <2>3 DEF Iterates
<1>7. f = Body(f)
  <2>1. ASSUME NEW k \in 0..MaxNodes
        PROVE  f[k] = IF k = 0 THEN one
                      ELSE IF Head(f[k - 1]) = source THEN f[k - 1]
                      ELSE <<parent[Head(f[k - 1])]>> \o f[k - 1]
    <3>1. CASE k = 0
      BY <1>6, <3>1
    <3>2. CASE k # 0
      <4>1. k \in 1..MaxNodes /\ k - 1 \in 0..MaxNodes
        BY <1>1, <3>2
      <4>2. f[k] = step[f[k - 1]] /\ f[k - 1] \in S
        BY <1>6, <4>1
      <4>3. QED
        BY <1>5, <3>2, <4>2
    <3>3. QED
      BY <3>1, <3>2
  <2>2. f = [k \in 0..MaxNodes |-> f[k]]
    BY <1>6
  <2>3. QED
    BY <2>1, <2>2
<1>8. trace = Body(trace)
  <2> HIDE DEF Body
  <2>1. QED
    BY <1>7
<1> HIDE DEF trace
<1>9. /\ trace[0] = one
      /\ \A k \in 1..MaxNodes : trace[k] = IF Head(trace[k - 1]) = source THEN trace[k - 1]
                                          ELSE <<parent[Head(trace[k - 1])]>> \o trace[k - 1]
  <2> DEFINE B == Body(trace)
  <2>1. B[0] = one
    BY <1>1
  <2>2. \A k \in 1..MaxNodes : B[k] = IF Head(trace[k - 1]) = source THEN trace[k - 1]
                                      ELSE <<parent[Head(trace[k - 1])]>> \o trace[k - 1]
    BY <1>1
  <2>3. trace = B
    BY <1>8
  <2> HIDE DEF B
  <2>4. QED
    BY <2>1, <2>2, <2>3
<1> DEFINE T == {j \in Nat : j <= MaxNodes =>
                    trace[j] \in S /\ Len(trace[j]) = IF j <= d THEN j + 1 ELSE d + 1}
<1>10. 0 \in T
  <2>1. 0 \in Nat /\ 0 <= d /\ 0 + 1 = 1
    BY <1>1
  <2>2. trace[0] \in S /\ Len(trace[0]) = 1
    BY <1>2, <1>9
  <2> HIDE DEF d
  <2>3. QED
    BY <2>1, <2>2
<1>11. \A j \in T : j + 1 \in T
  <2> TAKE j \in T
  <2> SUFFICES ASSUME j + 1 <= MaxNodes
               PROVE  /\ trace[j + 1] \in S
                      /\ Len(trace[j + 1]) = IF j + 1 <= d THEN (j + 1) + 1 ELSE d + 1
    OBVIOUS
  <2>1. j \in Nat /\ j <= MaxNodes /\ j + 1 \in 1..MaxNodes /\ (j + 1) - 1 = j
    BY <1>1
  <2>2. trace[j] \in S /\ Len(trace[j]) = IF j <= d THEN j + 1 ELSE d + 1
    BY <2>1
  <2>3. trace[j + 1] = IF Head(trace[j]) = source THEN trace[j] ELSE <<parent[Head(trace[j])]>> \o trace[j]
    BY <1>9, <2>1
  <2> HIDE DEF T
  <2>4. CASE Head(trace[j]) = source
    <3>1. Len(trace[j]) = d + 1 /\ trace[j + 1] = trace[j]
      BY <1>3, <2>2, <2>3, <2>4
    <3>2. ~(j + 1 <= d)
      BY <1>1, <2>1, <2>2, <3>1
    <3>3. QED
      BY <2>2, <3>1, <3>2
  <2>5. CASE Head(trace[j]) # source
    <3>1. Len(trace[j]) # d + 1 /\ trace[j + 1] \in S /\ Len(trace[j + 1]) = Len(trace[j]) + 1
      BY <1>3, <2>2, <2>3, <2>5
    <3>2. j <= d /\ Len(trace[j]) = j + 1 /\ j + 1 <= d
      BY <1>1, <2>1, <2>2, <3>1
    <3>3. QED
      BY <2>1, <3>1, <3>2
  <2>6. QED
    BY <2>4, <2>5
<1> HIDE DEF T
<1>12. T = Nat
  BY <1>10, <1>11, AllNaturals DEF T
<1>13. trace[MaxNodes] \in S /\ Len(trace[MaxNodes]) = d + 1
  BY <1>1, <1>12 DEF T
<1>14. trace[MaxNodes][1] = source
  BY <1>3, <1>13
<1>15. PathTo(parent, source, t.node) = trace[MaxNodes]
  BY DEF PathTo, trace, one
<1>16. QED
  BY <1>13, <1>14, <1>15 DEF S

\* The neighbours of an expanded entry come a level deeper.
LEMMA TracedMore ==
    ASSUME NEW P, NEW parent, NEW source, NEW next, Traced(P, parent, source, next),
           NEW x \in P, NEW at \in SUBSET Entry, NEW parent2,
           \A q \in at : q.depth = x.depth + 1 /\ q.node \in next[x.node] /\ parent2[q.node] = x.node,
           \A q \in at, p \in P : q.node # p.node,
           \A p \in P : parent2[p.node] = parent[p.node],
           \E p \in P : p.node = source
    PROVE  Traced(P \union at, parent2, source, next)
<1> DEFINE R == P \union at
<1>1. \A p \in P : p.depth \in Nat
  BY DEF Traced, Entry
<1>2. \A q \in at : q.depth \in Nat /\ 1 <= q.depth /\ q.depth # 0 /\ q.node # source
  BY <1>1
<1>3. R \subseteq Entry
  BY DEF Traced
<1>4. \A p, q \in R : p.node = q.node => p.depth = q.depth
  BY DEF Traced
<1>5. \A p \in R : p.node = source <=> p.depth = 0
  BY <1>2 DEF Traced
<1>6. ASSUME NEW p \in R, 1 <= p.depth
      PROVE  \E r \in R : r.node = parent2[p.node] /\ r.depth + 1 = p.depth /\ p.node \in next[r.node]
  <2>1. CASE p \in P
    <3>1. PICK r \in P : r.node = parent[p.node] /\ r.depth + 1 = p.depth /\ p.node \in next[r.node]
      BY <1>6, <2>1 DEF Traced
    <3>2. QED
      BY <2>1, <3>1
  <2>2. CASE p \in at
    BY <2>2
  <2>3. QED
    BY <2>1, <2>2
<1>7. QED
  BY <1>3, <1>4, <1>5, <1>6 DEF Traced

\* E holds the entries that were popped.
Pathing(E) ==
    /\ Covered(E, ask.queue, OutNext(ask.then, ask.follow, NodeIds), ask.max)
    /\ Traced(E \union ask.queue, ask.parent, ask.start, OutNext(edges, ask.follow, NodeIds))
    /\ \A p \in E \union ask.queue : p.depth <= ask.max /\ p.node \in ask.visited
    /\ \A n \in ask.visited : \E p \in E \union ask.queue : p.node = n
    /\ \A p \in E \union ask.queue, q \in ask.queue : p.depth <= q.depth + 1
    /\ ask.start \in ask.visited /\ ask.target \in NodeIds \ ask.visited /\ ask.path = <<>>

\* What the turn of the loop sets.
LEMMA FindStep ==
    ASSUME AskOK, FindPath
    PROVE  /\ ask.kind = "path" /\ SameQuestion /\ DOMAIN ask' = AskFields /\ ask'.depth = ask.depth
           /\ \E x : Nearest(x) /\
                LET out == PathRows(x)
                    new == out \ ask.visited IN
                /\ ask'.parent = [n \in NodeIds |-> IF n \in new \union ({ask.target} \intersect out) THEN x.node
                                                    ELSE ask.parent[n]]
                /\ ask.target \in out => /\ ask'.pc = "done" /\ ask'.path = PathTo(ask'.parent, ask.start, ask.target)
                                         /\ ask'.visited = ask.visited /\ ask'.queue = ask.queue
                /\ ask.target \notin out => /\ ask'.pc = "run" /\ ask'.path = ask.path
                                            /\ ask'.visited = ask.visited \union new
                                            /\ ask'.queue = (ask.queue \ {x}) \union At(new, x.depth + 1)
<1>1. ask.kind = "path" /\ ask.pc = "run" /\ DOMAIN ask = AskFields
  BY DEF AskOK, FindPath
<1>2. PICK x \in Popped :
        LET out == PathRows(x)
            new == out \ ask.visited
            parent == [n \in NodeIds |-> IF n \in new \union ({ask.target} \intersect out) THEN x.node
                                         ELSE ask.parent[n]] IN
        ask' = IF ask.target \in out
               THEN [ask EXCEPT !.parent = parent, !.path = PathTo(parent, ask.start, ask.target), !.pc = "done"]
               ELSE [ask EXCEPT !.parent = parent, !.visited = @ \union new,
                                !.queue = (@ \ {x}) \union At(new, x.depth + 1)]
  BY DEF FindPath
<1> DEFINE out == PathRows(x)
           new == out \ ask.visited
           parent == [n \in NodeIds |-> IF n \in new \union ({ask.target} \intersect out) THEN x.node
                                        ELSE ask.parent[n]]
           path == PathTo(parent, ask.start, ask.target)
           vis == ask.visited \union new
           q == (ask.queue \ {x}) \union At(new, x.depth + 1)
<1>3. /\ ask.target \in out => ask' = [ask EXCEPT !.parent = parent, !.path = path, !.pc = "done"]
      /\ ask.target \notin out => ask' = [ask EXCEPT !.parent = parent, !.visited = vis, !.queue = q]
  BY <1>2
<1>4. Nearest(x)
  BY <1>2 DEF Popped, Nearest
<1> HIDE DEF q, vis, path, parent
<1>5. /\ SameQuestion /\ DOMAIN ask' = AskFields /\ ask'.depth = ask.depth /\ ask'.parent = parent
      /\ ask.target \in out => /\ ask'.pc = "done" /\ ask'.path = path
                               /\ ask'.visited = ask.visited /\ ask'.queue = ask.queue
      /\ ask.target \notin out => /\ ask'.pc = "run" /\ ask'.path = ask.path
                                  /\ ask'.visited = vis /\ ask'.queue = q
  <2>1. CASE ask.target \in out
    <3>1. ask' = [ask EXCEPT !.parent = parent, !.path = path, !.pc = "done"]
      BY <1>3, <2>1
    <3>2. QED
      BY <1>1, <2>1, <3>1 DEF SameQuestion, AskFields
  <2>2. CASE ask.target \notin out
    <3>1. ask' = [ask EXCEPT !.parent = parent, !.visited = vis, !.queue = q]
      BY <1>3, <2>2
    <3>2. QED
      BY <1>1, <2>2, <3>1 DEF SameQuestion, AskFields
  <2>3. QED
    BY <2>1, <2>2
<1>6. QED
  BY <1>1, <1>4, <1>5 DEF q, vis, path, parent

\* Nothing that was not visited was at the end of a walk as short as the depths
\* that the queue has left behind.
LEMMA NoShorter ==
    ASSUME AskOK, NEW E, Pathing(E), NEW k \in 1..ask.max, \A q \in ask.queue : k <= q.depth
    PROVE  ask.target \notin OutWalks(ask.then, ask.start, ask.follow, NodeIds, ask.max)[k]
<1> DEFINE next == OutNext(ask.then, ask.follow, NodeIds)
           max == ask.max
           Q == ask.queue
<1>1. Covered(E, Q, next, max) /\ max \in Nat /\ E \subseteq Entry /\ Q \subseteq Entry
  BY DEF Pathing, AskOK, Covered
<1>2. next \in Successors
  BY OutNextIs
<1>3. PICK p \in E \union Q : p.node = ask.start
  BY DEF Pathing
<1>4. p.depth = 0
  BY <1>3 DEF Pathing, Traced
<1>5. p \in E /\ ask.start \in NodeIds
  BY <1>1, <1>3, <1>4 DEF Entry
<1> HIDE DEF next
<1>6. Seeded(E \union Q, next[ask.start], max)
  <2> SUFFICES ASSUME 1 <= max, NEW n \in next[ask.start]
               PROVE  Covers(E \union Q, n, 1)
    BY DEF Seeded
  <2>1. p.depth < max /\ p.depth + 1 = 1
    BY <1>1, <1>4
  <2>2. Covers(E \union Q, n, p.depth + 1)
    BY <1>1, <1>3, <1>5, <2>1 DEF Covered
  <2>3. QED
    BY <2>1, <2>2
<1>7. next[ask.start] \in SUBSET NodeIds
  BY <1>2, <1>5 DEF Successors
<1>8. \A n \in Walks(next[ask.start], next, max)[k] : Covers(E \union Q, n, k)
  BY <1>1, <1>2, <1>6, <1>7, WalksCovered
<1>9. ~Covers(E \union Q, ask.target, k)
  BY DEF Covers, Pathing
<1>10. QED
  BY <1>8, <1>9 DEF OutWalks, next

\* Of a node at the limit nothing is expanded; of any other every row is, and the
\* target was not among them.
LEMMA PathKeeps ==
    ASSUME Inductive, AskOK, NEW E, Pathing(E), FindPath, ask'.pc # "done"
    PROVE  AskOK' /\ ask'.pc = "run" /\ \E F \in SUBSET Entry : Pathing(F)'
<1>1. /\ SameQuestion /\ DOMAIN ask' = AskFields /\ ask'.depth = ask.depth /\ ask.kind = "path"
      /\ UNCHANGED <<node, edges>>
  BY FindStep DEF FindPath, vars
<1>2. PICK x : Nearest(x) /\
        LET out == PathRows(x)
            new == out \ ask.visited IN
        /\ ask'.parent = [n \in NodeIds |-> IF n \in new \union ({ask.target} \intersect out) THEN x.node
                                            ELSE ask.parent[n]]
        /\ ask.target \in out => ask'.pc = "done"
        /\ ask.target \notin out => /\ ask'.pc = "run" /\ ask'.path = ask.path
                                    /\ ask'.visited = ask.visited \union new
                                    /\ ask'.queue = (ask.queue \ {x}) \union At(new, x.depth + 1)
  BY FindStep
<1> DEFINE out == PathRows(x)
           new == out \ ask.visited
           at == At(new, x.depth + 1)
           next == OutNext(ask.then, ask.follow, NodeIds)
           wide == OutNext(edges, ask.follow, NodeIds)
           max == ask.max
           Q == ask.queue
           P == E \union Q
           F == E \union {x}
<1>3. /\ ask.target \notin out /\ ask'.pc = "run" /\ ask'.path = ask.path
      /\ ask'.visited = ask.visited \union new /\ ask'.queue = (Q \ {x}) \union at
      /\ ask'.parent = [n \in NodeIds |-> IF n \in new THEN x.node ELSE ask.parent[n]]
  BY <1>2
<1>4. /\ x \in Q /\ (\A y \in Q : x.depth <= y.depth) /\ x \in Entry /\ x.node \in NodeIds
      /\ x.depth \in Nat /\ max \in Nat /\ E \subseteq Entry /\ Q \subseteq Entry
      /\ Covered(E, Q, next, max) /\ Traced(P, ask.parent, ask.start, wide)
      /\ ask.visited \subseteq NodeIds /\ ask.parent \in [NodeIds -> 0..MaxNodes]
  BY <1>2 DEF Nearest, Pathing, Covered, AskOK, Entry
<1>5. /\ edges \in SUBSET GraphEdge /\ ask.then \subseteq edges
  BY GraphUnder DEF AskOK
<1>6. /\ wide[x.node] = Outgoing(edges, x.node, ask.follow) /\ Outgoing(edges, x.node, ask.follow) \subseteq NodeIds
      /\ next[x.node] \subseteq Outgoing(edges, x.node, ask.follow)
  <2>1. /\ wide[x.node] = Outgoing(edges, x.node, ask.follow) \intersect NodeIds
        /\ next[x.node] = Outgoing(ask.then, x.node, ask.follow) \intersect NodeIds
    BY <1>4, OutNextIs
  <2>2. /\ Outgoing(ask.then, x.node, ask.follow) \subseteq Outgoing(edges, x.node, ask.follow)
        /\ Outgoing(edges, x.node, ask.follow) \subseteq NodeIds
    BY <1>5 DEF Outgoing, GraphEdge
  <2> HIDE DEF wide, next
  <2>3. QED
    BY <2>1, <2>2
<1> HIDE DEF next, wide
<1>7. /\ x.depth < max => out = Outgoing(edges, x.node, ask.follow)
      /\ ~(x.depth < max) => out = {}
      /\ out \subseteq wide[x.node] /\ new \subseteq NodeIds
  BY <1>4, <1>6 DEF PathRows
<1> HIDE DEF out
<1>8. /\ \A q \in at : q.depth = x.depth + 1 /\ q.node \in new /\ q \in Entry
      /\ \A n \in new : \E q \in at : q.node = n /\ q.depth = x.depth + 1
  <2>1. /\ \A q \in at : q.node \in new /\ q.depth = x.depth + 1 /\ q = [node |-> q.node, depth |-> x.depth + 1]
        /\ \A n \in new : \E q \in at : q.node = n /\ q.depth = x.depth + 1
    BY AtIs
  <2>2. x.depth + 1 \in Nat
    BY <1>4
  <2> HIDE DEF at
  <2>3. QED
    BY <1>7, <2>1, <2>2 DEF Entry
<1>9. /\ \A p \in P : p.depth <= max /\ p.node \in ask.visited /\ p.depth \in Nat /\ p.depth <= x.depth + 1
      /\ \A n \in ask.visited : \E p \in P : p.node = n
      /\ \A p \in P, q \in Q : p.depth <= q.depth + 1
      /\ ask.start \in ask.visited /\ ask.target \in NodeIds \ ask.visited /\ ask.path = <<>>
  BY <1>4 DEF Pathing, Entry
<1> HIDE DEF at
<1>10. x.depth < max => \A n \in next[x.node] : Covers(P \union at, n, x.depth + 1)
  <2> SUFFICES ASSUME x.depth < max, NEW n \in next[x.node]
               PROVE  \E e \in P \union at : e.node = n /\ e.depth <= x.depth + 1
    BY DEF Covers
  <2>1. n \in out
    BY <1>6, <1>7
  <2>2. CASE n \in ask.visited
    BY <1>9, <2>2
  <2>3. CASE n \notin ask.visited
    <3>1. n \in new
      BY <2>1, <2>3
    <3>2. PICK q \in at : q.node = n /\ q.depth = x.depth + 1
      BY <1>8, <3>1
    <3>3. q.depth <= x.depth + 1
      BY <1>4, <3>2
    <3>4. QED
      BY <3>2, <3>3
  <2>4. QED
    BY <2>2, <2>3
<1>11. Covered(F, ask'.queue, next, max) /\ F \union ask'.queue = P \union at /\ ask'.queue \subseteq Entry
  <2>1. at \in SUBSET Entry /\ \A q \in at : q.depth = x.depth + 1
    BY <1>8
  <2>2. /\ Covered(E \union {x}, (Q \ {x}) \union at, next, max)
        /\ (E \union {x}) \union ((Q \ {x}) \union at) = E \union Q \union at
    BY <1>4, <1>10, <2>1, Expand
  <2>3. QED
    BY <1>3, <1>4, <2>1, <2>2
<1>12. Traced(P \union at, ask'.parent, ask.start, wide)
  <2>1. \A q \in at : q.depth = x.depth + 1 /\ q.node \in wide[x.node] /\ ask'.parent[q.node] = x.node
    BY <1>3, <1>7, <1>8
  <2>2. \A q \in at, p \in P : q.node # p.node
    BY <1>8, <1>9
  <2>3. \A p \in P : ask'.parent[p.node] = ask.parent[p.node]
    <3>1. \A p \in P : p.node \in NodeIds /\ p.node \notin new
      BY <1>4, <1>9
    <3>2. QED
      BY <1>3, <3>1
  <2>4. x \in P /\ at \in SUBSET Entry /\ \E p \in P : p.node = ask.start
    BY <1>4, <1>8, <1>9
  <2> HIDE DEF P
  <2>5. QED
    BY <1>4, <2>1, <2>2, <2>3, <2>4, TracedMore
<1>13. \A p \in P \union at : p.depth <= max /\ p.node \in ask'.visited
  <2>1. at # {} => x.depth + 1 <= max
    BY <1>4, <1>7, <1>8
  <2>2. QED
    BY <1>3, <1>8, <1>9, <2>1
<1>14. \A n \in ask'.visited : \E p \in P \union at : p.node = n
  BY <1>3, <1>8, <1>9
<1>15. \A p \in P \union at, q \in ask'.queue : p.depth <= q.depth + 1
  <2>1. \A p \in P \union at : p.depth \in Nat /\ p.depth <= x.depth + 1
    BY <1>4, <1>8, <1>9
  <2>2. \A q \in ask'.queue : q.depth \in Nat /\ x.depth <= q.depth
    BY <1>3, <1>4, <1>8, <1>9
  <2> HIDE DEF P
  <2>3. QED
    BY <1>4, <2>1, <2>2
<1>16. /\ ask.start \in ask'.visited /\ ask.target \in NodeIds \ ask'.visited /\ ask'.path = <<>>
  BY <1>3, <1>9
<1>17. /\ ask'.max = max /\ ask'.start = ask.start /\ ask'.follow = ask.follow /\ ask'.then = ask.then
       /\ ask'.types = ask.types /\ ask'.kind = ask.kind /\ ask'.target = ask.target
  BY <1>1 DEF SameQuestion
<1>18. ask'.parent \in [NodeIds -> 0..MaxNodes]
  <2>1. \A n \in NodeIds : (IF n \in new THEN x.node ELSE ask.parent[n]) \in 0..MaxNodes
    BY <1>4, GraphAssumption DEF NodeIds
  <2>2. QED
    BY <1>3, <2>1
<1>19. AskOK'
  BY <1>1, <1>3, <1>4, <1>7, <1>11, <1>17, <1>18 DEF AskOK, Exists
<1> HIDE DEF P, F
<1>20. Pathing(F)'
  BY <1>1, <1>11, <1>12, <1>13, <1>14, <1>15, <1>16, <1>17 DEF Pathing, next, wide
<1>21. F \in SUBSET Entry
  BY <1>4 DEF F
<1>22. QED
  BY <1>3, <1>19, <1>20, <1>21

\* The target is met from one of the nearest entries: no walk to it was shorter.
LEMMA PathFound ==
    ASSUME Inductive, AskOK, NEW E, Pathing(E), FindPath, ask'.pc = "done"
    PROVE  AskOK' /\ PathShortest'
<1>1. /\ SameQuestion /\ DOMAIN ask' = AskFields /\ ask'.depth = ask.depth /\ ask.kind = "path"
      /\ UNCHANGED <<node, edges>>
  BY FindStep DEF FindPath, vars
<1>2. PICK x : Nearest(x) /\
        LET out == PathRows(x)
            new == out \ ask.visited IN
        /\ ask'.parent = [n \in NodeIds |-> IF n \in new \union ({ask.target} \intersect out) THEN x.node
                                            ELSE ask.parent[n]]
        /\ ask.target \in out => /\ ask'.path = PathTo(ask'.parent, ask.start, ask.target)
                                 /\ ask'.visited = ask.visited /\ ask'.queue = ask.queue
        /\ ask.target \notin out => ask'.pc = "run"
  BY FindStep
<1> DEFINE out == PathRows(x)
           new == out \ ask.visited
           wide == OutNext(edges, ask.follow, NodeIds)
           max == ask.max
           Q == ask.queue
           P == E \union Q
           t == [node |-> ask.target, depth |-> x.depth + 1]
           path == ask'.path
<1>3. /\ ask.target \in out /\ path = PathTo(ask'.parent, ask.start, ask.target)
      /\ ask'.visited = ask.visited /\ ask'.queue = ask.queue
      /\ ask'.parent = [n \in NodeIds |-> IF n \in new \union ({ask.target} \intersect out) THEN x.node
                                          ELSE ask.parent[n]]
  BY <1>2
<1>4. /\ x \in Q /\ (\A y \in Q : x.depth <= y.depth) /\ x \in Entry /\ x.node \in NodeIds
      /\ x.depth \in Nat /\ max \in Nat /\ E \subseteq Entry /\ Q \subseteq Entry
      /\ Traced(P, ask.parent, ask.start, wide)
      /\ ask.visited \subseteq NodeIds /\ ask.parent \in [NodeIds -> 0..MaxNodes]
  BY <1>2 DEF Nearest, Pathing, Covered, AskOK, Entry
<1>5. edges \in SUBSET GraphEdge
  BY GraphUnder
<1>6. \A m \in NodeIds : wide[m] = Outgoing(edges, m, ask.follow)
  <2>1. \A m \in NodeIds : wide[m] = Outgoing(edges, m, ask.follow) \intersect NodeIds
    BY OutNextIs
  <2>2. \A m \in NodeIds : Outgoing(edges, m, ask.follow) \subseteq NodeIds
    BY <1>5 DEF Outgoing, GraphEdge
  <2> HIDE DEF wide
  <2>3. QED
    BY <2>1, <2>2
<1> HIDE DEF wide
<1>7. x.depth < max /\ ask.target \in wide[x.node]
  BY <1>3, <1>4, <1>6 DEF PathRows
<1> HIDE DEF out
<1>8. /\ \A p \in P : p.node \in ask.visited /\ p.node \in NodeIds
      /\ ask.start \in ask.visited /\ ask.target \in NodeIds \ ask.visited
      /\ \A n \in ask.visited : \E p \in P : p.node = n
  BY <1>4 DEF Pathing, Entry
<1>9. t \in Entry /\ t.node = ask.target /\ t.depth = x.depth + 1
  BY <1>4, <1>8 DEF Entry
<1> HIDE DEF t
<1>10. ask'.parent[ask.target] = x.node /\ \A p \in P : ask'.parent[p.node] = ask.parent[p.node]
  <2>1. ask'.parent[ask.target] = x.node
    BY <1>3, <1>8
  <2>2. \A p \in P : p.node \in NodeIds /\ p.node \notin new /\ p.node # ask.target
    BY <1>8
  <2> HIDE DEF P
  <2>3. QED
    BY <1>3, <2>1, <2>2
<1>11. Traced(P \union {t}, ask'.parent, ask.start, wide)
  <2>1. {t} \in SUBSET Entry /\ x \in P
    BY <1>4, <1>9
  <2>2. \A q \in {t} : q.depth = x.depth + 1 /\ q.node \in wide[x.node] /\ ask'.parent[q.node] = x.node
    BY <1>7, <1>9, <1>10
  <2>3. \A q \in {t}, p \in P : q.node # p.node
    BY <1>8, <1>9
  <2>4. \E p \in P : p.node = ask.start
    BY <1>8
  <2> HIDE DEF P
  <2>5. QED
    BY <1>4, <1>10, <2>1, <2>2, <2>3, <2>4, TracedMore
<1>12. /\ path \in Suffix(P \union {t}, t, wide) /\ Len(path) = t.depth + 1 /\ path[1] = ask.start
  <2>1. t \in P \union {t}
    OBVIOUS
  <2> HIDE DEF P
  <2>2. /\ PathTo(ask'.parent, ask.start, t.node) \in Suffix(P \union {t}, t, wide)
        /\ Len(PathTo(ask'.parent, ask.start, t.node)) = t.depth + 1
        /\ PathTo(ask'.parent, ask.start, t.node)[1] = ask.start
    BY <1>11, <2>1, PathToIs
  <2>3. path = PathTo(ask'.parent, ask.start, t.node)
    BY <1>3, <1>9
  <2> HIDE DEF path
  <2>4. QED
    BY <2>2, <2>3
<1>13. /\ path \in Seq(NodeIds) /\ Len(path) = x.depth + 2 /\ path[Len(path)] = ask.target
       /\ \A i \in 1..(Len(path) - 1) : path[i + 1] \in wide[path[i]]
  <2>1. t.depth + 1 = x.depth + 2
    BY <1>4, <1>9
  <2> HIDE DEF path
  <2>2. QED
    BY <1>9, <1>12, <2>1 DEF Suffix
<1>14. ASSUME NEW k \in 1..max, ask.target \in OutWalks(ask.then, ask.start, ask.follow, NodeIds, max)[k]
       PROVE  x.depth + 1 <= k
  <2> SUFFICES ASSUME ~(x.depth + 1 <= k) PROVE FALSE
    OBVIOUS
  <2>1. k <= x.depth
    BY <1>4
  <2>2. \A q \in Q : k <= q.depth
    <3>1. \A q \in Q : q.depth \in Nat /\ x.depth <= q.depth
      BY <1>4 DEF Entry
    <3>2. QED
      BY <1>4, <2>1, <3>1
  <2>3. QED
    BY <1>14, <2>2, NoShorter
<1>15. /\ ask'.max = max /\ ask'.start = ask.start /\ ask'.follow = ask.follow /\ ask'.then = ask.then
       /\ ask'.types = ask.types /\ ask'.kind = ask.kind /\ ask'.target = ask.target
  BY <1>1 DEF SameQuestion
<1>16. ask'.parent \in [NodeIds -> 0..MaxNodes]
  <2>1. \A n \in NodeIds : (IF n \in new \union ({ask.target} \intersect out) THEN x.node ELSE ask.parent[n])
                           \in 0..MaxNodes
    BY <1>4, GraphAssumption DEF NodeIds
  <2>2. QED
    BY <1>3, <2>1
<1>17. AskOK'
  BY <1>1, <1>3, <1>4, <1>15, <1>16 DEF AskOK, Exists
<1>18. /\ path # <<>> /\ Last(path) = ask.target /\ Len(path) - 1 = x.depth + 1 /\ Len(path) - 1 <= max
       /\ \A i \in 1..(Len(path) - 1) : path[i + 1] \in Outgoing(edges, path[i], ask.follow)
  <2> HIDE DEF path
  <2>1. path # <<>> /\ Last(path) = ask.target
    BY <1>4, <1>13 DEF Last
  <2>2. Len(path) - 1 = x.depth + 1 /\ Len(path) - 1 <= max
    BY <1>4, <1>7, <1>13
  <2>3. \A i \in 1..(Len(path) - 1) : path[i] \in NodeIds
    BY <1>4, <1>13
  <2>4. QED
    BY <1>6, <1>13, <2>1, <2>2, <2>3
<1>19. PathShortest'
  BY <1>1, <1>12, <1>14, <1>15, <1>18 DEF PathShortest
<1>20. QED
  BY <1>17, <1>19

\* A path search begins with its source in the queue.
LEMMA BeginPathKeeps ==
    ASSUME Inductive, BeginPath
    PROVE  AskOK' /\ ask'.kind = "path" /\ ask'.pc = "run" /\ Pathing({})'
<1>1. PICK source, target \in NodeIds, max \in Depths, follow \in Follows :
        /\ Exists(source) /\ source # target
        /\ Begin("path", [NoQuery EXCEPT !.start = source, !.target = target, !.max = max,
                    !.follow = follow, !.visited = {source}, !.queue = At({source}, 0)])
  BY DEF BeginPath
<1> DEFINE x == [node |-> source, depth |-> 0]
           q == [NoQuery EXCEPT !.start = source, !.target = target, !.max = max,
                    !.follow = follow, !.visited = {source}, !.queue = {x}]
           next == OutNext(edges, follow, NodeIds)
<1>2. max \in Nat
  BY QueryAssumption
<1>3. At({source}, 0) = {x}
  BY DEF At
<1>4. x \in Entry /\ x.node = source /\ x.depth = 0
  BY DEF Entry
<1> HIDE DEF x
<1>5. /\ DOMAIN ask' = AskFields /\ UNCHANGED <<node, edges>>
      /\ ask'.pc = "run" /\ ask'.kind = "path" /\ ask'.then = edges /\ ask'.start = source /\ ask'.max = max
      /\ ask'.target = target /\ ask'.path = <<>> /\ ask'.types = {}
      /\ ask'.follow = follow /\ ask'.queue = {x} /\ ask'.visited = {source}
      /\ ask'.depth = [n \in NodeIds |-> 0] /\ ask'.parent = [n \in NodeIds |-> NoNode]
  <2>1. Begin("path", q)
    BY <1>1, <1>3
  <2>2. /\ DOMAIN q = AskFields /\ q.start = source /\ q.target = target /\ q.max = max /\ q.follow = follow
        /\ q.types = {} /\ q.queue = {x} /\ q.visited = {source} /\ q.path = <<>>
        /\ q.depth = [n \in NodeIds |-> 0] /\ q.parent = [n \in NodeIds |-> NoNode]
    BY NoQueryIs DEF AskFields
  <2> HIDE DEF q
  <2>3. QED
    BY <2>1, <2>2, BeginStep
<1>6. AskOK'
  BY <1>1, <1>2, <1>4, <1>5, BlankMaps DEF AskOK, Exists
<1> HIDE DEF next
<1>7. Covered({}, {x}, next, max)
  BY <1>4 DEF Covered
<1>8. Traced({} \union {x}, ask'.parent, source, next)
  BY <1>4 DEF Traced
<1>9. /\ \A p \in {} \union {x} : p.depth <= max /\ p.node \in {source}
      /\ \A n \in {source} : \E p \in {} \union {x} : p.node = n
      /\ \A p \in {} \union {x}, r \in {x} : p.depth <= r.depth + 1
  BY <1>2, <1>4
<1>10. target \in NodeIds \ {source} /\ source \in {source}
  BY <1>1
<1>11. Pathing({})'
  BY <1>5, <1>7, <1>8, <1>9, <1>10 DEF Pathing, next
<1>12. QED
  BY <1>5, <1>6, <1>11

\* The parents are still joined to their nodes.
LEMMA PathingStays ==
    ASSUME Inductive, AskOK, NEW E, Pathing(E), ask.kind = "path", Change
    PROVE  Pathing(E)'
<1> DEFINE P == E \union ask.queue
           wide == OutNext(edges, ask.follow, NodeIds)
           wider == OutNext(edges', ask.follow, NodeIds)
<1>1. /\ SameQuestion /\ SameSearch /\ edges \subseteq edges'
  BY ChangeStep
<1>2. ask'.path = ask.path
  BY DEF Change, AskOK, AskFields
<1>3. \A m \in NodeIds : wide[m] \subseteq wider[m]
  BY <1>1 DEF OutNext
<1>4. Traced(P, ask.parent, ask.start, wide)
  BY DEF Pathing
<1> HIDE DEF wide, wider, P
<1>5. Traced(P, ask.parent, ask.start, wider)
  <2>1. \A p \in P : p.node \in NodeIds
    BY <1>4 DEF Traced, Entry
  <2>2. QED
    BY <1>3, <1>4, <2>1 DEF Traced
<1>6. /\ ask'.max = ask.max /\ ask'.start = ask.start /\ ask'.follow = ask.follow /\ ask'.then = ask.then
      /\ ask'.target = ask.target /\ ask'.queue = ask.queue /\ ask'.visited = ask.visited
      /\ ask'.parent = ask.parent
  BY <1>1 DEF SameQuestion, SameSearch
<1>7. /\ Covered(E, ask.queue, OutNext(ask.then, ask.follow, NodeIds), ask.max)
      /\ \A p \in E \union ask.queue : p.depth <= ask.max /\ p.node \in ask.visited
      /\ \A n \in ask.visited : \E p \in E \union ask.queue : p.node = n
      /\ \A p \in E \union ask.queue, q \in ask.queue : p.depth <= q.depth + 1
      /\ ask.start \in ask.visited /\ ask.target \in NodeIds \ ask.visited /\ ask.path = <<>>
  BY DEF Pathing
<1>8. QED
  BY <1>2, <1>5, <1>6, <1>7 DEF Pathing, P, wider

\* When the queue is empty, there was no walk to the target.
LEMMA PathAnswers ==
    ASSUME Inductive, AskOK, NEW E, Pathing(E), ask.kind = "path", Exhausted
    PROVE  PathShortest'
<1>1. SameQuestion /\ ask'.path = ask.path /\ ask.queue = {} /\ UNCHANGED edges
  BY ExhaustedStep
<1>2. ask.path = <<>>
  BY DEF Pathing
<1>3. \A k \in 1..ask.max : ask.target \notin OutWalks(ask.then, ask.start, ask.follow, NodeIds, ask.max)[k]
  BY <1>1, NoShorter
<1>4. QED
  BY <1>1, <1>2, <1>3 DEF PathShortest, SameQuestion

-----------------------------------------------------------------------------
(* Cycles.  The state of the depth-first search of the listed nodes L.       *)

Colours == {"white", "gray", "black", None}

Colouring == [color : [NodeIds -> Colours], path : Seq(NodeIds), cycle : Seq(NodeIds)]

Joined(s, adj) == \A i \in 1..(Len(s) - 1) : s[i + 1] \in adj[s[i]]

\* The gray nodes are those of the path.
Coherent(st, adj, L) ==
    /\ st \in Colouring
    /\ \A n \in NodeIds : st.color[n] = None <=> n \notin L
    /\ \A i \in 1..Len(st.path) : st.color[st.path[i]] = "gray"
    /\ \A n \in NodeIds : st.color[n] = "gray" => \E i \in 1..Len(st.path) : st.path[i] = n
    /\ \A i, j \in 1..Len(st.path) : st.path[i] = st.path[j] => i = j
    /\ Joined(st.path, adj)
    /\ st.cycle # <<>> => Len(st.cycle) > 1 /\ st.cycle[1] = Last(st.cycle) /\ Joined(st.cycle, adj)

\* What a black node is joined to became black before it did.
Ranked(st, adj, L, k) ==
    \E rank \in [NodeIds -> 0..k] :
        \A n \in NodeIds : st.color[n] = "black" =>
            \A m \in adj[n] \intersect L : st.color[m] = "black" /\ rank[m] < rank[n]

White(st) == {n \in NodeIds : st.color[n] = "white"}

\* A white node is to be entered and left, a gray one to be left.
Left(st) == 2 * Cardinality(White(st)) + Len(st.path)

Waiting(st, k) == st.cycle # <<>> \/ Left(st) = 0 \/ Left(st) + k <= SearchLimit

\* The search stays, or closes a cycle, or enters a white node, or leaves one
\* that is joined to no gray or white one.
Stays(st, L) == st.cycle # <<>> \/ (st.path = <<>> /\ Whites(st, L) = {})

Closes(st, adj, i, st2) ==
    /\ st.cycle = <<>> /\ i \in 1..Len(st.path) /\ st.path[i] \in adj[Last(st.path)]
    /\ st2 = [st EXCEPT !.cycle = Append(SubSeq(st.path, i, Len(st.path)), st.path[i])]

Enters(st, adj, m, st2) ==
    /\ st.cycle = <<>> /\ m \in NodeIds /\ st.color[m] = "white"
    /\ st.path # <<>> => m \in adj[Last(st.path)]
    /\ st2 = Enter(st, m)

Leaves(st, adj, st2) ==
    /\ st.cycle = <<>> /\ st.path # <<>>
    /\ \A m \in adj[Last(st.path)] : st.color[m] \notin {"gray", "white"}
    /\ st2 = [st EXCEPT !.color[Last(st.path)] = "black", !.path = Front(@)]

\* dfs does one of these.
LEMMA DfsCases ==
    ASSUME NEW L \in SUBSET NodeIds, NEW adj \in Successors, NEW st, Coherent(st, adj, L)
    PROVE  \/ Stays(st, L) /\ DfsStep(adj, L, st) = st
           \/ \E i : Closes(st, adj, i, DfsStep(adj, L, st))
           \/ \E m : Enters(st, adj, m, DfsStep(adj, L, st))
           \/ Leaves(st, adj, DfsStep(adj, L, st))
<1> DEFINE next == IF st.path = <<>> THEN L ELSE adj[Last(st.path)]
           back == {m \in next : st.color[m] = "gray"}
           pos(m) == CHOOSE i \in DOMAIN st.path : st.path[i] = m
           a == CHOOSE m \in back : TRUE
           b == CHOOSE m \in Whites(st, next) : TRUE
           st2 == DfsStep(adj, L, st)
<1>1. st.path \in Seq(NodeIds) /\ DOMAIN st.path = 1..Len(st.path)
  BY DEF Coherent, Colouring
<1>2. st.path # <<>> => Len(st.path) \in 1..Len(st.path) /\ Last(st.path) \in NodeIds
  BY <1>1 DEF Last
<1>3. next \in SUBSET NodeIds
  BY <1>2 DEF Successors
<1>4. st2 = IF st.cycle # <<>> THEN st
            ELSE IF back # {} THEN [st EXCEPT !.cycle = Append(SubSeq(st.path, pos(a), Len(st.path)), a)]
            ELSE IF Whites(st, next) # {} THEN Enter(st, b)
            ELSE IF st.path # <<>> THEN [st EXCEPT !.color[Last(st.path)] = "black", !.path = Front(@)]
            ELSE st
  BY DEF DfsStep
<1>5. CASE st.cycle # <<>>
  BY <1>4, <1>5 DEF Stays
<1>6. CASE st.cycle = <<>> /\ back # {}
  <2>1. a \in back /\ a \in NodeIds /\ a \in next /\ st.color[a] = "gray"
    BY <1>3, <1>6
  <2>2. \E i \in DOMAIN st.path : st.path[i] = a
    BY <1>1, <2>1 DEF Coherent
  <2> DEFINE i == pos(a)
  <2>3. i \in DOMAIN st.path /\ st.path[i] = a
    BY <2>2
  <2> HIDE DEF a
  <2>4. st.path # <<>> /\ next = adj[Last(st.path)]
    BY <1>1, <2>3
  <2>5. st2 = [st EXCEPT !.cycle = Append(SubSeq(st.path, i, Len(st.path)), a)]
    BY <1>4, <1>6
  <2> HIDE DEF i, pos, st2, back, next
  <2>6. Closes(st, adj, i, st2)
    BY <1>1, <1>6, <2>1, <2>3, <2>4, <2>5 DEF Closes
  <2>7. QED
    BY <2>6 DEF st2
<1>7. CASE st.cycle = <<>> /\ back = {} /\ Whites(st, next) # {}
  <2>1. b \in next /\ st.color[b] = "white"
    BY <1>7 DEF Whites
  <2>2. st2 = Enter(st, b)
    BY <1>4, <1>7
  <2>3. Enters(st, adj, b, st2)
    BY <1>3, <1>7, <2>1, <2>2 DEF Enters
  <2>4. QED
    BY <2>3
<1>8. CASE st.cycle = <<>> /\ back = {} /\ Whites(st, next) = {} /\ st.path # <<>>
  <2>1. st2 = [st EXCEPT !.color[Last(st.path)] = "black", !.path = Front(@)]
    BY <1>4, <1>8
  <2>2. \A m \in adj[Last(st.path)] : st.color[m] \notin {"gray", "white"}
    BY <1>8 DEF Whites
  <2>3. Leaves(st, adj, st2)
    BY <1>8, <2>1, <2>2 DEF Leaves
  <2>4. QED
    BY <2>3
<1>9. CASE st.cycle = <<>> /\ back = {} /\ Whites(st, next) = {} /\ st.path = <<>>
  <2>1. st2 = st
    BY <1>4, <1>9
  <2>2. Stays(st, L)
    BY <1>9 DEF Stays
  <2>3. QED
    BY <2>1, <2>2
<1>10. QED
  BY <1>5, <1>6, <1>7, <1>8, <1>9

Searching(st, adj, L, k) == Coherent(st, adj, L) /\ Ranked(st, adj, L, k) /\ Waiting(st, k)

\* From a node of the path that the last one is joined to, the path is a closed walk.
LEMMA ClosesKeeps ==
    ASSUME NEW L \in SUBSET NodeIds, NEW adj \in Successors, NEW st, NEW k \in Nat,
           Searching(st, adj, L, k), NEW i, NEW st2, Closes(st, adj, i, st2)
    PROVE  Searching(st2, adj, L, k + 1)
<1> DEFINE n == Len(st.path)
           s == SubSeq(st.path, i, n)
           c == Append(s, st.path[i])
<1>1. st \in Colouring /\ st.path \in Seq(NodeIds) /\ n \in Nat
  BY DEF Searching, Coherent, Colouring
<1>2. i \in 1..n /\ st.path[i] \in adj[st.path[n]] /\ st2 = [st EXCEPT !.cycle = c]
  BY DEF Closes, Last
<1>3. /\ s \in Seq(NodeIds) /\ Len(s) = n - i + 1
      /\ \A j \in 1..(n - i + 1) : s[j] = st.path[i + j - 1]
  <2>1. i \in Int /\ n \in Int /\ i <= n /\ \A j \in i..n : st.path[j] \in NodeIds
    BY <1>1, <1>2
  <2>2. QED
    BY <2>1, SubSeqProperties
<1> HIDE DEF s
<1>4. st.path[i] \in NodeIds
  BY <1>1, <1>2
<1>5. /\ c \in Seq(NodeIds) /\ c # <<>> /\ Len(c) = n - i + 2
      /\ \A j \in 1..(n - i + 1) : c[j] = st.path[i + j - 1]
      /\ c[n - i + 2] = st.path[i]
  <2>1. /\ c \in Seq(NodeIds) /\ c # <<>> /\ Len(c) = Len(s) + 1
        /\ \A j \in 1..Len(s) : c[j] = s[j]
        /\ c[Len(s) + 1] = st.path[i]
    <3>1. s \in Seq(NodeIds)
      BY <1>3
    <3>2. QED
      BY <3>1, <1>4, AppendProperties
  <2>2. Len(s) + 1 = n - i + 2
    BY <1>1, <1>2, <1>3
  <2> HIDE DEF c
  <2>3. QED
    BY <1>3, <2>1, <2>2
<1> HIDE DEF c
<1> HIDE DEF n
<1>6. Len(c) > 1 /\ c[1] = Last(c)
  <2>0. n \in Nat /\ i \in 1..n
    BY <1>1, <1>2
  <2>1. 1 \in 1..(n - i + 1) /\ i + 1 - 1 = i
    BY <2>0
  <2>2. c[1] = st.path[i]
    BY <1>5, <2>1
  <2>3. Len(c) > 1 /\ c[Len(c)] = st.path[i]
    BY <1>5, <2>0
  <2>4. QED
    BY <2>2, <2>3 DEF Last
<1>7. Joined(c, adj)
  <2> SUFFICES ASSUME NEW j \in 1..(Len(c) - 1) PROVE c[j + 1] \in adj[c[j]]
    BY DEF Joined
  <2>1. j \in 1..(n - i + 1) /\ c[j] = st.path[i + j - 1]
    <3>1. n \in Nat /\ i \in 1..n /\ Len(c) = n - i + 2
      BY <1>1, <1>2, <1>5
    <3>2. j \in 1..(n - i + 1)
      BY <3>1
    <3>3. QED
      BY <1>5, <3>2
  <2>2. CASE j = n - i + 1
    <3>0. n \in Nat /\ i \in 1..n
      BY <1>1, <1>2
    <3>1. i + j - 1 = n /\ j + 1 = n - i + 2
      BY <3>0, <2>2
    <3>2. c[j] = st.path[n] /\ c[j + 1] = st.path[i]
      BY <1>5, <2>1, <3>1
    <3>3. QED
      BY <1>2, <3>2
  <2>3. CASE j # n - i + 1
    <3>0. n \in Nat /\ i \in 1..n /\ j \in 1..(n - i + 1)
      BY <1>1, <1>2, <2>1
    <3>1. j + 1 \in 1..(n - i + 1) /\ i + (j + 1) - 1 = (i + j - 1) + 1 /\ i + j - 1 \in 1..(n - 1)
      BY <3>0, <2>3
    <3>2. c[j + 1] = st.path[(i + j - 1) + 1]
      BY <1>5, <3>1
    <3>3. st.path[(i + j - 1) + 1] \in adj[st.path[i + j - 1]]
      BY <3>1 DEF Searching, Coherent, Joined, n
    <3>4. QED
      BY <2>1, <3>2, <3>3
  <2>4. QED
    BY <2>2, <2>3
<1>8. st2.color = st.color /\ st2.path = st.path /\ st2.cycle = c /\ st2 \in Colouring
  BY <1>1, <1>2, <1>5 DEF Colouring
<1>9. Coherent(st2, adj, L)
  BY <1>6, <1>7, <1>8 DEF Searching, Coherent
<1>10. Ranked(st2, adj, L, k + 1)
  <2>1. PICK rank \in [NodeIds -> 0..k] :
            \A m \in NodeIds : st.color[m] = "black" =>
                \A o \in adj[m] \intersect L : st.color[o] = "black" /\ rank[o] < rank[m]
    BY DEF Searching, Ranked
  <2>2. rank \in [NodeIds -> 0..(k + 1)]
    OBVIOUS
  <2>3. QED
    BY <1>8, <2>1, <2>2 DEF Ranked
<1>11. Waiting(st2, k + 1)
  BY <1>5, <1>8 DEF Waiting
<1>12. QED
  BY <1>9, <1>10, <1>11 DEF Searching

\* A finite number of nodes is white.
LEMMA WhiteCount ==
    ASSUME NEW st
    PROVE  /\ IsFiniteSet(White(st)) /\ Cardinality(White(st)) \in Nat /\ Cardinality(White(st)) <= MaxNodes
           /\ Cardinality(White(st)) = 0 <=> White(st) = {}
<1>1. MaxNodes \in Int /\ 1 \in Int /\ (1 > MaxNodes => MaxNodes = 0)
  BY GraphAssumption
<1>2. IsFiniteSet(1..MaxNodes) /\ Cardinality(1..MaxNodes) = MaxNodes
  BY <1>1, FS_Interval
<1>3. White(st) \in SUBSET (1..MaxNodes)
  BY DEF White, NodeIds
<1>4. IsFiniteSet(White(st)) /\ Cardinality(White(st)) <= MaxNodes
  BY <1>2, <1>3, FS_Subset
<1>5. QED
  BY <1>4, FS_CardinalityType, FS_EmptySet

\* A white node goes to the end of the path.
LEMMA EntersKeeps ==
    ASSUME NEW L \in SUBSET NodeIds, NEW adj \in Successors, NEW st, NEW k \in Nat,
           Searching(st, adj, L, k), NEW m, NEW st2, Enters(st, adj, m, st2)
    PROVE  Searching(st2, adj, L, k + 1)
<1> DEFINE n == Len(st.path)
           p == Append(st.path, m)
           c == [st.color EXCEPT ![m] = "gray"]
<1>1. st \in Colouring /\ st.path \in Seq(NodeIds) /\ n \in Nat /\ st.color \in [NodeIds -> Colours]
  BY DEF Searching, Coherent, Colouring
<1>2. /\ st.cycle = <<>> /\ m \in NodeIds /\ st.color[m] = "white"
      /\ st.path # <<>> => m \in adj[st.path[n]]
      /\ st2 = [st EXCEPT !.color = c, !.path = p]
  BY DEF Enters, Enter, Last
<1>3. /\ p \in Seq(NodeIds) /\ Len(p) = n + 1 /\ p[n + 1] = m
      /\ \A i \in 1..n : p[i] = st.path[i]
  BY <1>1, <1>2, AppendProperties
<1>4. /\ c \in [NodeIds -> Colours] /\ c[m] = "gray"
      /\ \A o \in NodeIds \ {m} : c[o] = st.color[o]
  BY <1>1, <1>2 DEF Colours
<1> HIDE DEF p, c
<1>5. st2.color = c /\ st2.path = p /\ st2.cycle = <<>> /\ st2 \in Colouring
  BY <1>1, <1>2, <1>3, <1>4 DEF Colouring
<1>6. \A i \in 1..n : st.path[i] \in NodeIds /\ st.path[i] # m /\ st.color[st.path[i]] = "gray"
  <2>1. \A i \in 1..n : st.color[st.path[i]] = "gray"
    BY DEF Searching, Coherent
  <2>2. "gray" # "white"
    OBVIOUS
  <2>3. QED
    BY <1>1, <1>2, <2>1, <2>2
<1> HIDE DEF n
<1>7. \A i \in 1..(n + 1) : (i = n + 1 \/ i \in 1..n) /\ n + 1 \in 1..(n + 1) /\ (i \in 1..n => i # n + 1)
  BY <1>1
<1>8. Coherent(st2, adj, L)
  <2>1. \A o \in NodeIds : c[o] = None <=> o \notin L
    <3>1. "gray" # None /\ "white" # None
      BY DEF None
    <3>2. \A o \in NodeIds : st.color[o] = None <=> o \notin L
      BY DEF Searching, Coherent
    <3>3. QED
      BY <1>2, <1>4, <3>1, <3>2
  <2>2. \A i \in 1..(n + 1) : c[p[i]] = "gray"
    BY <1>3, <1>4, <1>6, <1>7
  <2>3. \A o \in NodeIds : c[o] = "gray" => \E i \in 1..(n + 1) : p[i] = o
    <3> SUFFICES ASSUME NEW o \in NodeIds, c[o] = "gray" PROVE \E i \in 1..(n + 1) : p[i] = o
      OBVIOUS
    <3>1. CASE o = m
      <4>1. n + 1 \in 1..(n + 1)
        BY <1>1
      <4>2. QED
        BY <1>3, <3>1, <4>1
    <3>2. CASE o # m
      <4>1. PICK i \in 1..n : st.path[i] = o
        BY <1>4, <3>2 DEF Searching, Coherent, n
      <4>2. i \in 1..(n + 1)
        BY <1>1
      <4>3. QED
        BY <1>3, <4>1, <4>2
    <3>3. QED
      BY <3>1, <3>2
  <2>4. \A i, j \in 1..(n + 1) : p[i] = p[j] => i = j
    <3>1. \A i, j \in 1..n : st.path[i] = st.path[j] => i = j
      BY DEF Searching, Coherent, n
    <3>2. QED
      BY <1>3, <1>6, <1>7, <3>1
  <2>5. Joined(p, adj)
    <3> SUFFICES ASSUME NEW i \in 1..n PROVE p[i + 1] \in adj[p[i]]
      BY <1>1, <1>3 DEF Joined
    <3>1. CASE i = n
      <4>1. st.path # <<>> /\ n \in 1..n
        BY <1>1, <3>1 DEF n
      <4>2. QED
        BY <1>2, <1>3, <3>1, <4>1
    <3>2. CASE i # n
      <4>1. i \in 1..(n - 1) /\ i + 1 \in 1..n
        BY <1>1, <3>2
      <4>2. st.path[i + 1] \in adj[st.path[i]]
        BY <4>1 DEF Searching, Coherent, Joined, n
      <4>3. QED
        BY <1>3, <4>1, <4>2
    <3>3. QED
      BY <3>1, <3>2
  <2>6. QED
    BY <1>3, <1>5, <2>1, <2>2, <2>3, <2>4, <2>5 DEF Coherent
<1>9. Ranked(st2, adj, L, k + 1)
  <2>1. PICK rank \in [NodeIds -> 0..k] :
            \A u \in NodeIds : st.color[u] = "black" =>
                \A o \in adj[u] \intersect L : st.color[o] = "black" /\ rank[o] < rank[u]
    BY DEF Searching, Ranked
  <2>2. rank \in [NodeIds -> 0..(k + 1)]
    OBVIOUS
  <2>3. "gray" # "black" /\ "white" # "black"
    OBVIOUS
  <2>4. \A u \in NodeIds : c[u] = "black" <=> st.color[u] = "black"
    BY <1>2, <1>4, <2>3
  <2>5. \A u \in NodeIds : c[u] = "black" => \A o \in adj[u] \intersect L : c[o] = "black" /\ rank[o] < rank[u]
    BY <2>1, <2>4
  <2>6. QED
    BY <1>5, <2>2, <2>5 DEF Ranked
<1>10. Waiting(st2, k + 1)
  <2>1. White(st2) = White(st) \ {m} /\ m \in White(st)
    <3>1. "gray" # "white"
      OBVIOUS
    <3>2. QED
      BY <1>2, <1>4, <1>5, <3>1 DEF White
  <2>2. Cardinality(White(st2)) = Cardinality(White(st)) - 1
    BY <2>1, WhiteCount, FS_RemoveElement
  <2>3. Cardinality(White(st)) \in Nat /\ Cardinality(White(st2)) \in Nat
    BY WhiteCount
  <2>4. Left(st2) = Left(st) - 1 /\ Left(st) # 0 /\ Left(st) \in Nat
    <3> DEFINE w == Cardinality(White(st))
               v == Cardinality(White(st2))
    <3>1. Left(st) = 2 * w + n /\ Left(st2) = 2 * v + (n + 1)
      BY <1>3, <1>5 DEF Left, n
    <3>2. w \in Nat /\ v \in Nat /\ v = w - 1 /\ n \in Nat
      BY <1>1, <2>2, <2>3
    <3> HIDE DEF w, v
    <3>3. QED
      BY <3>1, <3>2
  <2>5. Left(st) + k <= SearchLimit
    BY <1>2, <2>4 DEF Searching, Waiting
  <2>6. SearchLimit \in Nat
    BY GraphAssumption DEF SearchLimit
  <2>7. Left(st2) + (k + 1) <= SearchLimit
    BY <2>4, <2>5, <2>6
  <2>8. QED
    BY <2>7 DEF Waiting
<1>11. QED
  BY <1>8, <1>9, <1>10 DEF Searching

\* The last node of the path becomes black, and later than what it is joined to.
LEMMA LeavesKeeps ==
    ASSUME NEW L \in SUBSET NodeIds, NEW adj \in Successors, NEW st, NEW k \in Nat,
           Searching(st, adj, L, k), NEW st2, Leaves(st, adj, st2)
    PROVE  Searching(st2, adj, L, k + 1)
<1> DEFINE n == Len(st.path)
           u == st.path[n]
           p == Front(st.path)
           c == [st.color EXCEPT ![u] = "black"]
<1>1. st \in Colouring /\ st.path \in Seq(NodeIds) /\ n \in Nat /\ st.color \in [NodeIds -> Colours]
  BY DEF Searching, Coherent, Colouring
<1>2. /\ st.cycle = <<>> /\ st.path # <<>> /\ \A m \in adj[u] : st.color[m] \notin {"gray", "white"}
      /\ st2 = [st EXCEPT !.color = c, !.path = p]
  BY DEF Leaves, Last
<1>3. n >= 1 /\ n \in 1..n /\ u \in NodeIds
  BY <1>1, <1>2
<1>4. /\ p \in Seq(NodeIds) /\ Len(p) = n - 1 /\ \A i \in 1..(n - 1) : p[i] = st.path[i]
  <2>1. 1 \in Int /\ n - 1 \in Int /\ \A i \in 1..(n - 1) : st.path[i] \in NodeIds
    BY <1>1, <1>3
  <2>2. /\ SubSeq(st.path, 1, n - 1) \in Seq(NodeIds)
        /\ Len(SubSeq(st.path, 1, n - 1)) = IF 1 <= n - 1 THEN (n - 1) - 1 + 1 ELSE 0
        /\ \A i \in 1..((n - 1) - 1 + 1) : SubSeq(st.path, 1, n - 1)[i] = st.path[1 + i - 1]
    BY <2>1, SubSeqProperties
  <2>3. p = SubSeq(st.path, 1, n - 1)
    BY DEF Front
  <2>4. (n - 1) - 1 + 1 = n - 1 /\ (~(1 <= n - 1) => n - 1 = 0) /\ \A i \in 1..(n - 1) : 1 + i - 1 = i
    <3>1. n \in Nat /\ n >= 1
      BY <1>1, <1>3
    <3> HIDE DEF n
    <3>2. QED
      BY <3>1
  <2> HIDE DEF p, n
  <2>5. QED
    BY <2>2, <2>3, <2>4
<1>5. /\ c \in [NodeIds -> Colours] /\ c[u] = "black"
      /\ \A o \in NodeIds \ {u} : c[o] = st.color[o]
  BY <1>1, <1>3 DEF Colours
<1> HIDE DEF p, c
<1>6. st2.color = c /\ st2.path = p /\ st2.cycle = <<>> /\ st2 \in Colouring
  BY <1>1, <1>2, <1>4, <1>5 DEF Colouring
<1>7. st.color[u] = "gray" /\ \A i \in 1..(n - 1) : i \in 1..n /\ st.path[i] \in NodeIds \ {u}
  <2>1. st.color[u] = "gray"
    BY <1>3 DEF Searching, Coherent
  <2>2. \A i \in 1..(n - 1) : i \in 1..n /\ i # n
    BY <1>1
  <2>3. \A i \in 1..(n - 1) : st.path[i] # u
    BY <1>3, <2>2 DEF Searching, Coherent
  <2>4. \A i \in 1..n : st.path[i] \in NodeIds
    BY <1>1
  <2> HIDE DEF n, u
  <2>5. QED
    BY <2>1, <2>2, <2>3, <2>4
<1> HIDE DEF n, u
<1>8. Coherent(st2, adj, L)
  <2>1. \A o \in NodeIds : c[o] = None <=> o \notin L
    <3>1. "gray" # None /\ "black" # None
      BY DEF None
    <3>2. \A o \in NodeIds : st.color[o] = None <=> o \notin L
      BY DEF Searching, Coherent
    <3>3. QED
      BY <1>3, <1>5, <1>7, <3>1, <3>2
  <2>2. \A i \in 1..(n - 1) : c[p[i]] = "gray"
    <3>1. \A i \in 1..n : st.color[st.path[i]] = "gray"
      BY DEF Searching, Coherent, n
    <3>2. QED
      BY <1>4, <1>5, <1>7, <3>1
  <2>3. \A o \in NodeIds : c[o] = "gray" => \E i \in 1..(n - 1) : p[i] = o
    <3> SUFFICES ASSUME NEW o \in NodeIds, c[o] = "gray" PROVE \E i \in 1..(n - 1) : p[i] = o
      OBVIOUS
    <3>1. o # u /\ st.color[o] = "gray"
      BY <1>5
    <3>2. PICK i \in 1..n : st.path[i] = o
      BY <3>1 DEF Searching, Coherent, n
    <3>3. i \in 1..(n - 1)
      BY <1>1, <3>1, <3>2 DEF u
    <3>4. QED
      BY <1>4, <3>2, <3>3
  <2>4. \A i, j \in 1..(n - 1) : p[i] = p[j] => i = j
    <3>1. \A i, j \in 1..n : st.path[i] = st.path[j] => i = j
      BY DEF Searching, Coherent, n
    <3>2. QED
      BY <1>4, <1>7, <3>1
  <2>5. Joined(p, adj)
    <3> SUFFICES ASSUME NEW i \in 1..((n - 1) - 1) PROVE p[i + 1] \in adj[p[i]]
      BY <1>4 DEF Joined
    <3>1. i \in 1..(n - 1) /\ i + 1 \in 1..(n - 1)
      BY <1>1, <1>3
    <3>2. st.path[i + 1] \in adj[st.path[i]]
      BY <3>1 DEF Searching, Coherent, Joined, n
    <3>3. QED
      BY <1>4, <3>1, <3>2
  <2>6. QED
    BY <1>4, <1>6, <2>1, <2>2, <2>3, <2>4, <2>5 DEF Coherent
<1>9. Ranked(st2, adj, L, k + 1)
  <2>1. PICK rank \in [NodeIds -> 0..k] :
            \A v \in NodeIds : st.color[v] = "black" =>
                \A o \in adj[v] \intersect L : st.color[o] = "black" /\ rank[o] < rank[v]
    BY DEF Searching, Ranked
  <2> DEFINE r == [rank EXCEPT ![u] = k + 1]
  <2>2. r \in [NodeIds -> 0..(k + 1)] /\ r[u] = k + 1 /\ \A v \in NodeIds \ {u} : r[v] = rank[v]
    BY <1>3
  <2> HIDE DEF r
  <2>3. ASSUME NEW v \in NodeIds, c[v] = "black", NEW o \in adj[v] \intersect L
        PROVE  c[o] = "black" /\ r[o] < r[v]
    <3>1. o \in NodeIds
      OBVIOUS
    <3>2. CASE v = u
      <4>1. st.color[o] \in Colours /\ st.color[o] # None /\ st.color[o] \notin {"gray", "white"}
        BY <1>1, <1>2, <2>3, <3>1, <3>2 DEF Searching, Coherent
      <4>2. st.color[o] = "black"
        BY <4>1 DEF Colours
      <4>3. o # u
        BY <1>7, <4>2
      <4>4. rank[o] \in 0..k /\ rank[o] < k + 1
        BY <3>1
      <4>5. QED
        BY <1>5, <2>2, <3>1, <3>2, <4>2, <4>3, <4>4
    <3>3. CASE v # u
      <4>1. st.color[v] = "black"
        BY <1>5, <2>3, <3>3
      <4>2. st.color[o] = "black" /\ rank[o] < rank[v]
        BY <2>1, <2>3, <4>1
      <4>3. o # u
        BY <1>7, <4>2
      <4>4. QED
        BY <1>5, <2>2, <3>1, <3>3, <4>2, <4>3
    <3>4. QED
      BY <3>2, <3>3
  <2>4. QED
    BY <1>6, <2>2, <2>3 DEF Ranked
<1>10. Waiting(st2, k + 1)
  <2>1. White(st2) = White(st)
    <3>1. "gray" # "white" /\ "black" # "white"
      OBVIOUS
    <3>2. \A o \in NodeIds : c[o] = "white" <=> st.color[o] = "white"
      BY <1>5, <1>7, <3>1
    <3>3. QED
      BY <1>6, <3>2 DEF White
  <2>2. Left(st2) = Left(st) - 1 /\ Left(st) # 0 /\ Left(st) \in Nat
    <3> DEFINE w == Cardinality(White(st))
    <3>1. Left(st) = 2 * w + n /\ Left(st2) = 2 * w + (n - 1)
      BY <1>4, <1>6, <2>1 DEF Left, n
    <3>2. w \in Nat /\ n \in Nat /\ n >= 1
      BY <1>1, <1>3, WhiteCount
    <3> HIDE DEF w
    <3>3. QED
      BY <3>1, <3>2
  <2>3. Left(st) + k <= SearchLimit
    BY <1>2, <2>2 DEF Searching, Waiting
  <2>4. SearchLimit \in Nat
    BY GraphAssumption DEF SearchLimit
  <2>5. Left(st2) + (k + 1) <= SearchLimit
    BY <2>2, <2>3, <2>4
  <2>6. QED
    BY <2>5 DEF Waiting
<1>11. QED
  BY <1>8, <1>9, <1>10 DEF Searching

\* A search that stays is over.
LEMMA StaysKeeps ==
    ASSUME NEW L \in SUBSET NodeIds, NEW adj \in Successors, NEW st, NEW k \in Nat,
           Searching(st, adj, L, k), Stays(st, L)
    PROVE  Searching(st, adj, L, k + 1)
<1>1. Ranked(st, adj, L, k + 1)
  <2>1. PICK rank \in [NodeIds -> 0..k] :
            \A m \in NodeIds : st.color[m] = "black" =>
                \A o \in adj[m] \intersect L : st.color[o] = "black" /\ rank[o] < rank[m]
    BY DEF Searching, Ranked
  <2>2. rank \in [NodeIds -> 0..(k + 1)]
    OBVIOUS
  <2>3. QED
    BY <2>1, <2>2 DEF Ranked
<1>2. Waiting(st, k + 1)
  <2>1. CASE st.cycle # <<>>
    BY <2>1 DEF Waiting
  <2>2. CASE st.path = <<>> /\ Whites(st, L) = {}
    <3>1. White(st) = {}
      <4>1. "white" # None
        BY DEF None
      <4>2. \A m \in NodeIds : st.color[m] = "white" => m \in L
        BY <4>1 DEF Searching, Coherent
      <4>3. QED
        BY <2>2, <4>2 DEF White, Whites
    <3>2. Cardinality(White(st)) = 0 /\ Len(st.path) = 0
      BY <2>2, <3>1, WhiteCount
    <3>3. Left(st) = 0
      BY <3>2 DEF Left
    <3>4. QED
      BY <3>3 DEF Waiting
  <2>3. QED
    BY <2>1, <2>2 DEF Stays
<1>3. QED
  BY <1>1, <1>2 DEF Searching

\* Whichever it does, the search is one step on.
LEMMA SearchSteps ==
    ASSUME NEW L \in SUBSET NodeIds, NEW adj \in Successors, NEW st, NEW k \in Nat,
           Searching(st, adj, L, k)
    PROVE  Searching(DfsStep(adj, L, st), adj, L, k + 1)
<1> DEFINE st2 == DfsStep(adj, L, st)
<1>0. Coherent(st, adj, L)
  BY DEF Searching
<1>1. \/ Stays(st, L) /\ st2 = st
      \/ \E i : Closes(st, adj, i, st2)
      \/ \E m : Enters(st, adj, m, st2)
      \/ Leaves(st, adj, st2)
  BY <1>0, DfsCases
<1> SUFFICES Searching(st2, adj, L, k + 1)
  OBVIOUS
<1> HIDE DEF st2
<1>2. CASE Stays(st, L) /\ st2 = st
  BY <1>2, StaysKeeps
<1>3. CASE \E i : Closes(st, adj, i, st2)
  BY <1>3, ClosesKeeps
<1>4. CASE \E m : Enters(st, adj, m, st2)
  BY <1>4, EntersKeeps
<1>5. CASE Leaves(st, adj, st2)
  BY <1>5, LeavesKeeps
<1>6. QED
  BY <1>1, <1>2, <1>3, <1>4, <1>5

\* A search begins with all listed nodes white.
LEMMA SearchBegins ==
    ASSUME NEW L \in SUBSET NodeIds, NEW adj \in Successors
    PROVE  Searching(Uncoloured(L), adj, L, 0)
<1> DEFINE c == [n \in NodeIds |-> IF n \in L THEN "white" ELSE None]
           st == Uncoloured(L)
<1>1. st.color = c /\ st.path = <<>> /\ st.cycle = <<>> /\ st = [color |-> c, path |-> <<>>, cycle |-> <<>>]
  BY DEF Uncoloured
<1>2. "white" # None /\ None # "gray" /\ None # "black" /\ "white" # "black" /\ "white" # "gray"
  BY DEF None
<1>3. c \in [NodeIds -> Colours] /\ <<>> \in Seq(NodeIds) /\ Len(<<>>) = 0
  BY DEF Colours
<1>4. \A n \in NodeIds : (c[n] = None <=> n \notin L) /\ c[n] # "gray" /\ c[n] # "black"
  BY <1>2
<1> HIDE DEF c, st
<1>5. st \in Colouring
  BY <1>1, <1>3 DEF Colouring
<1>6. Coherent(st, adj, L)
  BY <1>1, <1>3, <1>4, <1>5 DEF Coherent, Joined
<1>7. Ranked(st, adj, L, 0)
  <2>1. [n \in NodeIds |-> 0] \in [NodeIds -> 0..0]
    OBVIOUS
  <2>2. QED
    BY <1>1, <1>4, <2>1 DEF Ranked
<1>8. Waiting(st, 0)
  <2> DEFINE w == Cardinality(White(st))
  <2>1. w \in Nat /\ w <= MaxNodes /\ MaxNodes \in Nat
    BY WhiteCount, GraphAssumption
  <2>2. Left(st) = 2 * w + 0
    BY <1>1, <1>3 DEF Left
  <2> HIDE DEF w
  <2>3. Left(st) + 0 <= SearchLimit
    BY <2>1, <2>2 DEF SearchLimit
  <2>4. QED
    BY <2>3 DEF Waiting
<1>9. QED
  BY <1>6, <1>7, <1>8 DEF Searching, st

\* The search goes on as long as the steps do.
LEMMA SearchIs ==
    ASSUME NEW L \in SUBSET NodeIds, NEW adj \in Successors
    PROVE  Searching(Search(adj, L, L)[SearchLimit], adj, L, SearchLimit)
<1> DEFINE S == {st \in Colouring : \E k \in Nat : Searching(st, adj, L, k)}
           step == [st \in S |-> DfsStep(adj, L, st)]
           start == Uncoloured(L)
           limit == SearchLimit
           after == Search(adj, L, L)
           Body(f) == [k \in 0..SearchLimit |-> IF k = 0 THEN Uncoloured(L) ELSE DfsStep(adj, L, f[k - 1])]
<1>1. limit \in Nat
  BY GraphAssumption DEF SearchLimit
<1>2. start \in S
  <2>1. Searching(start, adj, L, 0)
    BY SearchBegins
  <2> HIDE DEF start
  <2>2. start \in Colouring
    BY <2>1 DEF Searching, Coherent
  <2>3. QED
    BY <2>1, <2>2
<1>3. step \in [S -> S] /\ \A st \in S : step[st] = DfsStep(adj, L, st)
  <2>1. \A st \in S : DfsStep(adj, L, st) \in S
    <3> TAKE st \in S
    <3>1. PICK k \in Nat : Searching(st, adj, L, k)
      OBVIOUS
    <3> DEFINE st2 == DfsStep(adj, L, st)
    <3>2. Searching(st2, adj, L, k + 1) /\ k + 1 \in Nat
      BY <3>1, SearchSteps
    <3> HIDE DEF st2
    <3>3. st2 \in Colouring
      BY <3>2 DEF Searching, Coherent
    <3>4. st2 \in S
      BY <3>2, <3>3
    <3>5. QED
      BY <3>4 DEF st2
  <2> HIDE DEF S
  <2>2. QED
    BY <2>1
<1> HIDE DEF S, step
<1>4. PICK f : f \in [0..limit -> S] /\ f[0] = start /\ \A k \in 1..limit : f[k] = step[f[k - 1]]
  <2>1. step \in [S -> S]
    BY <1>3
  <2> HIDE DEF start, limit
  <2>2. \E f : Iterates(f, S, start, step, limit)
    BY <1>1, <1>2, <2>1, Iterated
  <2>3. QED
    BY <2>2 DEF Iterates
<1>5. f = Body(f)
  <2>1. ASSUME NEW k \in 0..limit
        PROVE  f[k] = IF k = 0 THEN start ELSE DfsStep(adj, L, f[k - 1])
    <3> HIDE DEF start, limit
    <3>1. CASE k = 0
      BY <1>4, <3>1
    <3>2. CASE k # 0
      <4>1. k \in 1..limit /\ k - 1 \in 0..limit
        BY <1>1, <3>2
      <4>2. f[k] = step[f[k - 1]] /\ f[k - 1] \in S
        BY <1>4, <4>1
      <4>3. QED
        BY <1>3, <3>2, <4>2
    <3>3. QED
      BY <3>1, <3>2
  <2>2. f = [k \in 0..limit |-> f[k]]
    BY <1>4
  <2>3. QED
    BY <2>1, <2>2
<1>6. after = Body(after)
  <2>1. after = CHOOSE h : h = Body(h)
    BY DEF Search
  <2> HIDE DEF Body, after
  <2>2. QED
    BY <1>5, <2>1
<1> HIDE DEF after
<1>7. after[0] = start /\ \A k \in 1..limit : after[k] = DfsStep(adj, L, after[k - 1])
  <2> DEFINE B == Body(after)
  <2>1. B[0] = start
    BY <1>1
  <2>2. \A k \in 1..limit : B[k] = DfsStep(adj, L, after[k - 1])
    BY <1>1
  <2>3. after = B
    BY <1>6
  <2> HIDE DEF B, start, limit
  <2>4. QED
    BY <2>1, <2>2, <2>3
<1> DEFINE T == {j \in Nat : j <= limit => Searching(after[j], adj, L, j)}
<1> HIDE DEF limit
<1>8. 0 \in T
  BY <1>7, SearchBegins
<1>9. \A j \in T : j + 1 \in T
  <2> TAKE j \in T
  <2> SUFFICES ASSUME j + 1 <= limit PROVE Searching(after[j + 1], adj, L, j + 1)
    OBVIOUS
  <2>1. j \in Nat /\ j <= limit /\ j + 1 \in 1..limit /\ (j + 1) - 1 = j
    BY <1>1
  <2>2. Searching(after[j], adj, L, j) /\ after[j + 1] = DfsStep(adj, L, after[j])
    BY <1>7, <2>1
  <2>3. Searching(DfsStep(adj, L, after[j]), adj, L, j + 1)
    BY <2>1, <2>2, SearchSteps
  <2>4. QED
    BY <2>2, <2>3
<1> HIDE DEF T
<1>10. T = Nat
  BY <1>8, <1>9, AllNaturals DEF T
<1>11. Searching(after[limit], adj, L, limit)
  BY <1>1, <1>10 DEF T
<1>12. QED
  BY <1>11 DEF after, limit

\* A walk among nodes that decrease does not come back.
LEMMA NoReturn ==
    ASSUME NEW next \in Successors, NEW L \in SUBSET NodeIds, NEW max \in Nat,
           NEW rank \in [NodeIds -> Nat],
           \A n \in L : \A m \in next[n] : m \in L /\ rank[m] < rank[n],
           NEW n \in L, NEW k \in 1..max
    PROVE  n \notin Walks(next[n], next, max)[k]
<1> DEFINE W == Walks(next[n], next, max)
           T == {j \in Nat : j + 1 \in 1..max => \A m \in W[j + 1] : m \in L /\ rank[m] < rank[n]}
<1>1. next[n] \in SUBSET NodeIds
  BY DEF Successors
<1>2. Layered(W, next[n], next, max)
  BY <1>1, WalksAre
<1> HIDE DEF W
<1>3. /\ (1 <= max => W[1] = next[n]) /\ \A i \in 2..max : W[i] = UNION {next[m] : m \in W[i - 1]}
  BY <1>2 DEF Layered
<1>4. 0 \in T
  <2>1. 0 + 1 = 1 /\ 0 \in Nat /\ (1 \in 1..max => 1 <= max)
    OBVIOUS
  <2>2. QED
    BY <1>3, <2>1
<1>5. \A j \in T : j + 1 \in T
  <2> TAKE j \in T
  <2> SUFFICES ASSUME (j + 1) + 1 \in 1..max, NEW m \in W[(j + 1) + 1]
               PROVE  m \in L /\ rank[m] < rank[n]
    OBVIOUS
  <2>1. (j + 1) + 1 \in 2..max /\ ((j + 1) + 1) - 1 = j + 1 /\ j + 1 \in 1..max
    OBVIOUS
  <2>2. PICK o \in W[j + 1] : m \in next[o]
    BY <1>3, <2>1
  <2>3. o \in L /\ rank[o] < rank[n]
    BY <2>1
  <2>4. m \in L /\ rank[m] < rank[o]
    BY <2>2, <2>3
  <2>5. rank[m] \in Nat /\ rank[o] \in Nat /\ rank[n] \in Nat
    BY <2>3, <2>4
  <2>6. QED
    BY <2>3, <2>4, <2>5
<1> HIDE DEF T
<1>6. T = Nat
  BY <1>4, <1>5, AllNaturals DEF T
<1>7. k - 1 \in T /\ (k - 1) + 1 = k
  BY <1>6
<1>8. \A m \in W[k] : rank[m] < rank[n]
  BY <1>7 DEF T
<1>9. rank[n] \in Nat
  OBVIOUS
<1>10. QED
  BY <1>8, <1>9 DEF W

\* What the search of the listed nodes answers.
LEMMA CycleInIs ==
    ASSUME NEW es \in SUBSET GraphEdge, NEW L \in SUBSET NodeIds
    PROVE  /\ CycleIn(L, es) \in Seq(NodeIds)
           /\ CycleIn(L, es) # <<>> => /\ Len(CycleIn(L, es)) > 1 /\ CycleIn(L, es)[1] = Last(CycleIn(L, es))
                                       /\ Joined(CycleIn(L, es), Adjacent(es))
           /\ CycleIn(L, es) = <<>> =>
                \E rank \in [NodeIds -> Nat] :
                    \A n \in L : \A m \in Adjacent(es)[n] \intersect L : rank[m] < rank[n]
<1> DEFINE adj == Adjacent(es)
           st == Search(adj, L, L)[SearchLimit]
<1>1. adj \in Successors
  BY DEF Adjacent, Successors, Outgoing, GraphEdge
<1> HIDE DEF adj
<1>2. Searching(st, adj, L, SearchLimit) /\ SearchLimit \in Nat
  BY <1>1, SearchIs, GraphAssumption DEF SearchLimit
<1>3. CycleIn(L, es) = st.cycle
  BY DEF CycleIn, adj
<1> HIDE DEF st
<1>4. Coherent(st, adj, L) /\ Ranked(st, adj, L, SearchLimit) /\ Waiting(st, SearchLimit) /\ st \in Colouring
  BY <1>2 DEF Searching, Coherent
<1>5. /\ st.cycle \in Seq(NodeIds)
      /\ st.cycle # <<>> => Len(st.cycle) > 1 /\ st.cycle[1] = Last(st.cycle) /\ Joined(st.cycle, adj)
  BY <1>4 DEF Coherent, Colouring
<1>6. ASSUME st.cycle = <<>>
      PROVE  \E rank \in [NodeIds -> Nat] : \A n \in L : \A m \in adj[n] \intersect L : rank[m] < rank[n]
  <2>1. Left(st) = 0
    <3> DEFINE l == Left(st)
    <3>1. l \in Nat
      <4>1. Cardinality(White(st)) \in Nat /\ Len(st.path) \in Nat
        BY <1>4, WhiteCount DEF Colouring
      <4>2. QED
        BY <4>1 DEF Left
    <3>2. l = 0 \/ l + SearchLimit <= SearchLimit
      BY <1>4, <1>6 DEF Waiting
    <3> HIDE DEF l
    <3>3. l = 0
      BY <1>2, <3>1, <3>2
    <3>4. QED
      BY <3>3 DEF l
  <2>2. White(st) = {} /\ Len(st.path) = 0
    <3> DEFINE w == Cardinality(White(st))
               p == Len(st.path)
    <3>1. w \in Nat /\ p \in Nat /\ 2 * w + p = 0
      BY <1>4, <2>1, WhiteCount DEF Colouring, Left
    <3> HIDE DEF w, p
    <3>2. w = 0 /\ p = 0
      BY <3>1
    <3>3. QED
      BY <3>2, WhiteCount DEF w, p
  <2>3. \A n \in L : st.color[n] = "black"
    <3> TAKE n \in L
    <3>1. n \in NodeIds /\ st.color[n] \in Colours /\ st.color[n] # None
      BY <1>4 DEF Coherent, Colouring
    <3>2. st.color[n] # "white"
      BY <2>2, <3>1 DEF White
    <3>3. st.color[n] # "gray"
      BY <1>4, <2>2, <3>1 DEF Coherent
    <3>4. QED
      BY <3>1, <3>2, <3>3 DEF Colours
  <2>4. PICK rank \in [NodeIds -> 0..SearchLimit] :
            \A n \in NodeIds : st.color[n] = "black" =>
                \A m \in adj[n] \intersect L : st.color[m] = "black" /\ rank[m] < rank[n]
    BY <1>4 DEF Ranked
  <2>5. rank \in [NodeIds -> Nat]
    BY <1>2
  <2>6. QED
    BY <2>3, <2>4, <2>5
<1>7. QED
  BY <1>3, <1>5, <1>6 DEF adj

\* The listed nodes are the nodes of one workflow, and what they were joined to
\* when they were listed is among them.
Cycling ==
    /\ ask.listed \in SUBSET NodeIds /\ ask.listed # {} /\ \A n \in ask.listed : Exists(n)
    /\ \A m, n \in ask.listed : node[m].scope = node[n].scope
    /\ \A e \in ask.then : e.from \in ask.listed => e.to \in ask.listed

\* All nodes of the workflow are listed, and no edge leaves it.
LEMMA BeginCyclesKeeps ==
    ASSUME Inductive, ScopesOK, BeginCycles
    PROVE  AskOK' /\ ask'.kind = "cycles" /\ ask'.pc = "run" /\ Cycling'
<1>1. PICK scope \in Scopes :
        LET listed == {n \in NodeIds : Exists(n) /\ node[n].scope = scope} IN
        /\ listed # {}
        /\ Begin("cycles", [NoQuery EXCEPT !.listed = listed])
  BY DEF BeginCycles
<1> DEFINE listed == {n \in NodeIds : Exists(n) /\ node[n].scope = scope}
           q == [NoQuery EXCEPT !.listed = listed]
<1>2. listed # {} /\ Begin("cycles", q)
  BY <1>1
<1>3. /\ listed \in SUBSET NodeIds /\ \A n \in listed : Exists(n) /\ node[n].scope = scope
      /\ \A n : Exists(n) /\ node[n].scope = scope => n \in listed
  BY DEF Exists
<1> HIDE DEF listed
<1>4. /\ DOMAIN ask' = AskFields /\ UNCHANGED <<node, edges>>
      /\ ask'.pc = "run" /\ ask'.kind = "cycles" /\ ask'.then = edges /\ ask'.listed = listed /\ ask'.max = 0
      /\ ask'.types = {} /\ ask'.queue = {} /\ ask'.visited = {}
      /\ ask'.depth = [n \in NodeIds |-> 0] /\ ask'.parent = [n \in NodeIds |-> NoNode]
  <2>1. /\ DOMAIN q = AskFields /\ q.max = 0 /\ q.types = {} /\ q.queue = {} /\ q.visited = {} /\ q.listed = listed
        /\ q.depth = [n \in NodeIds |-> 0] /\ q.parent = [n \in NodeIds |-> NoNode]
    BY NoQueryIs DEF AskFields
  <2> HIDE DEF q
  <2>2. QED
    BY <1>2, <2>1, BeginStep
<1>5. AskOK'
  BY <1>4, BlankMaps DEF AskOK
<1>6. \A e \in edges : e.from \in listed => e.to \in listed
  <2> SUFFICES ASSUME NEW e \in edges, e.from \in listed PROVE e.to \in listed
    OBVIOUS
  <2>1. Exists(e.to)
    BY DEF Inductive, Tables
  <2>2. node[e.to].scope = node[e.from].scope
    BY DEF ScopesOK, InOneScope
  <2>3. QED
    BY <1>3, <2>1, <2>2
<1>7. Cycling'
  BY <1>2, <1>3, <1>4, <1>6 DEF Cycling, Exists
<1>8. QED
  BY <1>4, <1>5, <1>7

\* Nodes stay in their workflow.
LEMMA CyclingStays ==
    ASSUME Inductive, AskOK, Cycling, Change
    PROVE  Cycling'
<1>1. /\ SameQuestion /\ \A n : Exists(n) => Exists(n)' /\ node'[n] = node[n]
  BY ChangeStep
<1>2. ask'.listed = ask.listed /\ ask'.then = ask.then
  BY <1>1 DEF SameQuestion
<1>3. QED
  BY <1>1, <1>2 DEF Cycling

\* The cycle is of edges that are there; without one the listed nodes can be put
\* in an order that no edge among them goes against.
LEMMA CycleAnswers ==
    ASSUME Inductive, AskOK, Cycling, DetectCycles
    PROVE  AskOK' /\ CycleReported'
<1> DEFINE L == ask.listed
           scope == node[CHOOSE n \in L : TRUE].scope
           es == {e \in edges : node[e.from].scope = scope}
           c == CycleIn(L, es)
           adj == Adjacent(es)
           next == OutNext(ask.then, EdgeTypes, NodeIds)
<1>1. ask.kind = "cycles" /\ UNCHANGED <<node, edges>> /\ ask' = [ask EXCEPT !.path = c, !.pc = "done"]
  BY DEF DetectCycles, vars
<1>2. edges \in SUBSET GraphEdge /\ ask.then \subseteq edges /\ ask.then \in SUBSET GraphEdge
  BY GraphUnder DEF AskOK
<1>3. L \in SUBSET NodeIds /\ L # {} /\ \A n \in L : node[n].scope = scope
  BY DEF Cycling
<1> HIDE DEF scope
<1>4. es \in SUBSET GraphEdge /\ es \subseteq edges /\ \A e \in edges : e.from \in L => e \in es
  BY <1>2, <1>3
<1> HIDE DEF es
<1>5. /\ c \in Seq(NodeIds)
      /\ c # <<>> => Len(c) > 1 /\ c[1] = Last(c) /\ Joined(c, adj)
      /\ c = <<>> => \E rank \in [NodeIds -> Nat] : \A n \in L : \A m \in adj[n] \intersect L : rank[m] < rank[n]
  BY <1>3, <1>4, CycleInIs
<1> HIDE DEF c
<1>6. /\ DOMAIN ask' = AskFields /\ SameQuestion /\ SameSearch /\ ask'.path = c /\ ask'.pc = "done"
  BY <1>1 DEF AskOK, AskFields, SameQuestion, SameSearch
<1>7. AskOK'
  BY <1>1, <1>6 DEF AskOK, SameQuestion, SameSearch, Exists
<1>8. ASSUME c # <<>>
      PROVE  /\ Len(c) > 1 /\ c[1] = Last(c)
             /\ \A i \in 1..(Len(c) - 1) : c[i + 1] \in Outgoing(edges, c[i], EdgeTypes)
  <2>1. \A i \in 1..(Len(c) - 1) : c[i] \in NodeIds /\ c[i + 1] \in adj[c[i]]
    BY <1>5, <1>8 DEF Joined
  <2>2. \A m \in NodeIds : adj[m] \subseteq Outgoing(edges, m, EdgeTypes)
    BY <1>4 DEF Adjacent, Outgoing
  <2> HIDE DEF adj
  <2>3. QED
    BY <1>5, <1>8, <2>1, <2>2
<1>9. ASSUME c = <<>>, NEW n \in L, NEW k \in NodeIds
      PROVE  n \notin OutWalks(ask.then, n, EdgeTypes, NodeIds, MaxNodes)[k]
  <2>1. PICK rank \in [NodeIds -> Nat] : \A m \in L : \A o \in adj[m] \intersect L : rank[o] < rank[m]
    BY <1>5, <1>9
  <2>2. \A m \in L : \A o \in next[m] : o \in L /\ o \in adj[m]
    <3> SUFFICES ASSUME NEW m \in L, NEW o \in next[m] PROVE o \in L /\ o \in adj[m]
      OBVIOUS
    <3>1. m \in NodeIds
      BY <1>3
    <3>2. PICK e \in ask.then : e.from = m /\ e.to = o /\ e.type \in EdgeTypes
      BY <3>1, OutNextIs
    <3>3. o \in L /\ e \in es
      BY <1>2, <1>4, <3>2 DEF Cycling
    <3>4. o \in adj[m]
      BY <3>1, <3>2, <3>3 DEF Adjacent, Outgoing
    <3>5. QED
      BY <3>3, <3>4
  <2>3. next \in Successors /\ MaxNodes \in Nat /\ k \in 1..MaxNodes
    BY OutNextIs, GraphAssumption DEF NodeIds
  <2> HIDE DEF adj, next, L
  <2>4. \A m \in L : \A o \in next[m] : o \in L /\ rank[o] < rank[m]
    BY <2>1, <2>2
  <2>5. n \notin Walks(next[n], next, MaxNodes)[k]
    BY <1>3, <1>9, <2>3, <2>4, NoReturn
  <2>6. QED
    BY <2>5 DEF OutWalks, next
<1>10. ask'.listed = L /\ ask'.then = ask.then /\ edges' = edges
  BY <1>1, <1>6 DEF SameQuestion
<1> HIDE DEF L
<1>11. CycleReported'
  BY <1>6, <1>8, <1>9, <1>10 DEF CycleReported
<1>12. QED
  BY <1>7, <1>11

-----------------------------------------------------------------------------
(* The inductive invariant of a graph that is traversed while it changes.    *)

Underway ==
    ask.pc = "run" =>
        /\ ask.kind = "classify" => \E E \in SUBSET Entry : Classifying(E)
        /\ ask.kind = "reachable" => \E E \in SUBSET Entry : Reaching(E)
        /\ ask.kind = "path" => \E E \in SUBSET Entry : Pathing(E)
        /\ ask.kind = "cycles" => Cycling

AnswersOK == ImpactBracketed /\ ReachableBracketed /\ PathShortest /\ CycleReported

GraphInductive == Inductive /\ ScopesOK

QueryInductive == AskOK /\ Underway /\ AnswersOK

\* There is nothing to compare before the answer.
LEMMA NotAnswered ==
    ASSUME ask.pc # "done"
    PROVE  AnswersOK
  BY DEF AnswersOK, ImpactBracketed, ReachableBracketed, PathShortest, CycleReported, Answered

\* At first nothing is traversed.
LEMMA QueryInit == QInit => GraphInductive /\ QueryInductive
<1> SUFFICES ASSUME QInit PROVE GraphInductive /\ QueryInductive
  OBVIOUS
<1>1. GraphInductive
  BY InductiveInit, ScopesInit DEF QInit, GraphInductive
<1>2. ask = NoQuery
  BY DEF QInit
<1>3. AskOK
  <2>1. None \notin {"classify", "reachable", "path"}
    BY DEF None
  <2>2. QED
    BY <1>2, <2>1, NoQueryIs, BlankMaps DEF AskOK
<1>4. ask.pc = "idle"
  BY <1>2, NoQueryIs
<1>5. AnswersOK
  BY <1>4, NotAnswered
<1>6. QED
  BY <1>1, <1>3, <1>4, <1>5 DEF QueryInductive, Underway

\* The graph under the traversals is that of the ingestions.
LEMMA GraphStep == GraphInductive /\ [QNext]_qvars => GraphInductive'
<1> SUFFICES ASSUME GraphInductive, [QNext]_qvars PROVE GraphInductive'
  OBVIOUS
<1>1. CASE Next
  BY <1>1, InductiveStep, ScopesStep DEF GraphInductive
<1>2. CASE UNCHANGED vars
  <2>1. Inductive'
    BY <1>2, InductiveStep DEF GraphInductive
  <2>2. ScopesOK'
    BY <1>2 DEF GraphInductive, ScopesOK, InOneScope, DrawnInScope, vars
  <2>3. QED
    BY <2>1, <2>2 DEF GraphInductive
<1>3. Next \/ UNCHANGED vars
  BY DEF QNext, Change, Query, BeginClassify, BeginReachable, BeginPath, BeginCycles, Begin,
         Classify, Propagate, Reach, FindPath, Exhausted, DetectCycles, qvars
<1>4. QED
  BY <1>1, <1>2, <1>3

\* A change of the graph keeps what is known of the traversal.
LEMMA QueryChange ==
    ASSUME GraphInductive, GraphInductive', QueryInductive, Change
    PROVE  QueryInductive'
<1>1. Inductive /\ Inductive' /\ AskOK
  BY DEF GraphInductive, QueryInductive
<1>2. ask'.pc = ask.pc /\ SameQuestion /\ ask.pc \in {"idle", "run"}
  BY <1>1, ChangeStep
<1>3. AskOK'
  BY <1>1, AskOKStays
<1>4. AnswersOK'
  <2>1. ask'.pc # "done"
    BY <1>2
  <2>2. QED
    BY <2>1, NotAnswered
      DEF AnswersOK, ImpactBracketed, ReachableBracketed, PathShortest, CycleReported, Answered
<1>5. Underway'
  <2> SUFFICES ASSUME ask.pc = "run" PROVE Underway'
    BY <1>2 DEF Underway
  <2>1. ask'.kind = ask.kind
    BY <1>2 DEF SameQuestion
  <2>2. ASSUME ask.kind = "classify" PROVE \E E \in SUBSET Entry : Classifying(E)'
    <3>1. PICK E \in SUBSET Entry : Classifying(E)
      BY <2>2 DEF QueryInductive, Underway
    <3>2. Classifying(E)'
      BY <1>1, <2>2, <3>1, ClassifyingStays
    <3>3. QED
      BY <3>2
  <2>3. ASSUME ask.kind = "reachable" PROVE \E E \in SUBSET Entry : Reaching(E)'
    <3>1. PICK E \in SUBSET Entry : Reaching(E)
      BY <2>3 DEF QueryInductive, Underway
    <3>2. Reaching(E)'
      BY <1>1, <2>3, <3>1, ReachingStays
    <3>3. QED
      BY <3>2
  <2>4. ASSUME ask.kind = "path" PROVE \E E \in SUBSET Entry : Pathing(E)'
    <3>1. PICK E \in SUBSET Entry : Pathing(E)
      BY <2>4 DEF QueryInductive, Underway
    <3>2. Pathing(E)'
      BY <1>1, <2>4, <3>1, PathingStays
    <3>3. QED
      BY <3>2
  <2>5. ASSUME ask.kind = "cycles" PROVE Cycling'
    <3>1. Cycling
      BY <2>5 DEF QueryInductive, Underway
    <3>2. QED
      BY <1>1, <3>1, CyclingStays
  <2>6. QED
    BY <2>1, <2>2, <2>3, <2>4, <2>5 DEF Underway
<1>6. QED
  BY <1>3, <1>4, <1>5 DEF QueryInductive

\* And so does every turn of the traversal.
LEMMA QueryTurn ==
    ASSUME GraphInductive, QueryInductive, Query
    PROVE  QueryInductive'
<1>1. Inductive /\ ScopesOK /\ AskOK
  BY DEF GraphInductive, QueryInductive
<1>2. ASSUME ask'.pc = "run" PROVE AnswersOK'
  <2>1. ask'.pc # "done"
    BY <1>2
  <2>2. QED
    BY <2>1, NotAnswered
      DEF AnswersOK, ImpactBracketed, ReachableBracketed, PathShortest, CycleReported, Answered
<1>3. ASSUME ask'.pc = "done" PROVE Underway'
  BY <1>3 DEF Underway
<1>4. CASE BeginClassify
  <2>1. AskOK' /\ ask'.kind = "classify" /\ ask'.pc = "run" /\ Classifying({})'
    BY <1>1, <1>4, BeginClassifyKeeps
  <2>2. Underway'
    BY <2>1 DEF Underway
  <2>3. QED
    BY <1>2, <2>1, <2>2 DEF QueryInductive
<1>5. CASE BeginReachable
  <2>1. AskOK' /\ ask'.kind = "reachable" /\ ask'.pc = "run" /\ Reaching({})'
    BY <1>1, <1>5, BeginReachableKeeps
  <2>2. Underway'
    BY <2>1 DEF Underway
  <2>3. QED
    BY <1>2, <2>1, <2>2 DEF QueryInductive
<1>6. CASE BeginPath
  <2>1. AskOK' /\ ask'.kind = "path" /\ ask'.pc = "run" /\ Pathing({})'
    BY <1>1, <1>6, BeginPathKeeps
  <2>2. Underway'
    BY <2>1 DEF Underway
  <2>3. QED
    BY <1>2, <2>1, <2>2 DEF QueryInductive
<1>7. CASE BeginCycles
  <2>1. AskOK' /\ ask'.kind = "cycles" /\ ask'.pc = "run" /\ Cycling'
    BY <1>1, <1>7, BeginCyclesKeeps
  <2>2. Underway'
    BY <2>1 DEF Underway
  <2>3. QED
    BY <1>2, <2>1, <2>2 DEF QueryInductive
<1>8. CASE Classify
  <2>1. ask.pc = "run" /\ ask.kind = "classify" /\ ask'.pc = "run" /\ ask'.kind = "classify"
    BY <1>1, <1>8, ClassifyStep DEF Classify, SameQuestion
  <2>2. PICK E \in SUBSET Entry : Classifying(E)
    BY <2>1 DEF QueryInductive, Underway
  <2>3. AskOK' /\ \E F \in SUBSET Entry : Classifying(F)'
    BY <1>1, <1>8, <2>2, ClassifyKeeps
  <2>4. Underway'
    BY <2>1, <2>3 DEF Underway
  <2>5. QED
    BY <1>2, <2>1, <2>3, <2>4 DEF QueryInductive
<1>9. CASE Reach
  <2>1. ask.pc = "run" /\ ask.kind = "reachable" /\ ask'.pc = "run" /\ ask'.kind = "reachable"
    BY <1>1, <1>9, ReachStep DEF Reach, SameQuestion
  <2>2. PICK E \in SUBSET Entry : Reaching(E)
    BY <2>1 DEF QueryInductive, Underway
  <2>3. AskOK' /\ \E F \in SUBSET Entry : Reaching(F)'
    BY <1>1, <1>9, <2>2, ReachKeeps
  <2>4. Underway'
    BY <2>1, <2>3 DEF Underway
  <2>5. QED
    BY <1>2, <2>1, <2>3, <2>4 DEF QueryInductive
<1>10. CASE FindPath
  <2>1. ask.pc = "run" /\ ask.kind = "path" /\ ask'.kind = "path"
    BY <1>1, <1>10, FindStep DEF FindPath, SameQuestion
  <2>2. PICK E \in SUBSET Entry : Pathing(E)
    BY <2>1 DEF QueryInductive, Underway
  <2>3. CASE ask'.pc = "done"
    <3>1. AskOK' /\ PathShortest'
      BY <1>1, <1>10, <2>2, <2>3, PathFound
    <3>2. AnswersOK'
      BY <2>1, <2>3, <3>1 DEF AnswersOK, ImpactBracketed, ReachableBracketed, CycleReported, Answered
    <3>3. QED
      BY <1>3, <2>3, <3>1, <3>2 DEF QueryInductive
  <2>4. CASE ask'.pc # "done"
    <3>1. AskOK' /\ ask'.pc = "run" /\ \E F \in SUBSET Entry : Pathing(F)'
      BY <1>1, <1>10, <2>2, <2>4, PathKeeps
    <3>2. Underway'
      BY <2>1, <3>1 DEF Underway
    <3>3. QED
      BY <1>2, <3>1, <3>2 DEF QueryInductive
  <2>5. QED
    BY <2>3, <2>4
<1>11. CASE Exhausted
  <2>1. /\ ask.pc = "run" /\ ask'.pc = "done" /\ SameQuestion /\ SameSearch /\ UNCHANGED <<node, edges>>
        /\ DOMAIN ask' = AskFields /\ ask'.kind = ask.kind /\ ask.kind # "cycles"
    BY <1>1, <1>11, ExhaustedStep DEF SameQuestion
  <2>2. AskOK'
    BY <1>1, <2>1 DEF AskOK, SameQuestion, SameSearch, Exists
  <2>3. ASSUME ask.kind = "classify" PROVE ImpactBracketed'
    <3>1. PICK E \in SUBSET Entry : Classifying(E)
      BY <2>1, <2>3 DEF QueryInductive, Underway
    <3>2. QED
      BY <1>1, <1>11, <2>3, <3>1, ClassifyAnswers
  <2>4. ASSUME ask.kind = "reachable" PROVE ReachableBracketed'
    <3>1. PICK E \in SUBSET Entry : Reaching(E)
      BY <2>1, <2>4 DEF QueryInductive, Underway
    <3>2. QED
      BY <1>1, <1>11, <2>4, <3>1, ReachAnswers
  <2>5. ASSUME ask.kind = "path" PROVE PathShortest'
    <3>1. PICK E \in SUBSET Entry : Pathing(E)
      BY <2>1, <2>5 DEF QueryInductive, Underway
    <3>2. QED
      BY <1>1, <1>11, <2>5, <3>1, PathAnswers
  <2>6. ImpactBracketed' /\ ReachableBracketed' /\ PathShortest' /\ CycleReported'
    <3>1. ImpactBracketed'
      BY <2>1, <2>3 DEF ImpactBracketed, Answered
    <3>2. ReachableBracketed'
      BY <2>1, <2>4 DEF ReachableBracketed, Answered
    <3>3. PathShortest'
      BY <2>1, <2>5 DEF PathShortest, Answered
    <3>4. CycleReported'
      BY <2>1 DEF CycleReported, Answered
    <3>5. QED
      BY <3>1, <3>2, <3>3, <3>4
  <2>7. QED
    BY <1>3, <2>1, <2>2, <2>6 DEF QueryInductive, AnswersOK
<1>12. CASE DetectCycles
  <2>1. ask.pc = "run" /\ ask.kind = "cycles" /\ Cycling
    BY <1>12 DEF DetectCycles, QueryInductive, Underway
  <2>2. AskOK' /\ CycleReported'
    BY <1>1, <1>12, <2>1, CycleAnswers
  <2>3. ask'.pc = "done" /\ ask'.kind = "cycles"
    BY <1>1, <1>12, <2>1 DEF DetectCycles, AskOK, AskFields
  <2>4. AnswersOK'
    BY <2>2, <2>3 DEF AnswersOK, ImpactBracketed, ReachableBracketed, PathShortest, Answered
  <2>5. QED
    BY <1>3, <2>2, <2>3, <2>4 DEF QueryInductive
<1>13. CASE Propagate
  <2>1. ask.pc = "run" /\ ask.kind = "classify" /\ ask'.pc = "run" /\ ask'.kind = "classify"
    BY <1>1, <1>13 DEF Propagate, AskOK, AskFields
  <2>2. PICK E \in SUBSET Entry : Classifying(E)
    BY <2>1 DEF QueryInductive, Underway
  <2>3. AskOK' /\ \E F \in SUBSET Entry : Classifying(F)'
    BY <1>1, <1>13, <2>2, PropagateKeeps
  <2>4. Underway'
    BY <2>1, <2>3 DEF Underway
  <2>5. QED
    BY <1>2, <2>1, <2>3, <2>4 DEF QueryInductive
<1>14. QED
  BY <1>4, <1>5, <1>6, <1>7, <1>8, <1>9, <1>10, <1>11, <1>12, <1>13 DEF Query

\* The invariant of the traversals is kept by every step.
LEMMA QueryStep == GraphInductive /\ QueryInductive /\ [QNext]_qvars => QueryInductive'
<1> SUFFICES ASSUME GraphInductive, QueryInductive, [QNext]_qvars PROVE QueryInductive'
  OBVIOUS
<1>1. GraphInductive'
  BY GraphStep
<1>2. CASE Change
  BY <1>1, <1>2, QueryChange
<1>3. CASE Query
  BY <1>3, QueryTurn
<1>4. CASE UNCHANGED qvars
  <2>1. UNCHANGED <<node, edges, ask>>
    BY <1>4 DEF qvars, vars
  <2>2. AskOK'
    BY <2>1 DEF QueryInductive, AskOK, Exists
  <2>3. Underway'
    <3>1. ASSUME NEW E, Classifying(E) PROVE Classifying(E)'
      BY <2>1, <3>1 DEF Classifying, HalfRead, Asked, Exists
    <3>2. ASSUME NEW E, Reaching(E) PROVE Reaching(E)'
      BY <2>1, <3>2 DEF Reaching, Asked, Exists
    <3>3. ASSUME NEW E, Pathing(E) PROVE Pathing(E)'
      BY <2>1, <3>3 DEF Pathing
    <3>4. Cycling => Cycling'
      BY <2>1 DEF Cycling, Exists
    <3>5. QED
      BY <2>1, <3>1, <3>2, <3>3, <3>4 DEF QueryInductive, Underway
  <2>4. AnswersOK'
    <3>1. ImpactBracketed'
      BY <2>1 DEF QueryInductive, AnswersOK, ImpactBracketed, Answered, Asked
    <3>2. ReachableBracketed'
      BY <2>1 DEF QueryInductive, AnswersOK, ReachableBracketed, Answered, Asked
    <3>3. PathShortest'
      BY <2>1 DEF QueryInductive, AnswersOK, PathShortest, Answered
    <3>4. CycleReported'
      BY <2>1 DEF QueryInductive, AnswersOK, CycleReported, Answered
    <3>5. QED
      BY <3>1, <3>2, <3>3, <3>4 DEF AnswersOK
  <2>5. QED
    BY <2>2, <2>3, <2>4 DEF QueryInductive
<1>5. QED
  BY <1>2, <1>3, <1>4 DEF QNext

\* It holds in every state of a graph that is traversed.
LEMMA AlwaysQueryInductive == QSpec => []QueryInductive
<1>1. QInit => GraphInductive /\ QueryInductive
  BY QueryInit
<1>2. GraphInductive /\ QueryInductive /\ [QNext]_qvars => (GraphInductive /\ QueryInductive)'
  BY GraphStep, QueryStep
<1>3. QED
  BY <1>1, <1>2, PTL DEF QSpec

\* A graph that is traversed is a graph that only ingestions and hand-made rows
\* change: no turn of a traversal writes, so that what is proved of Spec holds.
THEOREM TraversalsOnlyRead == QSpec => Spec
<1>1. QInit => Init
  BY DEF QInit
<1>2. [QNext]_qvars => [Next]_vars
  <2>1. CASE Change
    BY <2>1 DEF Change
  <2>2. CASE BeginClassify \/ BeginReachable \/ BeginPath \/ BeginCycles
    BY <2>2 DEF BeginClassify, BeginReachable, BeginPath, BeginCycles, Begin
  <2>3. CASE Classify \/ Propagate \/ Reach \/ FindPath \/ Exhausted \/ DetectCycles
    BY <2>3 DEF Classify, Propagate, Reach, FindPath, Exhausted, DetectCycles
  <2>4. CASE UNCHANGED qvars
    BY <2>4 DEF qvars
  <2>5. QED
    BY <2>1, <2>2, <2>3, <2>4 DEF QNext, Query
<1>3. QED
  BY <1>1, <1>2, PTL DEF QSpec, Spec

\* No edge joins two workflows of the graph, whichever way it was drawn.
THEOREM EdgesInOneScope == Spec => []InOneScope
<1>1. Init => GraphInductive
  BY InductiveInit, ScopesInit DEF GraphInductive
<1>2. GraphInductive /\ [Next]_vars => GraphInductive'
  <2> SUFFICES ASSUME GraphInductive, [Next]_vars PROVE GraphInductive'
    OBVIOUS
  <2>1. Inductive'
    BY InductiveStep DEF GraphInductive
  <2>2. CASE Next
    BY <2>1, <2>2, ScopesStep DEF GraphInductive
  <2>3. CASE UNCHANGED vars
    BY <2>1, <2>3 DEF GraphInductive, ScopesOK, InOneScope, DrawnInScope, vars
  <2>4. QED
    BY <2>2, <2>3
<1>3. GraphInductive => InOneScope
  BY DEF GraphInductive, ScopesOK
<1>4. QED
  BY <1>1, <1>2, <1>3, PTL DEF Spec

\* Whatever is added while classify_impact and find_reachable read the graph, edge
\* by edge: they answer all that was affected or reachable when they began, and
\* nothing that is not when they end.
THEOREM TraversalsAreBracketed == QSpec => []TraversalsBracketed
<1>1. QueryInductive => TraversalsBracketed
  BY DEF QueryInductive, AnswersOK, TraversalsBracketed
<1>2. QED
  BY <1>1, AlwaysQueryInductive, PTL

\* find_path answers a path of the graph, no longer than any that there was when it
\* began, and none only if there was none within the limit.
THEOREM PathIsShortest == QSpec => []PathShortest
<1>1. QueryInductive => PathShortest
  BY DEF QueryInductive, AnswersOK
<1>2. QED
  BY <1>1, AlwaysQueryInductive, PTL

\* detect_cycles answers a closed walk of the graph, and one if there was one when
\* the nodes were listed.
THEOREM CyclesAreReported == QSpec => []CycleReported
<1>1. QueryInductive => CycleReported
  BY DEF QueryInductive, AnswersOK
<1>2. QED
  BY <1>1, AlwaysQueryInductive, PTL

=============================================================================
