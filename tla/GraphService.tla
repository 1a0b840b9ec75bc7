---------------------------- MODULE GraphService ----------------------------
(***************************************************************************)
(* The dependency graph: nodes and typed edges of a workflow, the ingestion*)
(* of artifacts, approvals and side effects, and the ledger row that an    *)
(* artifact's ingestion may leave in the compensation service.             *)
(*                                                                         *)
(* A scope stands for a tenant and a workflow.  Every statement outside a  *)
(* transaction is one of its own, so an ingestion over the plain           *)
(* repository is a node and then edges, one by one; the RLS path does all  *)
(* of it, the ledger row included, in one transaction.  Nodes and edges    *)
(* are never removed: no handler reaches delete_edge.                      *)
(***************************************************************************)
EXTENDS Naturals, Sequences, FiniteSets

CONSTANTS
    Scopes,      \* tenant and workflow
    Requests,    \* ingestions
    Keys,        \* idempotency keys of their callers
    Kinds,       \* what they ingest, of "artifact", "approval", "side_effect"
    Paths,       \* "rls", "plain"
    HandTypes,   \* the types of node that clients create themselves
    LinkTypes,   \* the types of edge that clients create themselves
    MaxNodes,    \* bound: node ids
    MaxLinks,    \* bound: edges that clients create themselves
    MaxFaults    \* bound: failed statements and dropped requests

None == "none"
NoKey == "no_key"
NoNode == 0

NodeTypes == {"IntentVersion", "Artifact", "Approval", "PolicySnapshot", "SideEffect", "Generic"}
EdgeTypes == {"DependsOn", "Triggers", "GeneratedFrom", "ValidatedBy", "GovernedBy", "DerivedFrom"}
NodeIds == 1..MaxNodes

ASSUME GraphAssumption ==
    /\ None \notin Scopes \union Requests \union Keys /\ NoKey \notin Keys
    /\ Kinds \subseteq {"artifact", "approval", "side_effect"}
    /\ Paths \subseteq {"rls", "plain"}
    /\ HandTypes \subseteq NodeTypes /\ LinkTypes \subseteq EdgeTypes
    /\ {MaxNodes, MaxLinks, MaxFaults} \subseteq Nat

VARIABLES
    node,     \* graph_nodes
    edges,    \* graph_edges, unique on its ends and type
    effects,  \* side_effects: the request that wrote the row, and its key
    req,      \* the ingestions
    faults

graph == <<node, edges>>
vars == <<node, edges, effects, req, faults>>

GraphNode == [type : NodeTypes \union {None}, scope : Scopes \union {None}]
GraphEdge == [from : NodeIds, to : NodeIds, type : EdgeTypes]

Exists(n) == n \in NodeIds /\ node[n].type # None

\* Ids are fresh uuids; one that a rolled back transaction took is never reused.
Used == {n \in NodeIds : Exists(n) \/ \E r \in Requests : req[r].node = n}
IdLeft == Used # NodeIds
Fresh == CHOOSE n \in NodeIds : n \notin Used

-----------------------------------------------------------------------------
(* What clients may ask to be ingested.  A wire is one edge between the new *)
(* node and a reference, with the types of node the reference must have.    *)

Wire(type, ref, out, wants) == [type |-> type, ref |-> ref, out |-> out, wants |-> wants]

Optional(w) == IF w.ref = NoNode THEN <<>> ELSE <<w>>

\* Clients name nodes they were told of, or an id that no node has.
Unknown == MaxNodes + 1
Named == {n \in NodeIds : Exists(n)} \union {Unknown}
Refs == Named \union {NoNode}

ArtifactWires ==
    {[i \in DOMAIN ids |-> Wire("DependsOn", ids[i], TRUE, {"IntentVersion"})] :
        ids \in UNION {[1..n -> Named] : n \in 0..2}}

ApprovalWires ==
    UNION {{Optional(Wire("GovernedBy", policy, TRUE, {"PolicySnapshot"}))
            \o Optional(Wire("ValidatedBy", version, TRUE, {"IntentVersion"})) :
        version \in Refs} : policy \in Refs}

SideEffectWires ==
    UNION {UNION {{<<Wire("Triggers", trigger, FALSE, NodeTypes)>>
                   \o Optional(Wire("DerivedFrom", version, TRUE, {"IntentVersion"}))
                   \o Optional(Wire("GeneratedFrom", approval, TRUE, {"Approval"})) :
        approval \in Refs} : version \in Refs} : trigger \in Named}

Wirings(kind) == CASE kind = "artifact" -> ArtifactWires
                   [] kind = "approval" -> ApprovalWires
                   [] kind = "side_effect" -> SideEffectWires

TypeOf(kind) == CASE kind = "artifact" -> "Artifact"
                  [] kind = "approval" -> "Approval"
                  [] kind = "side_effect" -> "SideEffect"

\* Only artifacts are ingested by a handler, which knows both paths and
\* records a side effect; the two others are calls of the service.
Contexts(kind) == IF kind = "artifact" THEN Keys \union {NoKey, None} ELSE {None}
PathsOf(kind) == IF kind = "artifact" THEN Paths ELSE {"plain"}

NoRequest == [pc |-> "idle", kind |-> None, path |-> None, scope |-> None, context |-> None,
              wires |-> <<>>, node |-> NoNode, wired |-> {}, effect |-> None, answer |-> None]

Init ==
    /\ node = [n \in NodeIds |-> [type |-> None, scope |-> None]]
    /\ edges = {} /\ effects = {} /\ faults = 0
    /\ req = [r \in Requests |-> NoRequest]

-----------------------------------------------------------------------------
(* Nodes and edges that clients create directly. *)

AddNode ==
    /\ IdLeft
    /\ \E type \in HandTypes, scope \in Scopes :
        node' = [node EXCEPT ![Fresh] = [type |-> type, scope |-> scope]]
    /\ UNCHANGED <<edges, effects, req, faults>>

\* The table's trigger, foreign keys and unique constraint.
EdgeAccepted(e, scope, rows, present) ==
    /\ \A n \in {e.from, e.to} : rows[n].type # None /\ rows[n].scope = scope
    /\ e \notin present

Links == {e \in edges : \A r \in Requests : e \notin req[r].wired}

AddEdge ==
    /\ Cardinality(Links) < MaxLinks
    /\ \E from, to \in NodeIds, type \in LinkTypes, scope \in Scopes :
        LET e == [from |-> from, to |-> to, type |-> type] IN
        /\ EdgeAccepted(e, scope, node, edges)
        /\ edges' = edges \union {e}
    /\ UNCHANGED <<node, effects, req, faults>>

-----------------------------------------------------------------------------
(* Ingestion. *)

InTx(r) == req[r].path = "rls"

Answer(r, what) == [req[r] EXCEPT !.pc = "done", !.answer = what]

\* The reads of the references: what they find stays so.
Valid(kind, scope, wires) ==
    /\ kind = "artifact" => wires # <<>>
    /\ \A i \in DOMAIN wires :
        LET w == wires[i] IN
        Exists(w.ref) /\ node[w.ref].type \in w.wants /\ node[w.ref].scope = scope

Receive(r) ==
    /\ req[r].pc = "idle"
    /\ \E kind \in Kinds, scope \in Scopes :
       \E path \in PathsOf(kind), context \in Contexts(kind), wires \in Wirings(kind) :
        /\ Valid(kind, scope, wires)
        /\ req' = [req EXCEPT ![r] = [NoRequest EXCEPT
                    !.pc = "node", !.kind = kind, !.path = path, !.scope = scope,
                    !.context = context, !.wires = wires]]
    /\ UNCHANGED <<node, edges, effects, faults>>

\* No reference where one is needed, an unknown one, one of another type or scope.
Reject(r) ==
    /\ req[r].pc = "idle"
    /\ \E kind \in Kinds, scope \in Scopes : \E wires \in Wirings(kind) : ~Valid(kind, scope, wires)
    /\ req' = [req EXCEPT ![r] = Answer(r, "rejected")]
    /\ UNCHANGED <<node, edges, effects, faults>>

NewNode(r) == [type |-> TypeOf(req[r].kind), scope |-> req[r].scope]

CreateNodeOutside(r) ==
    /\ req[r].pc = "node" /\ IdLeft
    /\ req' = [req EXCEPT ![r].node = Fresh, ![r].pc = "edges"]
    /\ node' = [node EXCEPT ![Fresh] = NewNode(r)]
    /\ UNCHANGED <<edges, effects, faults>>

\* create_node.  An insert that meets another row's external reference
\* (unique_external_ref of 004_create_graph_nodes.sql) fails and writes nothing,
\* which is one of the failures of Fails.
CreateNode(r) ==
    /\ req[r].pc = "node" /\ IdLeft
    /\ req' = [req EXCEPT ![r].node = Fresh, ![r].pc = "edges"]
    /\ node' = IF InTx(r) THEN node ELSE [node EXCEPT ![Fresh] = NewNode(r)]
    /\ UNCHANGED <<edges, effects, faults>>

EdgeOf(r) ==
    LET w == Head(req[r].wires) IN
    IF w.out THEN [from |-> req[r].node, to |-> w.ref, type |-> w.type]
             ELSE [from |-> w.ref, to |-> req[r].node, type |-> w.type]

\* The rows the request's own statements see.
Seen(r) == IF InTx(r) THEN [node EXCEPT ![req[r].node] = NewNode(r)] ELSE node

\* An id that is given twice breaks the unique constraint at its second edge.
CreateEdge(r) ==
    /\ req[r].pc = "edges" /\ req[r].wires # <<>>
    /\ IF EdgeAccepted(EdgeOf(r), req[r].scope, Seen(r), edges \union req[r].wired)
       THEN /\ req' = [req EXCEPT ![r].wires = Tail(@), ![r].wired = @ \union {EdgeOf(r)}]
            /\ edges' = IF InTx(r) THEN edges ELSE edges \union {EdgeOf(r)}
       ELSE req' = [req EXCEPT ![r] = Answer(r, "error")] /\ edges' = edges
    /\ UNCHANGED <<node, effects, faults>>

\* After the last edge: the ledger if there is a context, the commit or the answer.
AfterEdges(r) == IF req[r].context # None THEN "effect" ELSE IF InTx(r) THEN "commit" ELSE "answer"

EndEdges(r) ==
    /\ req[r].pc = "edges" /\ req[r].wires = <<>>
    /\ req' = [req EXCEPT ![r].pc = AfterEdges(r)]
    /\ UNCHANGED <<node, edges, effects, faults>>

HeldByNobody(key) == FALSE

\* A row of an open transaction holds its key: the next insert of it waits.
Held(key) == \E r \in Requests : InTx(r) /\ req[r].pc = "commit" /\ req[r].effect = r /\ req[r].context = key

\* get_or_create_idempotent: the row that has the key, or a new one; without a
\* key always a new one.
RowFor(r) ==
    LET same == {e \in effects : e.key = req[r].context} IN
    IF req[r].context = NoKey \/ same = {} THEN [by |-> r, key |-> req[r].context]
    ELSE CHOOSE e \in same : TRUE

RecordEffect(r) ==
    /\ req[r].pc = "effect"
    /\ req[r].context # NoKey => ~Held(req[r].context)
    /\ req' = [req EXCEPT ![r].effect = RowFor(r).by, ![r].pc = IF InTx(r) THEN "commit" ELSE "answer"]
    /\ effects' = IF InTx(r) THEN effects ELSE effects \union {RowFor(r)}
    /\ UNCHANGED <<node, edges, faults>>

\* The plain path logs the failure and answers 201 without the effect.
RecordFails(r) ==
    /\ req[r].pc = "effect" /\ ~InTx(r) /\ faults < MaxFaults
    /\ req' = [req EXCEPT ![r].pc = "answer"] /\ faults' = faults + 1
    /\ UNCHANGED <<node, edges, effects>>

Committed(r) ==
    /\ node' = [node EXCEPT ![req[r].node] = NewNode(r)]
    /\ edges' = edges \union req[r].wired
    /\ effects' = IF req[r].effect = r THEN effects \union {[by |-> r, key |-> req[r].context]} ELSE effects

Commit(r) ==
    /\ req[r].pc = "commit" /\ Committed(r)
    /\ req' = [req EXCEPT ![r].pc = "answer"]
    /\ UNCHANGED faults

\* The connection breaks at COMMIT: an error, whatever the server had done.
CommitInDoubt(r) ==
    /\ req[r].pc = "commit" /\ faults < MaxFaults
    /\ Committed(r) \/ UNCHANGED <<node, edges, effects>>
    /\ req' = [req EXCEPT ![r] = Answer(r, "error")] /\ faults' = faults + 1

RespondEarly(r) ==
    /\ req[r].pc = "answer" \/ (req[r].pc = "edges" /\ ~InTx(r))
    /\ req' = [req EXCEPT ![r] = Answer(r, "created")]
    /\ UNCHANGED <<node, edges, effects, faults>>

Respond(r) ==
    /\ req[r].pc = "answer"
    /\ req' = [req EXCEPT ![r] = Answer(r, "created")]
    /\ UNCHANGED <<node, edges, effects, faults>>

\* A statement fails, or the request is dropped, before its answer: `?` returns
\* at once, and a transaction that was not committed is rolled back.
Fails(r) ==
    /\ req[r].pc \in {"node", "edges"} \/ (req[r].pc = "effect" /\ InTx(r))
    /\ faults < MaxFaults /\ faults' = faults + 1
    /\ req' = [req EXCEPT ![r] = Answer(r, "error")]
    /\ UNCHANGED <<node, edges, effects>>

Ingest(r) ==
    \/ Receive(r) \/ Reject(r) \/ CreateNode(r) \/ CreateEdge(r) \/ EndEdges(r)
    \/ RecordEffect(r) \/ RecordFails(r) \/ Commit(r) \/ CommitInDoubt(r) \/ Respond(r) \/ Fails(r)

Next == AddNode \/ AddEdge \/ \E r \in Requests : Ingest(r)

Spec == Init /\ [][Next]_vars

-----------------------------------------------------------------------------
(* Properties. *)

GraphTypeOK ==
    /\ node \in [NodeIds -> GraphNode] /\ edges \subseteq GraphEdge
    /\ effects \subseteq [by : Requests, key : Keys \union {NoKey}]
    /\ \A r \in Requests :
        /\ req[r].pc \in {"idle", "node", "edges", "effect", "commit", "answer", "done"}
        /\ req[r].node \in 0..MaxNodes /\ req[r].wired \subseteq GraphEdge
        /\ req[r].effect \in Requests \union {None}
        /\ req[r].answer \in {None, "created", "rejected", "error"}
    /\ faults \in 0..MaxFaults

\* An ingestion on the RLS path is all or nothing (ADR-08, Option A): at every
\* moment the graph and the ledger hold all of what it writes or none of it,
\* whichever statement failed and whatever its client was told.
AllOrNothing ==
    \A r \in Requests : InTx(r) =>
        LET stored == req[r].node # NoNode /\ Exists(req[r].node) IN
        /\ stored => req[r].wires = <<>> /\ req[r].wired \subseteq edges
        /\ stored /\ req[r].context # None => \E e \in effects : e.by = req[r].effect /\ e.key = req[r].context
        /\ ~stored => req[r].wired \intersect edges = {} /\ \A e \in effects : e.by # r

\* Requests that carry the same idempotency key, retries and concurrent ones on
\* either path, leave one row in the ledger, and all that report it report that row.
OneRowPerKey ==
    /\ \A e, f \in effects : e.key = f.key /\ e.key # NoKey => e = f
    /\ \A r, s \in Requests :
        /\ req[r].answer = "created" /\ req[s].answer = "created"
        /\ req[r].context \in Keys /\ req[r].context = req[s].context
        /\ req[r].effect # None /\ req[s].effect # None
        => req[r].effect = req[s].effect

\* Whoever was answered "created" has its node with every edge it asked for, and
\* a side effect it was told of is in the ledger.
CreatedIsWired ==
    \A r \in Requests : req[r].answer = "created" =>
        /\ Exists(req[r].node) /\ req[r].wires = <<>> /\ req[r].wired \subseteq edges
        /\ req[r].kind = "artifact" =>
            \E e \in edges : e.from = req[r].node /\ e.type = "DependsOn" /\ node[e.to].type = "IntentVersion"
        /\ req[r].effect # None => \E e \in effects : e.by = req[r].effect

\* What ingestion.rs says ingest_artifact enforces: every artifact it stored
\* traces to at least one intent version.  It does not on the plain path, where
\* the node is there before its first edge, and stays when that edge fails.
EveryArtifactTraces ==
    \A r \in Requests :
        req[r].pc = "done" /\ req[r].kind = "artifact" /\ req[r].node # NoNode /\ Exists(req[r].node) =>
            \E e \in edges : e.from = req[r].node /\ e.type = "DependsOn"

=============================================================================
