---------------------------- MODULE GraphQueries ----------------------------
(***************************************************************************)
(* The traversals of the dependency graph (impact classification,          *)
(* reachability, shortest path, cycle detection) while ingestions change   *)
(* it: every list_edges_from, list_edges_to and get_node is a statement of *)
(* its own, so one traversal reads many states of the graph.               *)
(*                                                                         *)
(* The queue of a breadth-first search is the set of its entries, of which *)
(* the next one popped is any of the smallest depth: rows come back in an  *)
(* order that nothing relies on.                                           *)
(***************************************************************************)
EXTENDS GraphService, SequencesExt

CONSTANTS
    QueryKinds,  \* of "classify", "reachable", "path", "cycles"
    Depths,      \* the max_depth clients ask for; one of MaxNodes or more is no limit
    Follows,     \* traversable_edge_types, edge_types
    TypeFilters, \* target_node_types, node_types
    MaxMeanwhile \* bound: changes of the graph while a traversal runs

ASSUME QueryAssumption == Depths \subseteq Nat /\ TypeFilters \subseteq SUBSET NodeTypes

VARIABLE ask     \* the traversal

qvars == <<vars, ask>>

\* half: the entry whose incoming edges were read and whose outgoing ones are next.
\* then: history, the edges when the traversal began.
NoQuery == [pc |-> "idle", kind |-> None, start |-> NoNode, target |-> NoNode, max |-> 0,
            follow |-> {}, types |-> {}, include_start |-> TRUE,
            queue |-> {}, half |-> {}, visited |-> {}, depth |-> [n \in NodeIds |-> 0],
            parent |-> [n \in NodeIds |-> NoNode], path |-> <<>>, listed |-> {},
            meanwhile |-> 0, then |-> {}]

QInit == Init /\ ask = NoQuery

\* edge_passes_filter, over the rows of list_edges_from and list_edges_to.
Outgoing(es, n, follow) == {e.to : e \in {x \in es : x.from = n /\ x.type \in follow}}
Incoming(es, n, follow) == {e.from : e \in {x \in es : x.to = n /\ x.type \in follow}}

\* enqueue_propagation_edges_with_config: the direction is fixed by the type.
Dependents(es, n, follow) == Incoming(es, n, follow \intersect {"DependsOn"})
Triggered(es, n, follow) == Outgoing(es, n, follow \intersect {"Triggers", "GeneratedFrom"})

\* What classify_impact seeds its queue with.
Seeds(es, n, follow) == Incoming(es, n, follow \intersect {"DependsOn", "ValidatedBy"})

At(ns, d) == {[node |-> n, depth |-> d] : n \in ns}

-----------------------------------------------------------------------------
(* Starting a traversal: the start must exist. *)

Begin(kind, q) ==
    /\ ask.pc = "idle" /\ kind \in QueryKinds
    /\ ask' = [q EXCEPT !.pc = "run", !.kind = kind, !.then = edges]
    /\ UNCHANGED vars

BeginClassify ==
    \E start \in NodeIds, max \in Depths, follow \in Follows, types \in TypeFilters :
        /\ Exists(start)
        /\ Begin("classify", [NoQuery EXCEPT !.start = start, !.max = max, !.follow = follow,
                    !.types = types, !.queue = At(Seeds(edges, start, follow), 1)])

BeginReachable ==
    \E start \in NodeIds, max \in Depths, follow \in Follows, types \in TypeFilters, inc \in BOOLEAN :
        /\ Exists(start)
        /\ Begin("reachable", [NoQuery EXCEPT !.start = start, !.max = max, !.follow = follow,
                    !.types = types, !.include_start = inc,
                    !.visited = IF inc THEN {start} ELSE {},
                    !.queue = At(Outgoing(edges, start, follow), 1)])

BeginPath ==
    \E source, target \in NodeIds, max \in Depths, follow \in Follows :
        /\ Exists(source) /\ Exists(target) /\ source # target
        /\ Begin("path", [NoQuery EXCEPT !.start = source, !.target = target, !.max = max,
                    !.follow = follow, !.visited = {source}, !.queue = At({source}, 0)])

\* detect_cycles reads the nodes of a workflow, and then its edges.
BeginCycles ==
    \E scope \in Scopes :
        LET listed == {n \in NodeIds : Exists(n) /\ node[n].scope = scope} IN
        /\ listed # {}
        /\ Begin("cycles", [NoQuery EXCEPT !.listed = listed])

-----------------------------------------------------------------------------
(* One turn of each loop. *)

PoppedDeepest == {x \in ask.queue : \A y \in ask.queue : x.depth >= y.depth}

Popped == {x \in ask.queue : \A y \in ask.queue : x.depth <= y.depth}

\* A node of another type is passed through and not marked visited.  What depends on
\* the node is enqueued here, what it triggers in Propagate.
Classify ==
    /\ ask.pc = "run" /\ ask.kind = "classify" /\ ask.half = {}
    /\ \E x \in Popped :
        LET skip == x.depth > ask.max \/ x.node \in ask.visited
            counts == ~skip /\ node[x.node].type \in ask.types
            half == IF skip \/ x.depth >= ask.max THEN {} ELSE {x}
            next == IF half = {} THEN {} ELSE At(Dependents(edges, x.node, ask.follow), x.depth + 1) IN
        ask' = [ask EXCEPT !.queue = (@ \ {x}) \union next, !.half = half,
                           !.visited = IF counts THEN @ \union {x.node} ELSE @,
                           !.depth[x.node] = IF counts THEN x.depth ELSE @]
    /\ UNCHANGED vars

Propagate ==
    /\ ask.pc = "run" /\ ask.kind = "classify"
    /\ \E x \in ask.half :
        ask' = [ask EXCEPT !.queue = @ \union At(Triggered(edges, x.node, ask.follow), x.depth + 1),
                           !.half = {}]
    /\ UNCHANGED vars

Reach ==
    /\ ask.pc = "run" /\ ask.kind = "reachable"
    /\ \E x \in Popped :
        LET skip == \/ x.node = ask.start /\ ~ask.include_start
                    \/ x.depth > ask.max
                    \/ node[x.node].type \notin ask.types
                    \/ x.node \in ask.visited
            next == IF skip \/ x.depth >= ask.max THEN {}
                    ELSE At(Outgoing(edges, x.node, ask.follow), x.depth + 1) IN
        ask' = [ask EXCEPT !.queue = (@ \ {x}) \union next,
                           !.visited = IF skip THEN @ ELSE @ \union {x.node}]
    /\ UNCHANGED vars

\* reconstruct_path.
PathTo(parent, source, target) ==
    LET trace[k \in 0..MaxNodes] ==
            IF k = 0 THEN <<target>>
            ELSE IF Head(trace[k - 1]) = source THEN trace[k - 1]
            ELSE <<parent[Head(trace[k - 1])]>> \o trace[k - 1] IN
    trace[MaxNodes]

PathRowsBeyond(x) == IF x.depth > ask.max THEN {} ELSE Outgoing(edges, x.node, ask.follow)

\* The node at the depth limit is not expanded.
PathRows(x) == IF x.depth >= ask.max THEN {} ELSE Outgoing(edges, x.node, ask.follow)

FindPath ==
    /\ ask.pc = "run" /\ ask.kind = "path"
    /\ \E x \in Popped :
        LET out == PathRows(x)
            new == out \ ask.visited
            parent == [n \in NodeIds |-> IF n \in new \union ({ask.target} \intersect out) THEN x.node
                                         ELSE ask.parent[n]] IN
        ask' = IF ask.target \in out
               THEN [ask EXCEPT !.parent = parent, !.path = PathTo(parent, ask.start, ask.target), !.pc = "done"]
               ELSE [ask EXCEPT !.parent = parent, !.visited = @ \union new,
                                !.queue = (@ \ {x}) \union At(new, x.depth + 1)]
    /\ UNCHANGED vars

Exhausted ==
    /\ ask.pc = "run" /\ ask.kind # "cycles" /\ ask.queue = {} /\ ask.half = {}
    /\ ask' = [ask EXCEPT !.pc = "done"]
    /\ UNCHANGED vars

\* The three-colour depth-first search; nodes that were not listed have no colour.
Uncoloured(listed) ==
    [color |-> [n \in NodeIds |-> IF n \in listed THEN "white" ELSE None], path |-> <<>>, cycle |-> <<>>]

Enter(st, n) == [st EXCEPT !.color[n] = "gray", !.path = Append(@, n)]

Whites(st, ms) == {m \in ms : st.color[m] = "white"}

\* What dfs does next with the last node of the path: it ends at a gray neighbour,
\* or goes on to a white one, or returns.  The gray neighbours are those that it
\* had when it was entered.
DfsStep(adj, roots, st) ==
    LET next == IF st.path = <<>> THEN roots ELSE adj[Last(st.path)]
        back == {m \in next : st.color[m] = "gray"}
        pos(m) == CHOOSE i \in DOMAIN st.path : st.path[i] = m IN
    IF st.cycle # <<>> THEN st
    ELSE IF back # {}
    THEN LET m == CHOOSE m \in back : TRUE IN
         [st EXCEPT !.cycle = Append(SubSeq(st.path, pos(m), Len(st.path)), m)]
    ELSE IF Whites(st, next) # {} THEN Enter(st, CHOOSE m \in Whites(st, next) : TRUE)
    ELSE IF st.path # <<>> THEN [st EXCEPT !.color[Last(st.path)] = "black", !.path = Front(@)]
    ELSE st

\* A node is entered and left once: the search is over after so many steps.
SearchLimit == 2 * MaxNodes

Search(adj, listed, roots) ==
    LET after[k \in 0..SearchLimit] ==
            IF k = 0 THEN Uncoloured(listed) ELSE DfsStep(adj, roots, after[k - 1]) IN
    after

Adjacent(es) == [n \in NodeIds |-> Outgoing(es, n, EdgeTypes)]

CycleFromFirst(listed, es) == Search(Adjacent(es), listed, {CHOOSE n \in listed : TRUE})[SearchLimit].cycle

CycleIn(listed, es) == Search(Adjacent(es), listed, listed)[SearchLimit].cycle

DetectCycles ==
    /\ ask.pc = "run" /\ ask.kind = "cycles"
    /\ LET scope == node[CHOOSE n \in ask.listed : TRUE].scope
           es == {e \in edges : node[e.from].scope = scope} IN
       ask' = [ask EXCEPT !.path = CycleIn(ask.listed, es), !.pc = "done"]
    /\ UNCHANGED vars

Query == BeginClassify \/ BeginReachable \/ BeginPath \/ BeginCycles
         \/ Classify \/ Propagate \/ Reach \/ FindPath \/ Exhausted \/ DetectCycles

\* An answer that was given is no longer compared with the graph.
Change ==
    /\ Next
    /\ \/ ask.pc = "idle" /\ UNCHANGED ask
       \/ /\ ask.pc = "run" /\ ask.meanwhile < MaxMeanwhile
          /\ ask' = [ask EXCEPT !.meanwhile = @ + 1]

QNext == Change \/ Query

QSpec == QInit /\ [][QNext]_qvars

-----------------------------------------------------------------------------
(* What the answers should be: the nodes at the end of the walks of k edges, *)
(* in the graph the traversal began with and in the graph it ended with.     *)

\* What the walks of up to so many edges end at, by their length.
Walks(first, next, longest) ==
    LET layer[k \in 1..longest] ==
            IF k = 1 THEN first ELSE UNION {next[m] : m \in layer[k - 1]} IN
    layer

\* The changed version affects what depends on it or validates it.
FirstAffected(es, start, follow) ==
    {n \in NodeIds : \E e \in es : /\ e.type \in follow \intersect {"DependsOn", "ValidatedBy"}
                                   /\ e.from = n /\ e.to = start}

\* A change of m affects others in the direction that the edge's type has.
ImpactNext(es, follow) ==
    [m \in NodeIds |-> {n \in NodeIds :
        \E e \in es : /\ e.type \in follow
                      /\ \/ e.type = "DependsOn" /\ e.from = n /\ e.to = m
                         \/ e.type \in {"Triggers", "GeneratedFrom"} /\ e.from = m /\ e.to = n}]

ImpactWalks(es, start, follow, longest) ==
    Walks(FirstAffected(es, start, follow), ImpactNext(es, follow), longest)

\* Through nodes of ok, along the edges that are followed.
OutNext(es, follow, ok) ==
    [m \in NodeIds |-> {n \in ok : \E e \in es : e.from = m /\ e.to = n /\ e.type \in follow}]

OutWalks(es, from, follow, ok, longest) ==
    Walks(OutNext(es, follow, ok)[from], OutNext(es, follow, ok), longest)

Asked == {n \in NodeIds : node[n].type \in ask.types}

Answered(kind) == ask.pc = "done" /\ ask.kind = kind

\* Every node of an asked type that lay downstream of the changed version when
\* the classification began is classified, and at no greater depth; whatever is
\* classified lies at its depth in the graph now.  In particular "direct" is
\* never reported for a node that no single edge joins to the version.
ImpactBracketed ==
    Answered("classify") =>
        LET before == ImpactWalks(ask.then, ask.start, ask.follow, ask.max)
            after == ImpactWalks(edges, ask.start, ask.follow, ask.max) IN
        /\ \A k \in 1..ask.max : \A n \in before[k] \intersect Asked : ask.depth[n] \in 1..k
        /\ \A n \in NodeIds : ask.depth[n] # 0 => ask.depth[n] <= ask.max /\ n \in after[ask.depth[n]]

\* find_reachable returns everything that was reachable through nodes of the
\* asked types when it began, and nothing that is not reachable when it ends;
\* a start that was not asked for does not come back through a cycle.
ReachableBracketed ==
    Answered("reachable") =>
        LET before == OutWalks(ask.then, ask.start, ask.follow, Asked, ask.max)
            after == OutWalks(edges, ask.start, ask.follow, Asked, ask.max)
            self == IF ask.include_start THEN {ask.start} ELSE {} IN
        /\ self \union UNION {before[k] : k \in 1..ask.max} \subseteq ask.visited \union {ask.start}
        /\ ask.visited \subseteq self \union UNION {after[k] : k \in 1..ask.max}
        /\ ask.start \in ask.visited => ask.include_start

\* However the graph grows while a traversal reads it, edge by edge, the answer
\* lies between that for the graph it began with and that for the one it ended
\* with: nothing affected or reachable all along is missed, nothing is made up.
TraversalsBracketed == ImpactBracketed /\ ReachableBracketed

\* find_path returns a path that is there, no longer than the shortest one there
\* was when it began, and no path only if there was none within max_depth.
PathShortest ==
    Answered("path") =>
        LET before == OutWalks(ask.then, ask.start, ask.follow, NodeIds, ask.max)
            lengths == {k \in 1..ask.max : ask.target \in before[k]} IN
        /\ ask.path = <<>> => lengths = {}
        /\ ask.path # <<>> =>
            /\ ask.path[1] = ask.start /\ Last(ask.path) = ask.target /\ Len(ask.path) - 1 <= ask.max
            /\ \A i \in 1..(Len(ask.path) - 1) : ask.path[i + 1] \in Outgoing(edges, ask.path[i], ask.follow)
            /\ \A k \in lengths : Len(ask.path) - 1 <= k

\* detect_cycles reports a closed walk of the graph, and reports one whenever
\* there was one when it began.
CycleReported ==
    Answered("cycles") =>
        /\ ask.path # <<>> =>
            /\ Len(ask.path) > 1 /\ ask.path[1] = Last(ask.path)
            /\ \A i \in 1..(Len(ask.path) - 1) : ask.path[i + 1] \in Outgoing(edges, ask.path[i], EdgeTypes)
        /\ ask.path = <<>> =>
            \A n \in ask.listed : \A k \in NodeIds :
                n \notin OutWalks(ask.then, n, EdgeTypes, NodeIds, MaxNodes)[k]

=============================================================================
