------------------------------ MODULE Forensics ------------------------------
(***************************************************************************)
(* Forensic bundles: POST /forensic/bundle, the download of a bundle and   *)
(* its replay verification.                                                *)
(*                                                                         *)
(* A request collects the versions, audit events and policy snapshots of   *)
(* its intents in separate reads while other requests write them, hashes   *)
(* the sections into a manifest, stores the row as Generating, puts the    *)
(* manifest into the object store and marks the row Ready.  On path "rls"  *)
(* the two writes of the row share the handler's transaction, which is     *)
(* open, and holds a connection, from before the collection; on path       *)
(* "plain" each write is on its own.  A bundle is named by the request     *)
(* that creates it (its id is a fresh UUID).                               *)
(*                                                                         *)
(* A hash is modelled by what it hashes: SHA-256 is taken to be free of    *)
(* collisions.  What is hashed is the entry the service derives from a     *)
(* row, not the row: a version enters by its number only.                  *)
(***************************************************************************)
EXTENDS Naturals, Sequences, FiniteSets, SequencesExt

CONSTANTS
    Requests,   \* requests that create a bundle
    Readers,    \* requests that read one
    Owned,      \* intents of the requests' tenant
    Foreign,    \* intents of another tenant
    IdLists,    \* intent_ids a request may give
    Collectors, \* implementations of the collector the service may be built with
    PoolSizes,  \* numbers of connections the pool may be given
    MaxRows,    \* bound: rows of each kind per intent
    Citing,     \* numbers of the audit events that cite an artifact
    TimeRanges, \* time ranges a request may give
    MaxTime,    \* bound: the clock
    MAX_RETRIES, \* repeats of an upload
    None        \* no answer, no status seen

ASSUME ForensicsAssumption ==
    /\ IdLists \subseteq Seq(Owned \union Foreign) /\ Owned \cap Foreign = {}
    /\ Collectors \subseteq {"real", "in_memory"}
    /\ PoolSizes \subseteq Nat \ {0} /\ {MaxTime, MAX_RETRIES} \subseteq Nat
    /\ None \notin {"created", "ready", "not_found", "verified", "differs"}

VARIABLES
    now,      \* the clock
    source,   \* rows of each kind, per intent
    wiring,   \* [collector, pool]: fixed when the service starts
    req,      \* the requests
    bundles,  \* table forensic_bundles: the rows, by the request that made them
    objects,  \* object store: the bytes, by the bundle whose key they are under
    reader

vars == <<now, source, wiring, req, bundles, objects, reader>>

Kinds == <<"versions", "events", "snapshots">>

ASSUME RowsAssumption ==
    MaxRows \in [Range(Kinds) -> Nat] /\ TimeRanges \subseteq [from : Nat, to : Nat]

Sections == {"intent_versions", "artifacts", "approvals", "audit_events", "policy_snapshots"}

\* The table with the row x of r.
With(table, r, x) == [s \in DOMAIN table \union {r} |-> IF s = r THEN x ELSE table[s]]

can_transition_to(s, t) ==
    \/ s = t
    \/ s = "pending" /\ t \in {"generating", "failed"}
    \/ s = "generating" /\ t \in {"ready", "failed"}

Nothing == [s \in Sections |-> <<>>]

Idle == [pc |-> "idle", path |-> "plain", range |-> [from |-> 0, to |-> 0], ids |-> <<>>,
         todo |-> <<>>, got |-> <<>>, since |-> {},
         row |-> None, tries |-> 0, conn |-> FALSE, answer |-> None]

Resting == [pc |-> "idle", bundle |-> None, status |-> None, answer |-> None,
            same |-> FALSE, tied |-> FALSE]

Init ==
    /\ now = 0
    /\ source = [i \in Owned |-> [k \in Range(Kinds) |-> {}]]
    /\ wiring \in [collector : Collectors, pool : PoolSizes]
    /\ req = [r \in Requests |-> Idle]
    /\ bundles = <<>> /\ objects = <<>>
    /\ reader = [d \in Readers |-> Resting]

-----------------------------------------------------------------------------
(* What is collected. *)

\* Mutant: the end of the range is excluded.
InRangeOpen(row, range) == range.from <= row.at /\ row.at < range.to

InRange(row, range) == range.from <= row.at /\ row.at <= range.to

\* The order of the query: versions by number, snapshots by version downwards,
\* audit events by time downwards, those of one instant in any order.
Ordered(k, s) ==
    \A m, n \in DOMAIN s : m < n =>
        CASE k = "versions" -> s[m].no < s[n].no
          [] k = "snapshots" -> s[m].no > s[n].no
          [] k = "events" -> s[m].at >= s[n].at

\* The rows a request is about.
Evidence(ids, range) ==
    UNION {UNION {{<<i, k, x>> : x \in {y \in source[i][k] : range.from <= y.at /\ y.at <= range.to}} :
                     k \in Range(Kinds)} : i \in Range(ids) \cap Owned}

Listings(i, k, range) ==
    {s \in SetToSeqs({x \in source[i][k] : InRange(x, range)}) : Ordered(k, s)}

\* One read of the collector: the rows of a kind of an intent.
Read(i, k, rows) == [intent |-> i, kind |-> k, rows |-> rows]

\* filter, as a flattening.
Kept(s, Test(_)) == FlattenSeq([n \in DOMAIN s |-> IF Test(s[n]) THEN <<s[n]>> ELSE <<>>])

\* flat_map over the collected intents, in the order they were collected.
Flat(got, k, Entries(_)) ==
    FlattenSeq([n \in DOMAIN got |-> IF got[n].kind = k THEN Entries(got[n]) ELSE <<>>])

Versions(read) ==
    [n \in DOMAIN read.rows |-> [intent |-> read.intent, version |-> read.rows[n].no]]

Events(read) ==
    [n \in DOMAIN read.rows |->
        [event |-> <<read.intent, read.rows[n].no>>, event_index |-> n - 1]]

Artifacts(read) ==
    LET citing == Kept(read.rows, LAMBDA x : x.no \in Citing)
    IN  [n \in DOMAIN citing |->
            [artifact |-> <<read.intent, citing[n].no>>, collected_at |-> citing[n].at]]

Snapshots(read) ==
    [n \in DOMAIN read.rows |-> [snapshot |-> <<read.intent, read.rows[n].no>>]]

\* prepare_bundle: the hashed entries.  Approvals are not collected.
Prepared(got) ==
    [Nothing EXCEPT !["intent_versions"] = Flat(got, "versions", Versions),
                    !["artifacts"] = Flat(got, "events", Artifacts),
                    !["audit_events"] = Flat(got, "events", Events),
                    !["policy_snapshots"] = Flat(got, "snapshots", Snapshots)]

\* generate: the section hashes first, then the hash of the manifest with them
\* in it, while its status is Generating.
Generated(sections) ==
    [status |-> "generating", integrity |-> sections,
     manifest_hash |-> [status |-> "generating", integrity |-> sections]]

\* verify_manifest_integrity
ManifestIntact(b) == b.manifest_hash = [status |-> b.status, integrity |-> b.integrity]

\* The reads a request has to make: those of one intent after those of another.
Reads(ids) ==
    LET kinds == Len(Kinds)
    IN  [n \in 1..(kinds * Len(ids)) |->
            <<ids[(n - 1) \div kinds + 1], Kinds[((n - 1) % kinds) + 1]>>]

-----------------------------------------------------------------------------
(* POST /forensic/bundle. *)

At(r, pc) == req[r].pc = pc

Free == Cardinality({r \in Requests : req[r].conn}) < wiring.pool

Rls(r) == req[r].path = "rls"

Asked(r, path, range, ids) ==
    [Idle EXCEPT !.pc = IF path = "rls" THEN "begin" ELSE "collect",
                 !.path = path, !.range = range, !.ids = ids,
                 !.since = Evidence(ids, range),
                 !.todo = IF wiring.collector = "real" THEN Reads(ids) ELSE <<>>]

ReceiveCreate(r) ==
    /\ At(r, "idle")
    /\ \E path \in {"rls", "plain"}, range \in TimeRanges, ids \in IdLists :
        req' = [req EXCEPT ![r] = Asked(r, path, range, ids)]
    /\ UNCHANGED <<now, source, wiring, bundles, objects, reader>>

Begin(r) ==
    /\ At(r, "begin") /\ Free
    /\ req' = [req EXCEPT ![r].pc = "collect", ![r].conn = TRUE]
    /\ UNCHANGED <<now, source, wiring, bundles, objects, reader>>

\* The request is over.  A transaction it still has is rolled back; what it
\* collected is of interest only where there may be a row of it.
Ended(r, answer) ==
    [req EXCEPT ![r] = IF @.pc \in {"put", "ready", "commit"}
                       THEN [@ EXCEPT !.pc = "done", !.answer = answer, !.conn = FALSE, !.row = None]
                       ELSE [Idle EXCEPT !.pc = "done", !.answer = answer]]

\* An error answer.
Refused(r) == Ended(r, "error")

\* The pool hands out nothing within its timeout, or the statement fails.
BeginFails(r) ==
    /\ At(r, "begin")
    /\ req' = Refused(r)
    /\ UNCHANGED <<now, source, wiring, bundles, objects, reader>>

Valid(r) == req[r].range.from <= req[r].range.to

\* One read.  It runs on a connection of the pool, not in the transaction.
Collect(r) ==
    /\ At(r, "collect") /\ Valid(r) /\ req[r].todo # <<>> /\ Free
    /\ LET next == Head(req[r].todo)
       IN  /\ next[1] \in Owned
           /\ \E rows \in Listings(next[1], next[2], req[r].range) :
               req' = [req EXCEPT
                   ![r].todo = Tail(@),
                   ![r].got = Append(@, Read(next[1], next[2], rows))]
    /\ UNCHANGED <<now, source, wiring, bundles, objects, reader>>

\* A time range upside down, an intent of another tenant, a failed read or no
\* connection for it.
CollectFails(r) ==
    /\ At(r, "collect")
    /\ \/ ~Valid(r)
       \/ req[r].todo # <<>>
    /\ req' = Refused(r)
    /\ UNCHANGED <<now, source, wiring, bundles, objects, reader>>

Stored(r, b) ==
    IF Rls(r)
    THEN req' = [req EXCEPT ![r].pc = "put", ![r].row = b]
         /\ UNCHANGED bundles
    ELSE req' = [req EXCEPT ![r].pc = "put"]
         /\ bundles' = With(bundles, r, b)

CreateRow(r) ==
    /\ At(r, "collect") /\ Valid(r) /\ req[r].todo = <<>>
    /\ Rls(r) \/ Free
    /\ Stored(r, Generated(Prepared(req[r].got)))
    /\ UNCHANGED <<now, source, wiring, objects, reader>>

CreateFails(r) ==
    /\ At(r, "collect") /\ Valid(r) /\ req[r].todo = <<>>
    /\ req' = Refused(r)
    /\ UNCHANGED <<now, source, wiring, bundles, objects, reader>>

Manifest(r) == Generated(Prepared(req[r].got))

Put(r) ==
    /\ At(r, "put")
    /\ objects' = With(objects, r, Manifest(r))
    /\ req' = [req EXCEPT ![r].pc = "ready"]
    /\ UNCHANGED <<now, source, wiring, bundles, reader>>

\* Mutant: the attempts are counted anew after the last.
PutRetryAnew(r) ==
    /\ At(r, "put")
    /\ req' = [req EXCEPT ![r].tries = (@ + 1) % (MAX_RETRIES + 1)]
    /\ UNCHANGED <<now, source, wiring, bundles, objects, reader>>

\* A timeout, 429, 5xx or an expired token: the upload may have arrived all the
\* same, and is repeated.
PutRetry(r) ==
    /\ At(r, "put") /\ req[r].tries < MAX_RETRIES
    /\ objects' \in {objects, With(objects, r, Manifest(r))}
    /\ req' = [req EXCEPT ![r].tries = @ + 1]
    /\ UNCHANGED <<now, source, wiring, bundles, reader>>

\* Mutant: a failed upload is logged and the bundle marked Ready.
PutFailsIgnored(r) ==
    /\ At(r, "put")
    /\ req' = [req EXCEPT ![r].pc = "ready"]
    /\ UNCHANGED <<now, source, wiring, bundles, objects, reader>>

PutFails(r) ==
    /\ At(r, "put")
    /\ objects' \in {objects, With(objects, r, Manifest(r))}
    /\ req' = Refused(r)
    /\ UNCHANGED <<now, source, wiring, bundles, reader>>

\* update_status reads the row and checks the transition before it writes.
MarkReady(r) ==
    /\ At(r, "ready")
    /\ IF Rls(r)
       THEN /\ can_transition_to(req[r].row.status, "ready")
            /\ req' = [req EXCEPT ![r].pc = "commit", ![r].row.status = "ready"]
            /\ UNCHANGED bundles
       ELSE /\ Free /\ can_transition_to(bundles[r].status, "ready")
            /\ req' = Ended(r, "created")
            /\ bundles' = [bundles EXCEPT ![r].status = "ready"]
    /\ UNCHANGED <<now, source, wiring, objects, reader>>

\* On its own the statement may have taken effect although its answer is lost.
MarkFails(r) ==
    /\ At(r, "ready")
    /\ req' = Refused(r)
    /\ bundles' \in {bundles} \union
         (IF Rls(r) THEN {} ELSE {[bundles EXCEPT ![r].status = "ready"]})
    /\ UNCHANGED <<now, source, wiring, objects, reader>>

Commit(r) ==
    /\ At(r, "commit")
    /\ bundles' = With(bundles, r, req[r].row)
    /\ req' = Ended(r, "created")
    /\ UNCHANGED <<now, source, wiring, objects, reader>>

\* The commit fails, or only its answer does not arrive.
CommitFails(r) ==
    /\ At(r, "commit")
    /\ bundles' \in {bundles, With(bundles, r, req[r].row)}
    /\ req' = Refused(r)
    /\ UNCHANGED <<now, source, wiring, objects, reader>>

\* The process dies, or the client goes away and the request's future is
\* dropped: the transaction is rolled back, what was stored stays.
Dropped(r) ==
    /\ req[r].pc \notin {"idle", "done"}
    /\ req' = Ended(r, "dropped")
    /\ UNCHANGED <<now, source, wiring, bundles, objects, reader>>

-----------------------------------------------------------------------------
(* Readers. *)

\* GET /forensic/bundles/{id}/download, and replay-verify: the row first.
LoadRow(d) ==
    /\ reader[d].pc = "idle"
    /\ \E b \in Requests, pc \in {"download", "verify"} :
        reader' = [reader EXCEPT ![d] =
            IF b \notin DOMAIN bundles
            THEN [Resting EXCEPT !.pc = "done", !.bundle = b, !.answer = "not_found"]
            ELSE [Resting EXCEPT !.pc = pc, !.bundle = b, !.status = bundles[b].status]]
    /\ UNCHANGED <<now, source, wiring, req, bundles, objects>>

\* The bytes of the object, whatever the status of the row.
Download(d) ==
    /\ reader[d].pc = "download"
    /\ reader' = [reader EXCEPT ![d].pc = "done",
            ![d].answer = IF reader[d].bundle \notin DOMAIN objects THEN "not_found" ELSE "bytes"]
    /\ UNCHANGED <<now, source, wiring, req, bundles, objects>>

\* Mutant: only the versions are compared.
DifferingVersions(b, sections) ==
    {s \in {"intent_versions"} : b.integrity[s] # sections[s]}

\* verify_bundle_from_integrity: the sections whose recomputed hash differs.
Differing(b, sections) == {s \in Sections : b.integrity[s] # sections[s]}

\* The rows behind a collection.
RowsOf(got) ==
    UNION {{<<got[n].intent, got[n].kind, x>> : x \in Range(got[n].rows)} : n \in DOMAIN got}

\* What a client that lists its intents and the same range now can send.
Recollections(r) ==
    LET rs == Reads(Kept(req[r].ids, LAMBDA i : i \in Owned))
        lists == [n \in DOMAIN rs |-> Listings(rs[n][1], rs[n][2], req[r].range)]
    IN  {[n \in DOMAIN rs |-> Read(rs[n][1], rs[n][2], f[n])] :
            f \in {g \in [DOMAIN rs -> UNION Range(lists)] : \A n \in DOMAIN rs : g[n] \in lists[n]}}

\* An intent is named twice.  Nothing removes it: it is read twice, at two times.
Repeats(ids) == ~IsInjective(ids)

\* Two audit events of an intent are of one instant.
Tied(rows) ==
    \E x, y \in rows :
        x # y /\ x[1] = y[1] /\ x[2] = "events" /\ y[2] = "events" /\ x[3].at = y[3].at

\* The row is loaded once more and must be Ready.
Verify(d) ==
    /\ reader[d].pc = "verify"
    /\ LET b == reader[d].bundle
       IN  IF bundles[b].status # "ready"
           THEN reader' = [reader EXCEPT ![d].pc = "done", ![d].answer = "not_ready"]
           ELSE \E got \in Recollections(b) :
                reader' = [reader EXCEPT ![d].pc = "done",
                    ![d].same = RowsOf(got) = RowsOf(req[b].got),
                    ![d].tied = Tied(RowsOf(got)),
                    ![d].answer = IF Differing(bundles[b], Prepared(got)) = {}
                                  THEN "verified" ELSE "differs"]
    /\ UNCHANGED <<now, source, wiring, req, bundles, objects>>

-----------------------------------------------------------------------------
(* The rest of the service. *)

\* A row is stamped by the service and reaches its table later.
Insert(i, k) ==
    /\ Cardinality(source[i][k]) < MaxRows[k]
    /\ \E at \in 0..now :
        source' = [source EXCEPT ![i][k] = @ \union {[no |-> Cardinality(@) + 1, at |-> at]}]
    /\ UNCHANGED <<now, wiring, req, bundles, objects, reader>>

Tick ==
    /\ now < MaxTime
    /\ now' = now + 1
    /\ UNCHANGED <<source, wiring, req, bundles, objects, reader>>

Step(r) ==
    \/ Begin(r) \/ BeginFails(r) \/ Collect(r) \/ CollectFails(r)
    \/ CreateRow(r) \/ CreateFails(r) \/ Put(r) \/ PutRetry(r) \/ PutFails(r)
    \/ MarkReady(r) \/ MarkFails(r) \/ Commit(r) \/ CommitFails(r)

Next ==
    \/ \E r \in Requests : ReceiveCreate(r) \/ Step(r) \/ Dropped(r)
    \/ \E d \in Readers : LoadRow(d) \/ Download(d) \/ Verify(d)
    \/ \E i \in Owned, k \in Range(Kinds) : Insert(i, k)
    \/ Tick

\* A request's future is polled until it answers, whatever it waits for: each
\* wait has a timeout.  No read or upload is assumed to succeed.
Spec == Init /\ [][Next]_vars /\ \A r \in Requests : WF_vars(Step(r))

-----------------------------------------------------------------------------
(* Properties. *)

\* A bundle that is visible as Ready can be downloaded, by a reader that saw it
\* so however long ago, and its bytes are a manifest with the row's hashes that
\* verify_manifest_integrity accepts; a request answered 201 has made such a
\* bundle (bundle_service.rs: create_bundle and create_bundle_with_tx store the
\* object between the two writes of the row).  The comment of the latter says
\* otherwise, that a Ready record may be without its object if the storage fails
\* after the commit (bundle_service.rs:496-499): the upload precedes update_status
\* and the caller's commit, so its failure leaves no Ready row.
ReadyHasBytes ==
    /\ \A r \in Requests :
        /\ r \in DOMAIN bundles /\ bundles[r].status = "ready" =>
              /\ r \in DOMAIN objects
              /\ objects[r].integrity = bundles[r].integrity /\ ManifestIntact(objects[r])
        /\ req[r].answer = "created" => r \in DOMAIN bundles /\ bundles[r].status = "ready"
    /\ \A d \in Readers :
        reader[d].status = "ready" => reader[d].answer # "not_found"

\* What a bundle of the real collector holds lies between the rows of its range
\* that were there when it was received and those that are there now, for every
\* intent it names: reads are torn, but nothing in range that was there before
\* is missed and nothing out of range is let in (real_collector.rs: collect).
EvidenceBracketed ==
    \A r \in Requests :
        req[r].pc \in {"put", "ready", "commit"} /\ wiring.collector = "real" =>
            /\ req[r].since \subseteq RowsOf(req[r].got)
            /\ RowsOf(req[r].got) \subseteq Evidence(req[r].ids, req[r].range)

\* Replay verification against what the tables hold now answers "verified" only
\* when they hold, for the bundle's intents and range, exactly the rows it was
\* made from, and always then, with two exceptions: two audit events of one intent
\* carry one timestamp, so that their order, and with it their index and hash, is
\* the database's choice; or the bundle names an intent twice, and its two reads
\* need not have seen the same rows (bundle_replay.rs:
\* verify_bundle_from_integrity; bundle_service.rs: prepare_bundle;
\* real_collector.rs: collect).
ReplayTellsTheTruth ==
    \A d \in Readers :
        /\ reader[d].answer = "verified" => reader[d].same
        /\ reader[d].answer = "differs" =>
              ~reader[d].same \/ reader[d].tied \/ Repeats(req[reader[d].bundle].ids)

\* A request for a bundle is answered, or its client or process is gone: no
\* retry of the upload goes on for ever and none waits for ever for a second
\* connection while it holds one (gcs_bundle_storage.rs: gcs_request_with_retry;
\* forensic_handlers.rs: create_forensic_bundle).
EveryCreateAnswered ==
    \A r \in Requests : req[r].pc # "idle" ~> req[r].answer # None

\* "Real data is collected from actual repositories": a request answered 201
\* has in its bundle every row of its range that was stored before it began.
RealDataCollected ==
    \A r \in Requests :
        req[r].answer = "created" => req[r].since \subseteq RowsOf(req[r].got)
=============================================================================
