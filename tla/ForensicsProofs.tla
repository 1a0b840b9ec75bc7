--------------------------- MODULE ForensicsProofs ---------------------------
(***************************************************************************)
(* Proofs about Forensics, for any requests, readers, intents, rows and    *)
(* ranges: a bundle that says Ready has its bytes, what a bundle holds     *)
(* lies between the rows there were and those there are, and replay        *)
(* verification tells the truth.  For the first two it does not matter     *)
(* what the hashed entries are made of; the last part of the module is     *)
(* about that.  Its inductions, over the parts of a flattened sequence,    *)
(* go through the set of the numbers something holds for (AllNaturals).    *)
(***************************************************************************)
EXTENDS Forensics, FiniteSetTheorems, SequenceTheorems, WellFoundedInduction, TLAPS

Stages == {"idle", "begin", "collect", "put", "ready", "commit", "done"}

\* There may be a row or an object.
Storing == {"put", "ready", "commit"}

\* The request holds what it has read.
Collecting == {"begin", "collect"} \union Storing

Fields == {"pc", "path", "range", "ids", "todo", "got", "since", "row", "tries", "conn", "answer"}

ReaderFields == {"pc", "bundle", "status", "answer", "same", "tied"}

SourceRow == [no : Nat, at : Nat]

Reading == [intent : Owned, kind : Range(Kinds), rows : Seq(SourceRow)]

ReadsToDo == (Owned \union Foreign) \X Range(Kinds)

\* What the row of a collection is, in status s.
Row(got, s) ==
    [status |-> s, integrity |-> Prepared(got),
     manifest_hash |-> [status |-> "generating", integrity |-> Prepared(got)]]

SourceOK ==
    /\ now \in Nat
    /\ source \in [Owned -> [Range(Kinds) -> SUBSET SourceRow]]
    /\ \A i \in Owned, k \in Range(Kinds) : IsFiniteSet(source[i][k])

RequestOK(r) ==
    /\ DOMAIN req[r] = Fields
    /\ req[r].pc \in Stages
    /\ req[r].todo \in Seq(ReadsToDo) /\ req[r].got \in Seq(Reading)

ReaderOK(d) == DOMAIN reader[d] = ReaderFields

FormOK ==
    /\ SourceOK
    /\ DOMAIN req = Requests /\ \A r \in Requests : RequestOK(r)
    /\ DOMAIN reader = Readers /\ \A d \in Readers : ReaderOK(d)

\* The bundle of r, where there is one, is that of the collection got.
BundleOf(r, got) ==
    /\ r \in DOMAIN bundles =>
        /\ bundles[r] \in {Row(got, "generating"), Row(got, "ready")}
        /\ bundles[r].status = "ready" => r \in DOMAIN objects
    /\ r \in DOMAIN objects => objects[r] = Row(got, "generating")

\* A bundle is that of what its request collected, and comes after that.
Placed(r) ==
    /\ BundleOf(r, req[r].got)
    /\ r \in DOMAIN bundles \union DOMAIN objects => req[r].pc \in Storing \union {"done"}

\* What r knows at each stage of storing it.
Progress(r) ==
    /\ req[r].pc \in {"ready", "commit"} => r \in DOMAIN objects
    /\ req[r].pc \in Storing /\ req[r].path = "rls" =>
        req[r].row = Row(req[r].got, IF req[r].pc = "commit" THEN "ready" ELSE "generating")
    /\ req[r].pc \in Storing /\ req[r].path # "rls" => r \in DOMAIN bundles /\ req[r].pc # "commit"
    /\ req[r].answer = "created" =>
        req[r].pc = "done" /\ r \in DOMAIN bundles /\ bundles[r].status = "ready"

\* What was there is still to be read or was read; what was read is there.
Bracket(r) ==
    wiring.collector = "real" /\ req[r].pc \in Collecting =>
        /\ req[r].since \subseteq Evidence(req[r].ids, req[r].range)
        /\ RowsOf(req[r].got) \subseteq Evidence(req[r].ids, req[r].range)
        /\ \A t \in req[r].since : <<t[1], t[2]>> \in Range(req[r].todo) \/ t \in RowsOf(req[r].got)
        /\ \A p \in Range(req[r].todo) : p[1] \in Range(req[r].ids)
        /\ req[r].pc \in Storing => req[r].todo = <<>>

\* Who saw a bundle Ready will find it so.
Saw(d) ==
    reader[d].status = "ready" =>
        /\ reader[d].bundle \in Requests \intersect DOMAIN bundles
        /\ bundles[reader[d].bundle].status = "ready"
        /\ reader[d].answer # "not_found"

Inductive ==
    /\ FormOK
    /\ \A r \in Requests : Placed(r) /\ Progress(r) /\ Bracket(r)
    /\ \A d \in Readers : Saw(d)

-----------------------------------------------------------------------------
(* What is read. *)

\* The kinds are three.
LEMMA KindsAre ==
    /\ DOMAIN Kinds = 1..3 /\ Len(Kinds) = 3
    /\ \A j \in 1..3 : Kinds[j] \in Range(Kinds)
    /\ \A k \in Range(Kinds) : \E j \in 1..3 : k = Kinds[j]
<1>1. DOMAIN Kinds = 1..3 /\ Len(Kinds) = 3
  BY DEF Kinds
<1>2. QED
  BY <1>1 DEF Range

\* The reads of a request are those of every kind of every intent it names.
LEMMA ReadsCover ==
    ASSUME NEW ids \in Seq(Owned \union Foreign)
    PROVE  /\ Reads(ids) \in Seq(ReadsToDo)
           /\ \A i \in Range(ids), k \in Range(Kinds) : <<i, k>> \in Range(Reads(ids))
           /\ \A p \in Range(Reads(ids)) : p[1] \in Range(ids)
<1> DEFINE n == Len(ids)
           Nth(m) == <<ids[(m - 1) \div 3 + 1], Kinds[((m - 1) % 3) + 1]>>
<1>1. n \in Nat /\ DOMAIN ids = 1..n
  OBVIOUS
<1>2. Reads(ids) = [m \in 1..(3 * n) |-> Nth(m)]
  BY KindsAre DEF Reads
<1>3. ASSUME NEW m \in 1..(3 * n)
      PROVE  (m - 1) \div 3 + 1 \in 1..n /\ ((m - 1) % 3) + 1 \in 1..3
  BY <1>1
<1>4. ASSUME NEW m \in 1..(3 * n)
      PROVE  Nth(m) \in ReadsToDo /\ Nth(m)[1] \in Range(ids)
  <2> DEFINE a == (m - 1) \div 3 + 1
             j == ((m - 1) % 3) + 1
  <2>1. a \in 1..n /\ j \in 1..3
    BY <1>3
  <2> HIDE DEF a, j
  <2>2. ids[a] \in Range(ids) /\ ids[a] \in Owned \union Foreign
    BY <1>1, <2>1 DEF Range
  <2>3. Kinds[j] \in Range(Kinds)
    BY <2>1, KindsAre
  <2>4. Nth(m) = <<ids[a], Kinds[j]>>
    BY DEF a, j
  <2> HIDE DEF Nth
  <2>5. QED
    BY <2>2, <2>3, <2>4 DEF ReadsToDo
<1>5. ASSUME NEW i \in Range(ids), NEW k \in Range(Kinds)
      PROVE  \E m \in 1..(3 * n) : <<i, k>> = Nth(m)
  <2>1. PICK a \in 1..n : i = ids[a]
    BY <1>1 DEF Range
  <2>2. PICK j \in 1..3 : k = Kinds[j]
    BY KindsAre
  <2> DEFINE m == 3 * (a - 1) + j
  <2>3. m \in 1..(3 * n) /\ (m - 1) \div 3 + 1 = a /\ ((m - 1) % 3) + 1 = j
    BY <1>1
  <2>4. QED
    BY <2>1, <2>2, <2>3
<1> HIDE DEF Nth, n
<1>6. Reads(ids) \in Seq(ReadsToDo)
  BY <1>1, <1>2, <1>4
<1>7. DOMAIN Reads(ids) = 1..(3 * n) /\ \A m \in 1..(3 * n) : Reads(ids)[m] = Nth(m)
  BY <1>2
<1>8. ASSUME NEW i \in Range(ids), NEW k \in Range(Kinds)
      PROVE  <<i, k>> \in Range(Reads(ids))
  <2>1. PICK m \in 1..(3 * n) : <<i, k>> = Nth(m)
    BY <1>5
  <2>2. QED
    BY <1>7, <2>1 DEF Range
<1>9. ASSUME NEW p \in Range(Reads(ids)) PROVE p[1] \in Range(ids)
  <2>1. PICK m \in 1..(3 * n) : p = Nth(m)
    BY <1>7 DEF Range
  <2>2. QED
    BY <1>4, <2>1
<1>10. QED
  BY <1>6, <1>8, <1>9

\* A listing is made of the rows of its range.
LEMMA ListingHoldsAll ==
    ASSUME SourceOK, NEW i \in Owned, NEW k \in Range(Kinds), NEW range,
           NEW rows \in Listings(i, k, range)
    PROVE  /\ rows \in Seq(SourceRow)
           /\ Range(rows) = {x \in source[i][k] : InRange(x, range)}
<1> DEFINE S == {x \in source[i][k] : InRange(x, range)}
           n == Cardinality(S)
<1>1. IsFiniteSet(S) /\ S \subseteq SourceRow
  BY FS_Subset DEF SourceOK
<1>2. n \in Nat
  BY <1>1, FS_CardinalityType
<1>3. rows \in [1..n -> S] /\ \A a, b \in 1..n : a # b => rows[a] # rows[b]
  BY DEF Listings, SetToSeqs
<1> HIDE DEF S, n
<1>4. rows \in Seq(SourceRow)
  BY <1>1, <1>2, <1>3
<1>5. Range(rows) \subseteq S
  BY <1>3 DEF Range
<1>6. ASSUME NEW x \in S PROVE x \in Range(rows)
  <2>1. SUFFICES ASSUME x \notin Range(rows) PROVE FALSE
    OBVIOUS
  <2>2. IsFiniteSet(S \ {x}) /\ Cardinality(S \ {x}) = n - 1
    BY <1>1, FS_RemoveElement DEF n
  <2>3. IsFiniteSet(1..n) /\ Cardinality(1..n) = n
    BY <1>2, FS_Interval
  <2>4. rows \in [1..n -> S \ {x}]
    BY <1>3, <2>1 DEF Range
  <2>5. \E a, b \in 1..n : a # b /\ rows[a] = rows[b]
    BY <1>2, <2>2, <2>3, <2>4, FS_PigeonHole
  <2>6. QED
    BY <1>3, <2>5
<1>7. QED
  BY <1>4, <1>5, <1>6 DEF S

\* What is in a collection.
LEMMA InRowsOf ==
    ASSUME NEW got, NEW t
    PROVE  t \in RowsOf(got) <=>
              \E n \in DOMAIN got : \E x \in Range(got[n].rows) : t = <<got[n].intent, got[n].kind, x>>
  BY DEF RowsOf

\* A read adds its rows to a collection.
LEMMA RowsOfRead ==
    ASSUME NEW got \in Seq(Reading), NEW read \in Reading, NEW t
    PROVE  t \in RowsOf(Append(got, read)) <=>
              t \in RowsOf(got) \/ \E x \in Range(read.rows) : t = <<read.intent, read.kind, x>>
<1> DEFINE more == Append(got, read)
<1>1. DOMAIN got = 1..Len(got) /\ DOMAIN more = 1..(Len(got) + 1) /\ Len(got) \in Nat
  OBVIOUS
<1>2. more[Len(got) + 1] = read /\ \A n \in 1..Len(got) : more[n] = got[n]
  OBVIOUS
<1>3. \A n \in 1..(Len(got) + 1) : n \in 1..Len(got) \/ n = Len(got) + 1
  BY <1>1
<1> HIDE DEF more
<1>4. QED
  <2>1. t \in RowsOf(more) <=> \E n \in DOMAIN more : \E x \in Range(more[n].rows) :
                                  t = <<more[n].intent, more[n].kind, x>>
    BY InRowsOf
  <2>2. t \in RowsOf(got) <=> \E n \in DOMAIN got : \E x \in Range(got[n].rows) :
                                  t = <<got[n].intent, got[n].kind, x>>
    BY InRowsOf
  <2>3. t \in RowsOf(more) => t \in RowsOf(got) \/ \E x \in Range(read.rows) : t = <<read.intent, read.kind, x>>
    BY <1>1, <1>2, <1>3, <2>1, <2>2
  <2>4. t \in RowsOf(got) => t \in RowsOf(more)
    BY <1>1, <1>2, <2>1, <2>2
  <2>5. (\E x \in Range(read.rows) : t = <<read.intent, read.kind, x>>) => t \in RowsOf(more)
    <3>1. Len(got) + 1 \in DOMAIN more
      BY <1>1
    <3>2. QED
      BY <1>2, <2>1, <3>1
  <2>6. QED
    BY <2>3, <2>4, <2>5 DEF more

\* What the rows a request is about are.
LEMMA InEvidence ==
    ASSUME NEW ids, NEW range, NEW t
    PROVE  t \in Evidence(ids, range) <=>
              \E i \in Range(ids) \cap Owned : \E k \in Range(Kinds) :
                  \E x \in {y \in source[i][k] : InRange(y, range)} : t = <<i, k, x>>
  BY DEF Evidence, InRange

-----------------------------------------------------------------------------
(* One request moves. *)

SameBundle(s) ==
    /\ s \in DOMAIN bundles' <=> s \in DOMAIN bundles
    /\ s \in DOMAIN bundles => bundles'[s] = bundles[s]
    /\ s \in DOMAIN objects' <=> s \in DOMAIN objects
    /\ s \in DOMAIN objects => objects'[s] = objects[s]

ReadyHere(r) == r \in DOMAIN bundles /\ bundles[r].status = "ready"

\* Nothing else than r and what belongs to it changes, and it stays Ready if it was.
Moves(r) ==
    /\ UNCHANGED <<now, source, wiring, reader>>
    /\ DOMAIN req' = Requests
    /\ \A s \in Requests \ {r} : req'[s] = req[s] /\ SameBundle(s)
    /\ ReadyHere(r) => ReadyHere(r)'

\* Who does not move keeps what is said of it.
LEMMA StillSo ==
    ASSUME NEW s, req'[s] = req[s], SameBundle(s), UNCHANGED <<source, wiring>>,
           Placed(s), Progress(s), Bracket(s)
    PROVE  Placed(s)' /\ Progress(s)' /\ Bracket(s)'
<1>1. Placed(s)'
  BY DEF Placed, BundleOf, SameBundle
<1>2. Progress(s)'
  BY DEF Progress, SameBundle
<1>3. \A i, g : Evidence(i, g)' = Evidence(i, g)
  BY DEF Evidence
<1>4. Bracket(s)'
  BY <1>3 DEF Bracket
<1>5. QED
  BY <1>1, <1>2, <1>4

\* So only the one that moves has to be looked at.
LEMMA OneMoves ==
    ASSUME Inductive, NEW r \in Requests, Moves(r),
           RequestOK(r)', Placed(r)', Progress(r)', Bracket(r)'
    PROVE  Inductive'
<1>1. FormOK'
  <2>1. SourceOK'
    BY DEF Inductive, FormOK, SourceOK, Moves
  <2>2. \A s \in Requests : RequestOK(s)'
    BY DEF Inductive, FormOK, RequestOK, Moves
  <2>3. DOMAIN reader' = Readers /\ \A d \in Readers : ReaderOK(d)'
    BY DEF Inductive, FormOK, ReaderOK, Moves
  <2>4. QED
    BY <2>1, <2>2, <2>3 DEF FormOK, Moves
<1>2. ASSUME NEW s \in Requests \ {r}
      PROVE  Placed(s)' /\ Progress(s)' /\ Bracket(s)'
  <2>1. /\ req'[s] = req[s] /\ SameBundle(s) /\ UNCHANGED <<source, wiring>>
        /\ Placed(s) /\ Progress(s) /\ Bracket(s)
    BY DEF Moves, Inductive
  <2>2. QED
    BY <2>1, StillSo
<1>3. ASSUME NEW d \in Readers PROVE Saw(d)'
  <2>1. Saw(d) /\ reader' = reader
    BY DEF Inductive, Moves
  <2>2. \A s \in Requests : ReadyHere(s) => ReadyHere(s)'
    BY DEF Moves, ReadyHere, SameBundle
  <2>3. QED
    BY <2>1, <2>2 DEF Saw, ReadyHere
<1>4. QED
  BY <1>1, <1>2, <1>3 DEF Inductive

\* A request that ends leaves its bundle as the tables have it.
LEMMA EndKeeps ==
    ASSUME Inductive, NEW r \in Requests, NEW answer, req' = Ended(r, answer),
           UNCHANGED <<now, source, wiring, reader>>,
           \A s \in Requests \ {r} : SameBundle(s), ReadyHere(r) => ReadyHere(r)',
           NEW got, got = req[r].got, BundleOf(r, got)',
           r \in DOMAIN bundles' \union DOMAIN objects' => req[r].pc \in Storing,
           answer = "created" => ReadyHere(r)'
    PROVE  Inductive'
<1>1. RequestOK(r) /\ DOMAIN req = Requests
  BY DEF Inductive, FormOK
<1>2. /\ DOMAIN req' = Requests
      /\ \A s \in Requests \ {r} : req'[s] = req[s]
  BY <1>1 DEF Ended
<1>3. /\ RequestOK(r)' /\ req'[r].pc = "done" /\ req'[r].answer = answer
      /\ req[r].pc \in Storing => req'[r].got = got
  <2>1. CASE req[r].pc \in Storing
    <3> DEFINE x == [req[r] EXCEPT !.pc = "done", !.answer = answer, !.conn = FALSE, !.row = None]
    <3>1. req'[r] = x
      BY <1>1, <2>1 DEF Ended, Storing
    <3>2. /\ DOMAIN x = Fields /\ x.pc = "done" /\ x.answer = answer
          /\ x.got = req[r].got /\ x.todo = req[r].todo
      BY <1>1 DEF RequestOK, Fields
    <3> HIDE DEF x
    <3>3. QED
      BY <1>1, <3>1, <3>2 DEF RequestOK, Stages
  <2>2. CASE req[r].pc \notin Storing
    <3> DEFINE x == [Idle EXCEPT !.pc = "done", !.answer = answer]
    <3>1. req'[r] = x
      BY <1>1, <2>2 DEF Ended, Storing
    <3>2. /\ DOMAIN x = Fields /\ x.pc = "done" /\ x.answer = answer
          /\ x.got = <<>> /\ x.todo = <<>>
      BY DEF Idle, Fields
    <3> HIDE DEF x
    <3>3. QED
      BY <2>2, <3>1, <3>2 DEF RequestOK, Stages
  <2>3. QED
    BY <2>1, <2>2
<1>4. Placed(r)'
  <2>1. CASE r \in DOMAIN bundles' \union DOMAIN objects'
    <3>1. req'[r].got = got
      BY <1>3, <2>1
    <3>2. QED
      BY <1>3, <3>1 DEF Placed
  <2>2. CASE r \notin DOMAIN bundles' \union DOMAIN objects'
    BY <2>2 DEF Placed, BundleOf
  <2>3. QED
    BY <2>1, <2>2
<1>5. Progress(r)'
  BY <1>3 DEF Progress, Storing, ReadyHere
<1>6. Bracket(r)'
  BY <1>3 DEF Bracket, Collecting, Storing
<1>7. Moves(r)
  BY <1>2 DEF Moves
<1>8. QED
  BY <1>3, <1>4, <1>5, <1>6, <1>7, OneMoves

\* The steps that end a request without storing anything more of it.
LEMMA FailuresKeep ==
    ASSUME Inductive, NEW r \in Requests,
           BeginFails(r) \/ CollectFails(r) \/ CreateFails(r) \/ Dropped(r)
    PROVE  Inductive'
<1>1. PICK answer : req' = Ended(r, answer) /\ answer # "created"
  BY DEF BeginFails, CollectFails, CreateFails, Dropped, Refused
<1>2. UNCHANGED <<now, source, wiring, bundles, objects, reader>> /\ req[r].pc # "done"
  BY DEF BeginFails, CollectFails, CreateFails, Dropped, At
<1>3. /\ \A s \in Requests \ {r} : SameBundle(s)
      /\ ReadyHere(r) => ReadyHere(r)'
  BY <1>2 DEF SameBundle, ReadyHere
<1>4. PICK got : got = req[r].got
  OBVIOUS
<1>5. /\ BundleOf(r, got)'
      /\ r \in DOMAIN bundles' \union DOMAIN objects' => req[r].pc \in Storing
  BY <1>2, <1>4 DEF Inductive, Placed, BundleOf
<1>6. QED
  BY <1>1, <1>2, <1>3, <1>4, <1>5, EndKeeps

\* The manifest that is stored and uploaded is the row of the collection.
LEMMA ManifestIsRow ==
    ASSUME NEW got
    PROVE  Generated(Prepared(got)) = Row(got, "generating")
  BY DEF Generated, Row

\* A row that is marked Ready.
LEMMA MarkedRow ==
    ASSUME NEW got, NEW b \in {Row(got, "generating"), Row(got, "ready")}
    PROVE  [b EXCEPT !.status = "ready"] = Row(got, "ready")
  BY DEF Row

\* Both statuses of a row are what they say.
LEMMA RowStatus ==
    ASSUME NEW got
    PROVE  Row(got, "generating").status = "generating" /\ Row(got, "ready").status = "ready"
  BY DEF Row

\* An upload, whether or not the client hears of it.
LEMMA UploadKeeps ==
    ASSUME Inductive, NEW r \in Requests, req[r].pc \in Storing, NEW got, got = req[r].got,
           objects' \in {objects, With(objects, r, Manifest(r))}, UNCHANGED bundles
    PROVE  /\ \A s \in Requests \ {r} : SameBundle(s)
           /\ ReadyHere(r) => ReadyHere(r)'
           /\ BundleOf(r, got)'
           /\ objects' = With(objects, r, Manifest(r)) => r \in DOMAIN objects'
           /\ r \in DOMAIN objects => r \in DOMAIN objects'
<1>1. BundleOf(r, got)
  BY DEF Inductive, Placed
<1>2. Manifest(r) = Row(got, "generating")
  BY ManifestIsRow DEF Manifest
<1> DEFINE more == With(objects, r, Manifest(r))
<1>3. /\ DOMAIN more = DOMAIN objects \union {r} /\ more[r] = Manifest(r)
      /\ \A s : s # r /\ s \in DOMAIN objects => more[s] = objects[s]
  BY DEF With
<1> HIDE DEF more
<1>4. objects' \in {objects, more}
  BY DEF more
<1>5. \A s \in Requests \ {r} : SameBundle(s)
  BY <1>3, <1>4 DEF SameBundle
<1>6. r \in DOMAIN objects => r \in DOMAIN objects'
  BY <1>3, <1>4
<1>7. ReadyHere(r) => ReadyHere(r)'
  BY DEF ReadyHere
<1>8. BundleOf(r, got)'
  BY <1>1, <1>2, <1>3, <1>4, <1>6 DEF BundleOf
<1>9. objects' = more => r \in DOMAIN objects'
  BY <1>3
<1>10. QED
  BY <1>5, <1>6, <1>7, <1>8, <1>9 DEF more

\* The upload fails for good.
LEMMA PutFailsKeeps ==
    ASSUME Inductive, NEW r \in Requests, PutFails(r)
    PROVE  Inductive'
<1>1. PICK answer : req' = Ended(r, answer) /\ answer # "created"
  BY DEF PutFails, Refused
<1>2. /\ UNCHANGED <<now, source, wiring, bundles, reader>> /\ req[r].pc = "put"
      /\ objects' \in {objects, With(objects, r, Manifest(r))} /\ req[r].pc \in Storing
  BY DEF PutFails, At, Storing
<1>3. PICK got : got = req[r].got
  OBVIOUS
<1>4. /\ \A s \in Requests \ {r} : SameBundle(s)
      /\ ReadyHere(r) => ReadyHere(r)'
      /\ BundleOf(r, got)'
  BY <1>2, <1>3, UploadKeeps
<1>5. /\ r \in DOMAIN bundles' \union DOMAIN objects' => req[r].pc \in Storing
      /\ answer = "created" => ReadyHere(r)'
  BY <1>1, <1>2
<1>6. UNCHANGED <<now, source, wiring, reader>>
  BY <1>2
<1>7. QED
  BY <1>1, <1>3, <1>4, <1>5, <1>6, EndKeeps

\* The row of r becomes what it is when it is Ready.
LEMMA ReadyRow ==
    ASSUME Inductive, NEW r \in Requests, NEW got, got = req[r].got, r \in DOMAIN objects,
           DOMAIN bundles' = DOMAIN bundles \union {r}, bundles'[r] = Row(got, "ready"),
           \A s \in DOMAIN bundles \ {r} : bundles'[s] = bundles[s], UNCHANGED objects
    PROVE  /\ \A s \in Requests \ {r} : SameBundle(s)
           /\ ReadyHere(r)' /\ BundleOf(r, got)'
<1>1. BundleOf(r, got)
  BY DEF Inductive, Placed
<1>2. QED
  BY <1>1, RowStatus DEF SameBundle, ReadyHere, BundleOf

\* Marking the row on its own: the object is there.
LEMMA MarkedAlone ==
    ASSUME Inductive, NEW r \in Requests, req[r].pc = "ready", ~Rls(r),
           NEW got, got = req[r].got,
           bundles' = [bundles EXCEPT ![r].status = "ready"], UNCHANGED objects
    PROVE  /\ \A s \in Requests \ {r} : SameBundle(s)
           /\ ReadyHere(r)' /\ BundleOf(r, got)'
<1>1. /\ r \in DOMAIN objects /\ r \in DOMAIN bundles
      /\ bundles[r] \in {Row(got, "generating"), Row(got, "ready")}
  BY DEF Inductive, Progress, Storing, Rls, Placed, BundleOf
<1>2. bundles' = [bundles EXCEPT ![r] = [bundles[r] EXCEPT !.status = "ready"]]
  OBVIOUS
<1>3. [bundles[r] EXCEPT !.status = "ready"] = Row(got, "ready")
  BY <1>1, MarkedRow
<1>4. /\ DOMAIN bundles' = DOMAIN bundles \union {r} /\ bundles'[r] = Row(got, "ready")
      /\ \A s \in DOMAIN bundles \ {r} : bundles'[s] = bundles[s]
  BY <1>1, <1>2, <1>3
<1>5. QED
  BY <1>1, <1>4, ReadyRow

\* Committing a transaction that has marked its row.
LEMMA Committed ==
    ASSUME Inductive, NEW r \in Requests, req[r].pc = "commit",
           NEW got, got = req[r].got,
           bundles' = With(bundles, r, req[r].row), UNCHANGED objects
    PROVE  /\ \A s \in Requests \ {r} : SameBundle(s)
           /\ ReadyHere(r)' /\ BundleOf(r, got)'
<1>1. r \in DOMAIN objects /\ req[r].row = Row(got, "ready")
  BY DEF Inductive, Progress, Storing
<1>2. /\ DOMAIN With(bundles, r, req[r].row) = DOMAIN bundles \union {r}
      /\ With(bundles, r, req[r].row)[r] = req[r].row
      /\ \A s : s # r /\ s \in DOMAIN bundles => With(bundles, r, req[r].row)[s] = bundles[s]
  BY DEF With
<1>3. /\ DOMAIN bundles' = DOMAIN bundles \union {r} /\ bundles'[r] = Row(got, "ready")
      /\ \A s \in DOMAIN bundles \ {r} : bundles'[s] = bundles[s]
  BY <1>1, <1>2
<1>4. QED
  BY <1>1, <1>3, ReadyRow

\* The last write of the row, on its own or with the transaction.
LEMMA LastWritesKeep ==
    ASSUME Inductive, NEW r \in Requests,
           \/ MarkReady(r) /\ ~Rls(r)
           \/ MarkFails(r) \/ Commit(r) \/ CommitFails(r)
    PROVE  Inductive'
<1>1. /\ UNCHANGED <<now, source, wiring, objects, reader>>
      /\ req[r].pc \in {"ready", "commit"} /\ req[r].pc \in Storing
  BY DEF MarkReady, MarkFails, Commit, CommitFails, At, Storing
<1>2. PICK got : got = req[r].got
  OBVIOUS
<1>3. PICK answer : /\ req' = Ended(r, answer)
                    /\ answer = "created" => (MarkReady(r) /\ ~Rls(r)) \/ Commit(r)
  BY DEF MarkReady, MarkFails, Commit, CommitFails, Refused
<1>4. /\ \A s \in Requests \ {r} : SameBundle(s)
      /\ ReadyHere(r) => ReadyHere(r)'
      /\ BundleOf(r, got)'
      /\ (MarkReady(r) /\ ~Rls(r)) \/ Commit(r) => ReadyHere(r)'
  <2>1. CASE bundles' = [bundles EXCEPT ![r].status = "ready"] /\ ~Rls(r) /\ req[r].pc = "ready"
    BY <1>1, <1>2, <2>1, MarkedAlone
  <2>2. CASE bundles' = With(bundles, r, req[r].row) /\ req[r].pc = "commit"
    BY <1>1, <1>2, <2>2, Committed
  <2>3. CASE bundles' = bundles /\ ~(MarkReady(r) /\ ~Rls(r)) /\ ~Commit(r)
    BY <1>1, <1>2, <2>3 DEF Inductive, Placed, BundleOf, SameBundle, ReadyHere
  <2>4. QED
    <3>1. CASE MarkReady(r) /\ ~Rls(r)
      BY <2>1, <3>1 DEF MarkReady, At
    <3>2. CASE Commit(r)
      BY <2>2, <3>2 DEF Commit, At
    <3>3. CASE MarkFails(r) /\ ~(MarkReady(r) /\ ~Rls(r))
      BY <2>1, <2>3, <3>3 DEF MarkFails, Commit, At
    <3>4. CASE CommitFails(r) /\ ~Commit(r)
      BY <2>2, <2>3, <3>4 DEF CommitFails, MarkReady, At
    <3>5. QED
      BY <3>1, <3>2, <3>3, <3>4
<1>5. QED
  BY <1>1, <1>2, <1>3, <1>4, EndKeeps

\* Later stages keep the collection and what it is compared with.
LEMMA BracketKept ==
    ASSUME NEW r, Bracket(r), req[r].pc \in Collecting, UNCHANGED <<source, wiring>>,
           UNCHANGED <<req[r].ids, req[r].range, req[r].since, req[r].todo, req[r].got>>,
           req[r].pc \notin Storing => (req'[r].pc \in Storing => req[r].todo = <<>>)
    PROVE  Bracket(r)'
<1>1. \A i, g : Evidence(i, g)' = Evidence(i, g)
  BY DEF Evidence
<1>2. QED
  BY <1>1 DEF Bracket

\* The transaction begins.
LEMMA BeginKeeps ==
    ASSUME Inductive, NEW r \in Requests, Begin(r)
    PROVE  Inductive'
<1> DEFINE x == [req[r] EXCEPT !.pc = "collect", !.conn = TRUE]
<1>1. /\ DOMAIN req = Requests /\ RequestOK(r) /\ req[r].pc = "begin"
      /\ Placed(r) /\ Progress(r) /\ Bracket(r)
  BY DEF Inductive, FormOK, Begin, At
<1>2. req' = [req EXCEPT ![r] = x] /\ UNCHANGED <<now, source, wiring, bundles, objects, reader>>
  BY DEF Begin
<1>3. /\ DOMAIN x = Fields /\ x.pc = "collect"
      /\ x.path = req[r].path /\ x.range = req[r].range /\ x.ids = req[r].ids
      /\ x.todo = req[r].todo /\ x.got = req[r].got /\ x.since = req[r].since
      /\ x.answer = req[r].answer
  BY <1>1 DEF RequestOK, Fields
<1> HIDE DEF x
<1>4. Moves(r) /\ req'[r] = x
  BY <1>1, <1>2 DEF Moves, SameBundle, ReadyHere
<1>5. RequestOK(r)'
  BY <1>1, <1>3, <1>4 DEF RequestOK, Stages
<1>6. Placed(r)'
  BY <1>1, <1>2, <1>3, <1>4 DEF Placed, BundleOf, Storing
<1>7. Progress(r)'
  BY <1>1, <1>2, <1>3, <1>4 DEF Progress, Storing
<1>8. Bracket(r)'
  BY <1>1, <1>2, <1>3, <1>4, BracketKept DEF Collecting, Storing
<1>9. QED
  BY <1>4, <1>5, <1>6, <1>7, <1>8, OneMoves

\* The row is written, in the transaction or on its own.
LEMMA CreateRowKeeps ==
    ASSUME Inductive, NEW r \in Requests, CreateRow(r)
    PROVE  Inductive'
<1>1. /\ DOMAIN req = Requests /\ RequestOK(r) /\ req[r].pc = "collect" /\ req[r].todo = <<>>
      /\ Placed(r) /\ Progress(r) /\ Bracket(r)
  BY DEF Inductive, FormOK, CreateRow, At
<1>2. r \notin DOMAIN bundles \union DOMAIN objects
  BY <1>1 DEF Placed, Storing
<1> DEFINE b == Row(req[r].got, "generating")
           x == [req[r] EXCEPT !.pc = "put", !.row = IF Rls(r) THEN b ELSE @]
<1>3. /\ UNCHANGED <<now, source, wiring, objects, reader>>
      /\ req' = [req EXCEPT ![r] = x]
      /\ bundles' = IF Rls(r) THEN bundles ELSE With(bundles, r, b)
  <2>1. Stored(r, b) /\ UNCHANGED <<now, source, wiring, objects, reader>>
    BY ManifestIsRow DEF CreateRow
  <2> HIDE DEF b
  <2>2. CASE Rls(r)
    BY <2>1, <2>2 DEF Stored
  <2>3. CASE ~Rls(r)
    <3>1. req' = [req EXCEPT ![r].pc = "put"] /\ bundles' = With(bundles, r, b)
      BY <2>1, <2>3 DEF Stored
    <3>2. x = [req[r] EXCEPT !.pc = "put"]
      BY <1>1, <2>3 DEF RequestOK, Fields
    <3>3. QED
      BY <2>1, <2>3, <3>1, <3>2
  <2>4. QED
    BY <2>2, <2>3
<1>4. /\ DOMAIN x = Fields /\ x.pc = "put"
      /\ x.path = req[r].path /\ x.range = req[r].range /\ x.ids = req[r].ids
      /\ x.todo = req[r].todo /\ x.got = req[r].got /\ x.since = req[r].since
      /\ x.answer = req[r].answer /\ (Rls(r) => x.row = b)
  BY <1>1 DEF RequestOK, Fields
<1> HIDE DEF x
<1>5. /\ \A s : s # r => (s \in DOMAIN bundles' <=> s \in DOMAIN bundles)
      /\ \A s \in DOMAIN bundles : s # r => bundles'[s] = bundles[s]
      /\ ~Rls(r) => r \in DOMAIN bundles'
      /\ r \in DOMAIN bundles' => bundles'[r] = b
  BY <1>2, <1>3 DEF With
<1>6. Moves(r) /\ req'[r] = x
  BY <1>1, <1>2, <1>3, <1>5 DEF Moves, SameBundle, ReadyHere
<1>7. RequestOK(r)'
  BY <1>1, <1>4, <1>6 DEF RequestOK, Stages
<1>8. Placed(r)'
  <2>1. b.status = "generating"
    BY RowStatus
  <2>2. QED
    BY <1>2, <1>3, <1>4, <1>5, <1>6, <2>1 DEF Placed, BundleOf, Storing
<1>9. Progress(r)'
  BY <1>1, <1>2, <1>3, <1>4, <1>5, <1>6 DEF Progress, Storing, Rls
<1>10. Bracket(r)'
  BY <1>1, <1>3, <1>4, <1>6, BracketKept DEF Collecting, Storing
<1>11. QED
  BY <1>6, <1>7, <1>8, <1>9, <1>10, OneMoves

\* The upload, and its repetitions.
LEMMA PutKeeps ==
    ASSUME Inductive, NEW r \in Requests, Put(r) \/ PutRetry(r)
    PROVE  Inductive'
<1>1. /\ DOMAIN req = Requests /\ RequestOK(r) /\ req[r].pc = "put" /\ req[r].pc \in Storing
      /\ Placed(r) /\ Progress(r) /\ Bracket(r)
  BY DEF Inductive, FormOK, Put, PutRetry, At, Storing
<1>2. PICK x : /\ req' = [req EXCEPT ![r] = x]
               /\ \/ x = [req[r] EXCEPT !.pc = "ready"] /\ objects' = With(objects, r, Manifest(r))
                  \/ x = [req[r] EXCEPT !.tries = @ + 1]
  BY DEF Put, PutRetry
<1>3. /\ UNCHANGED <<now, source, wiring, bundles, reader>>
      /\ objects' \in {objects, With(objects, r, Manifest(r))}
  BY DEF Put, PutRetry
<1>4. /\ DOMAIN x = Fields /\ x.pc \in {"put", "ready"}
      /\ x.path = req[r].path /\ x.range = req[r].range /\ x.ids = req[r].ids
      /\ x.todo = req[r].todo /\ x.got = req[r].got /\ x.since = req[r].since
      /\ x.answer = req[r].answer /\ x.row = req[r].row
      /\ x.pc = "ready" => objects' = With(objects, r, Manifest(r))
  BY <1>1, <1>2 DEF RequestOK, Fields
<1>5. PICK got : got = req[r].got
  OBVIOUS
<1>6. /\ \A s \in Requests \ {r} : SameBundle(s)
      /\ ReadyHere(r) => ReadyHere(r)'
      /\ BundleOf(r, got)'
      /\ x.pc = "ready" => r \in DOMAIN objects'
  BY <1>1, <1>3, <1>4, <1>5, UploadKeeps
<1>7. Moves(r) /\ req'[r] = x
  BY <1>1, <1>2, <1>3, <1>6 DEF Moves
<1>8. RequestOK(r)'
  BY <1>1, <1>4, <1>7 DEF RequestOK, Stages
<1>9. Placed(r)'
  BY <1>4, <1>5, <1>6, <1>7 DEF Placed, Storing
<1>10. Progress(r)'
  BY <1>1, <1>3, <1>4, <1>6, <1>7 DEF Progress, Storing
<1>11. Bracket(r)'
  BY <1>1, <1>3, <1>4, <1>7, BracketKept DEF Collecting, Storing
<1>12. QED
  BY <1>7, <1>8, <1>9, <1>10, <1>11, OneMoves

\* The row is marked Ready in the transaction.
LEMMA MarkInTxKeeps ==
    ASSUME Inductive, NEW r \in Requests, MarkReady(r), Rls(r)
    PROVE  Inductive'
<1>1. /\ DOMAIN req = Requests /\ RequestOK(r) /\ req[r].pc = "ready" /\ req[r].path = "rls"
      /\ Placed(r) /\ Progress(r) /\ Bracket(r)
  BY DEF Inductive, FormOK, MarkReady, At, Rls
<1> DEFINE x == [req[r] EXCEPT !.pc = "commit", !.row.status = "ready"]
<1>2. req' = [req EXCEPT ![r] = x] /\ UNCHANGED <<now, source, wiring, bundles, objects, reader>>
  BY DEF MarkReady
<1>3. /\ DOMAIN x = Fields /\ x.pc = "commit"
      /\ x.path = req[r].path /\ x.range = req[r].range /\ x.ids = req[r].ids
      /\ x.todo = req[r].todo /\ x.got = req[r].got /\ x.since = req[r].since
      /\ x.answer = req[r].answer /\ x.row = [req[r].row EXCEPT !.status = "ready"]
  BY <1>1 DEF RequestOK, Fields
<1> HIDE DEF x
<1>4. Moves(r) /\ req'[r] = x
  BY <1>1, <1>2 DEF Moves, SameBundle, ReadyHere
<1>5. RequestOK(r)'
  BY <1>1, <1>3, <1>4 DEF RequestOK, Stages
<1>6. Placed(r)'
  BY <1>1, <1>2, <1>3, <1>4 DEF Placed, BundleOf, Storing
<1>7. Progress(r)'
  <2>1. req[r].row = Row(req[r].got, "generating")
    BY <1>1 DEF Progress, Storing
  <2>2. x.row = Row(req[r].got, "ready")
    BY <1>3, <2>1, MarkedRow
  <2>3. QED
    BY <1>1, <1>2, <1>3, <1>4, <2>2 DEF Progress, Storing
<1>8. Bracket(r)'
  BY <1>1, <1>2, <1>3, <1>4, BracketKept DEF Collecting, Storing
<1>9. QED
  BY <1>4, <1>5, <1>6, <1>7, <1>8, OneMoves

\* A request comes: what is there now is what it has still to read.
LEMMA ReceiveKeeps ==
    ASSUME Inductive, NEW r \in Requests, ReceiveCreate(r)
    PROVE  Inductive'
<1>1. /\ DOMAIN req = Requests /\ req[r].pc = "idle" /\ Placed(r)
      /\ UNCHANGED <<now, source, wiring, bundles, objects, reader>>
  BY DEF Inductive, FormOK, ReceiveCreate, At
<1>2. PICK path \in {"rls", "plain"}, range \in TimeRanges, ids \in IdLists :
          req' = [req EXCEPT ![r] = Asked(r, path, range, ids)]
  BY DEF ReceiveCreate
<1> DEFINE x == Asked(r, path, range, ids)
<1>3. /\ DOMAIN x = Fields /\ x.pc \in {"begin", "collect"} /\ x.path = path
      /\ x.range = range /\ x.ids = ids /\ x.got = <<>> /\ x.since = Evidence(ids, range)
      /\ x.todo = IF wiring.collector = "real" THEN Reads(ids) ELSE <<>>
      /\ x.answer = None
  BY DEF Asked, Idle, Fields
<1> HIDE DEF x
<1>4. ids \in Seq(Owned \union Foreign)
  BY ForensicsAssumption
<1>5. /\ Reads(ids) \in Seq(ReadsToDo)
      /\ \A i \in Range(ids), k \in Range(Kinds) : <<i, k>> \in Range(Reads(ids))
      /\ \A p \in Range(Reads(ids)) : p[1] \in Range(ids)
  BY <1>4, ReadsCover
<1>6. Moves(r) /\ req'[r] = x
  BY <1>1, <1>2 DEF Moves, SameBundle, ReadyHere, x
<1>7. RequestOK(r)'
  <2>1. x.todo \in Seq(ReadsToDo) /\ x.got \in Seq(Reading)
    BY <1>3, <1>5
  <2>2. QED
    BY <1>3, <1>6, <2>1 DEF RequestOK, Stages
<1>8. Placed(r)'
  BY <1>1, <1>3, <1>6 DEF Placed, BundleOf, Storing
<1>9. Progress(r)'
  BY <1>3, <1>6, ForensicsAssumption DEF Progress, Storing
<1>10. Bracket(r)'
  <2>1. \A i, g : Evidence(i, g)' = Evidence(i, g)
    BY <1>1 DEF Evidence
  <2>2. RowsOf(<<>>) = {}
    BY DEF RowsOf
  <2>3. ASSUME wiring.collector = "real", NEW t \in Evidence(ids, range)
        PROVE  <<t[1], t[2]>> \in Range(x.todo)
    <3>1. PICK i \in Range(ids) \cap Owned : \E k \in Range(Kinds) :
                  \E y \in {z \in source[i][k] : InRange(z, range)} : t = <<i, k, y>>
      BY InEvidence
    <3>2. PICK k \in Range(Kinds) :
                  \E y \in {z \in source[i][k] : InRange(z, range)} : t = <<i, k, y>>
      BY <3>1
    <3>3. t[1] = i /\ t[2] = k
      BY <3>2
    <3>4. QED
      BY <1>3, <1>5, <2>3, <3>3
  <2>4. QED
    BY <1>1, <1>3, <1>5, <1>6, <2>1, <2>2, <2>3 DEF Bracket, Storing
<1>11. QED
  BY <1>6, <1>7, <1>8, <1>9, <1>10, OneMoves

\* One read: the rows it found are those that are there, and with them the rows
\* that were there when the request came.
LEMMA CollectKeeps ==
    ASSUME Inductive, NEW r \in Requests, Collect(r)
    PROVE  Inductive'
<1>1. /\ DOMAIN req = Requests /\ RequestOK(r) /\ req[r].pc = "collect" /\ req[r].todo # <<>>
      /\ Placed(r) /\ Progress(r) /\ Bracket(r) /\ SourceOK
      /\ UNCHANGED <<now, source, wiring, bundles, objects, reader>>
  BY DEF Inductive, FormOK, Collect, At
<1> DEFINE i == Head(req[r].todo)[1]
           k == Head(req[r].todo)[2]
<1>2. i \in Owned
  BY DEF Collect
<1>3. PICK rows \in Listings(i, k, req[r].range) :
          req' = [req EXCEPT ![r].todo = Tail(@), ![r].got = Append(@, Read(i, k, rows))]
  BY DEF Collect
<1>4. /\ req[r].todo \in Seq(ReadsToDo) /\ req[r].got \in Seq(Reading)
      /\ Head(req[r].todo) \in ReadsToDo /\ Tail(req[r].todo) \in Seq(ReadsToDo)
  BY <1>1, HeadTailProperties DEF RequestOK
<1>5. k \in Range(Kinds) /\ Head(req[r].todo) = <<i, k>>
  BY <1>4 DEF ReadsToDo
<1> HIDE DEF i, k
<1>6. /\ rows \in Seq(SourceRow)
      /\ Range(rows) = {y \in source[i][k] : InRange(y, req[r].range)}
  BY <1>1, <1>2, <1>5, ListingHoldsAll
<1> DEFINE read == Read(i, k, rows)
<1>7. /\ read \in Reading /\ read.intent = i /\ read.kind = k /\ read.rows = rows
  BY <1>2, <1>5, <1>6 DEF Read, Reading
<1> DEFINE x == [req[r] EXCEPT !.todo = Tail(@), !.got = Append(@, read)]
<1>8. /\ DOMAIN x = Fields /\ x.pc = "collect" /\ x.path = req[r].path
      /\ x.range = req[r].range /\ x.ids = req[r].ids /\ x.since = req[r].since
      /\ x.todo = Tail(req[r].todo) /\ x.got = Append(req[r].got, read)
      /\ x.answer = req[r].answer
  BY <1>1 DEF RequestOK, Fields
<1>9. req' = [req EXCEPT ![r] = x]
  BY <1>3
<1> HIDE DEF x, read
<1>10. Moves(r) /\ req'[r] = x
  BY <1>1, <1>9 DEF Moves, SameBundle, ReadyHere
<1>11. RequestOK(r)'
  <2>1. Append(req[r].got, read) \in Seq(Reading)
    BY <1>4, <1>7
  <2>2. QED
    BY <1>4, <1>8, <1>10, <2>1 DEF RequestOK, Stages
<1>12. Placed(r)'
  BY <1>1, <1>8, <1>10 DEF Placed, BundleOf, Storing
<1>13. Progress(r)'
  BY <1>1, <1>8, <1>10 DEF Progress, Storing
<1>14. Bracket(r)'
  <2> SUFFICES ASSUME wiring.collector = "real"
               PROVE  /\ x.since \subseteq Evidence(x.ids, x.range)
                      /\ RowsOf(x.got) \subseteq Evidence(x.ids, x.range)
                      /\ \A t \in x.since : <<t[1], t[2]>> \in Range(x.todo) \/ t \in RowsOf(x.got)
                      /\ \A p \in Range(x.todo) : p[1] \in Range(x.ids)
    <3>1. \A is, g : Evidence(is, g)' = Evidence(is, g)
      BY <1>1 DEF Evidence
    <3>2. QED
      BY <1>1, <1>8, <1>10, <3>1 DEF Bracket, Storing
  <2>1. /\ req[r].since \subseteq Evidence(x.ids, x.range)
        /\ RowsOf(req[r].got) \subseteq Evidence(x.ids, x.range)
        /\ \A t \in req[r].since : <<t[1], t[2]>> \in Range(req[r].todo) \/ t \in RowsOf(req[r].got)
        /\ \A p \in Range(req[r].todo) : p[1] \in Range(x.ids)
    BY <1>1, <1>8 DEF Bracket, Collecting
  <2>2. \A t : t \in RowsOf(x.got) <=> t \in RowsOf(req[r].got) \/ \E y \in Range(rows) : t = <<i, k, y>>
    BY <1>4, <1>7, <1>8, RowsOfRead
  <2>3. \A p : p \in Range(req[r].todo) <=> p = <<i, k>> \/ p \in Range(x.todo)
    <3> DEFINE s == req[r].todo
    <3>1. s \in Seq(ReadsToDo) /\ s # <<>> /\ x.todo = Tail(s) /\ Head(s) = <<i, k>>
      BY <1>1, <1>4, <1>5, <1>8
    <3> HIDE DEF s
    <3>2. /\ Len(s) \in Nat /\ Len(s) > 0 /\ DOMAIN s = 1..Len(s) /\ s[1] = <<i, k>>
          /\ DOMAIN Tail(s) = 1..(Len(s) - 1)
          /\ \A n \in 1..(Len(s) - 1) : Tail(s)[n] = s[n + 1]
      BY <3>1
    <3>3. \A n \in 1..Len(s) : n # 1 => n - 1 \in 1..(Len(s) - 1) /\ s[n] = Tail(s)[n - 1]
      BY <3>2
    <3>4. \A n \in 1..(Len(s) - 1) : n + 1 \in 1..Len(s)
      BY <3>2
    <3>5. \A p : p \in Range(s) <=> p = <<i, k>> \/ p \in Range(Tail(s))
      <4>1. ASSUME NEW p \in Range(s) PROVE p = <<i, k>> \/ p \in Range(Tail(s))
        <5>1. PICK n \in 1..Len(s) : p = s[n]
          BY <3>2 DEF Range
        <5>2. CASE n = 1
          BY <3>2, <5>1, <5>2
        <5>3. CASE n # 1
          <6>1. n - 1 \in DOMAIN Tail(s) /\ p = Tail(s)[n - 1]
            BY <3>2, <3>3, <5>1, <5>3
          <6>2. QED
            BY <6>1 DEF Range
        <5>4. QED
          BY <5>2, <5>3
      <4>2. ASSUME NEW p \in Range(Tail(s)) PROVE p \in Range(s)
        BY <3>2, <3>4, <4>2 DEF Range
      <4>3. <<i, k>> \in Range(s)
        BY <3>2 DEF Range
      <4>4. QED
        BY <4>1, <4>2, <4>3
    <3>6. QED
      BY <3>1, <3>5 DEF s
  <2>4. i \in Range(x.ids) \cap Owned
    BY <1>2, <2>1, <2>3
  <2>5. ASSUME NEW t \in RowsOf(x.got) PROVE t \in Evidence(x.ids, x.range)
    <3>1. CASE t \in RowsOf(req[r].got)
      BY <2>1, <3>1
    <3>2. CASE \E y \in Range(rows) : t = <<i, k, y>>
      BY <1>5, <1>6, <1>8, <2>4, <3>2, InEvidence
    <3>3. QED
      BY <2>2, <2>5, <3>1, <3>2
  <2>6. ASSUME NEW t \in x.since PROVE <<t[1], t[2]>> \in Range(x.todo) \/ t \in RowsOf(x.got)
    <3>1. t \in req[r].since /\ t \in Evidence(x.ids, x.range)
      BY <1>8, <2>1
    <3>2. PICK j \in Range(x.ids) \cap Owned : \E m \in Range(Kinds) :
              \E y \in {z \in source[j][m] : InRange(z, x.range)} : t = <<j, m, y>>
      BY <3>1, InEvidence
    <3>3. PICK m \in Range(Kinds) :
              \E y \in {z \in source[j][m] : InRange(z, x.range)} : t = <<j, m, y>>
      BY <3>2
    <3>4. t[1] = j /\ t[2] = m
      BY <3>3
    <3>5. CASE <<j, m>> = <<i, k>>
      <4>1. \E y \in Range(rows) : t = <<i, k, y>>
        BY <1>6, <1>8, <3>3, <3>5
      <4>2. QED
        BY <2>2, <4>1
    <3>6. CASE <<j, m>> # <<i, k>>
      BY <2>1, <2>2, <2>3, <3>1, <3>4, <3>6
    <3>7. QED
      BY <3>5, <3>6
  <2>7. QED
    BY <1>8, <2>1, <2>3, <2>5, <2>6
<1>15. QED
  BY <1>10, <1>11, <1>12, <1>13, <1>14, OneMoves

-----------------------------------------------------------------------------
(* The readers and the rest of the service. *)

\* Nothing of the requests changes but the evidence, which only grows.
LEMMA EvidenceGrows ==
    ASSUME Inductive, UNCHANGED <<wiring, req, bundles, objects>>, SourceOK',
           \A i \in Owned, k \in Range(Kinds) : source[i][k] \subseteq source'[i][k],
           DOMAIN reader' = Readers, \A d \in Readers : ReaderOK(d)' /\ Saw(d)'
    PROVE  Inductive'
<1>1. FormOK'
  BY DEF Inductive, FormOK, RequestOK
<1>2. ASSUME NEW ids, NEW range, NEW t \in Evidence(ids, range)
      PROVE  t \in Evidence(ids, range)'
  <2>1. PICK i \in Range(ids) \cap Owned : \E k \in Range(Kinds) :
            \E x \in {y \in source[i][k] : InRange(y, range)} : t = <<i, k, x>>
    BY InEvidence
  <2>2. PICK k \in Range(Kinds) :
            \E x \in {y \in source[i][k] : InRange(y, range)} : t = <<i, k, x>>
    BY <2>1
  <2>3. \E x \in {y \in source'[i][k] : InRange(y, range)} : t = <<i, k, x>>
    BY <2>2
  <2>4. QED
    BY <2>3 DEF Evidence, InRange
<1>3. ASSUME NEW r \in Requests PROVE Placed(r)' /\ Progress(r)' /\ Bracket(r)'
  <2>1. Placed(r) /\ Progress(r) /\ Bracket(r)
    BY DEF Inductive
  <2>2. Placed(r)' /\ Progress(r)'
    BY <2>1 DEF Placed, BundleOf, Progress
  <2>3. Bracket(r)'
    BY <1>2, <2>1 DEF Bracket
  <2>4. QED
    BY <2>2, <2>3
<1>4. QED
  BY <1>1, <1>3 DEF Inductive

\* Rows are added and the clock goes on.
LEMMA ServiceKeeps ==
    ASSUME Inductive, \/ Tick
                      \/ \E i \in Owned, k \in Range(Kinds) : Insert(i, k)
    PROVE  Inductive'
<1>1. SourceOK /\ DOMAIN reader = Readers /\ \A d \in Readers : ReaderOK(d) /\ Saw(d)
  BY DEF Inductive, FormOK
<1>2. UNCHANGED <<wiring, req, bundles, objects, reader>>
  BY DEF Tick, Insert
<1>3. DOMAIN reader' = Readers /\ \A d \in Readers : ReaderOK(d)' /\ Saw(d)'
  BY <1>1, <1>2 DEF ReaderOK, Saw
<1>4. CASE Tick
  <2>1. now' = now + 1 /\ source' = source
    BY <1>4 DEF Tick
  <2>2. SourceOK'
    BY <1>1, <2>1 DEF SourceOK
  <2>3. QED
    BY <1>2, <1>3, <2>1, <2>2, EvidenceGrows
<1>5. ASSUME NEW i \in Owned, NEW k \in Range(Kinds), Insert(i, k)
      PROVE  Inductive'
  <2> DEFINE n == Cardinality(source[i][k]) + 1
  <2>1. PICK at \in 0..now : source' = [source EXCEPT ![i][k] = @ \union {[no |-> n, at |-> at]}]
    BY <1>5 DEF Insert
  <2>2. now' = now /\ now \in Nat /\ at \in Nat
    BY <1>1, <1>5 DEF Insert, SourceOK
  <2>3. n \in Nat
    BY <1>1, FS_CardinalityType DEF SourceOK
  <2> HIDE DEF n
  <2> DEFINE x == [no |-> n, at |-> at]
             grown == source[i][k] \union {x}
  <2>4. x \in SourceRow
    BY <2>2, <2>3 DEF SourceRow
  <2>5. source[i][k] \in SUBSET SourceRow /\ IsFiniteSet(source[i][k])
    BY <1>1 DEF SourceOK
  <2>6. IsFiniteSet(grown) /\ grown \in SUBSET SourceRow
    BY <2>4, <2>5, FS_AddElement
  <2>7. source' = [source EXCEPT ![i] = [source[i] EXCEPT ![k] = grown]]
    BY <2>1
  <2> HIDE DEF x, grown
  <2>8. /\ source' \in [Owned -> [Range(Kinds) -> SUBSET SourceRow]]
        /\ \A j \in Owned, m \in Range(Kinds) :
              source'[j][m] = IF j = i /\ m = k THEN grown ELSE source[j][m]
    BY <1>1, <2>6, <2>7 DEF SourceOK
  <2>9. SourceOK'
    BY <1>1, <2>2, <2>6, <2>8 DEF SourceOK
  <2>10. \A j \in Owned, m \in Range(Kinds) : source[j][m] \subseteq source'[j][m]
    BY <2>8 DEF grown
  <2>11. QED
    BY <1>2, <1>3, <2>9, <2>10, EvidenceGrows
<1>6. QED
  BY <1>4, <1>5

\* A reader looks: what it saw Ready was so, and its object is there.
LEMMA ReadersKeep ==
    ASSUME Inductive, NEW d \in Readers, LoadRow(d) \/ Download(d) \/ Verify(d)
    PROVE  Inductive'
<1>1. /\ SourceOK /\ DOMAIN reader = Readers /\ \A e \in Readers : ReaderOK(e) /\ Saw(e)
      /\ UNCHANGED <<now, source, wiring, req, bundles, objects>>
  BY DEF Inductive, FormOK, LoadRow, Download, Verify
<1>2. PICK x : /\ reader' = [reader EXCEPT ![d] = x]
               /\ DOMAIN x = ReaderFields
               /\ x.status = "ready" =>
                    /\ x.bundle \in Requests \intersect DOMAIN bundles
                    /\ bundles[x.bundle].status = "ready"
                    /\ x.answer # "not_found"
  <2>1. CASE LoadRow(d)
    <3>1. PICK b \in Requests, pc \in {"download", "verify"} :
            reader' = [reader EXCEPT ![d] =
                IF b \notin DOMAIN bundles
                THEN [Resting EXCEPT !.pc = "done", !.bundle = b, !.answer = "not_found"]
                ELSE [Resting EXCEPT !.pc = pc, !.bundle = b, !.status = bundles[b].status]]
      BY <2>1 DEF LoadRow
    <3>2. CASE b \notin DOMAIN bundles
      <4> DEFINE x == [Resting EXCEPT !.pc = "done", !.bundle = b, !.answer = "not_found"]
      <4>1. DOMAIN x = ReaderFields /\ x.status = None
        BY DEF Resting, ReaderFields
      <4>2. reader' = [reader EXCEPT ![d] = x]
        BY <3>1, <3>2
      <4> HIDE DEF x
      <4>3. QED
        BY <4>1, <4>2, ForensicsAssumption
    <3>3. CASE b \in DOMAIN bundles
      <4> DEFINE x == [Resting EXCEPT !.pc = pc, !.bundle = b, !.status = bundles[b].status]
      <4>1. /\ DOMAIN x = ReaderFields /\ x.status = bundles[b].status /\ x.bundle = b
            /\ x.answer = None
        BY DEF Resting, ReaderFields
      <4>2. reader' = [reader EXCEPT ![d] = x]
        BY <3>1, <3>3
      <4> HIDE DEF x
      <4>3. QED
        BY <3>3, <4>1, <4>2, ForensicsAssumption
    <3>4. QED
      BY <3>2, <3>3
  <2>2. CASE Download(d)
    <3> DEFINE a == IF reader[d].bundle \notin DOMAIN objects THEN "not_found" ELSE "bytes"
               x == [reader[d] EXCEPT !.pc = "done", !.answer = a]
    <3>1. reader' = [reader EXCEPT ![d] = x]
      BY <2>2 DEF Download
    <3>2. /\ DOMAIN x = ReaderFields /\ x.status = reader[d].status
          /\ x.bundle = reader[d].bundle /\ x.answer = a
      BY <1>1 DEF ReaderOK, ReaderFields
    <3>3. reader[d].status = "ready" => a = "bytes"
      <4>1. \A b \in Requests : BundleOf(b, req[b].got)
        BY DEF Inductive, Placed
      <4>2. QED
        BY <1>1, <4>1 DEF Saw, BundleOf
    <3> HIDE DEF x, a
    <3>4. x.status = "ready" => x.answer # "not_found"
      BY <3>2, <3>3
    <3>5. QED
      BY <1>1, <3>1, <3>2, <3>4 DEF Saw
  <2>3. CASE Verify(d)
    <3>1. ASSUME NEW x, DOMAIN x = ReaderFields, x.status = reader[d].status,
                 x.bundle = reader[d].bundle, x.answer # "not_found",
                 reader' = [reader EXCEPT ![d] = x]
          PROVE  /\ reader' = [reader EXCEPT ![d] = x]
                 /\ DOMAIN x = ReaderFields
                 /\ x.status = "ready" =>
                      /\ x.bundle \in Requests \intersect DOMAIN bundles
                      /\ bundles[x.bundle].status = "ready"
                      /\ x.answer # "not_found"
      BY <1>1, <3>1 DEF Saw
    <3>2. CASE bundles[reader[d].bundle].status # "ready"
      <4> DEFINE x == [reader[d] EXCEPT !.pc = "done", !.answer = "not_ready"]
      <4>1. reader' = [reader EXCEPT ![d] = x]
        BY <2>3, <3>2 DEF Verify
      <4>2. /\ DOMAIN x = ReaderFields /\ x.status = reader[d].status
            /\ x.bundle = reader[d].bundle /\ x.answer # "not_found"
        BY <1>1 DEF ReaderOK, ReaderFields
      <4> HIDE DEF x
      <4>3. QED
        BY <3>1, <4>1, <4>2
    <3>3. CASE bundles[reader[d].bundle].status = "ready"
      <4>1. PICK got : reader' = [reader EXCEPT ![d].pc = "done",
                    ![d].same = RowsOf(got) = RowsOf(req[reader[d].bundle].got),
                    ![d].tied = Tied(RowsOf(got)),
                    ![d].answer = IF Differing(bundles[reader[d].bundle], Prepared(got)) = {}
                                  THEN "verified" ELSE "differs"]
        BY <2>3, <3>3 DEF Verify
      <4> DEFINE x == [reader[d] EXCEPT !.pc = "done",
                    !.same = RowsOf(got) = RowsOf(req[reader[d].bundle].got),
                    !.tied = Tied(RowsOf(got)),
                    !.answer = IF Differing(bundles[reader[d].bundle], Prepared(got)) = {}
                               THEN "verified" ELSE "differs"]
      <4>2. reader' = [reader EXCEPT ![d] = x]
        BY <4>1
      <4>3. /\ DOMAIN x = ReaderFields /\ x.status = reader[d].status
            /\ x.bundle = reader[d].bundle /\ x.answer # "not_found"
        BY <1>1 DEF ReaderOK, ReaderFields
      <4> HIDE DEF x
      <4>4. QED
        BY <3>1, <4>2, <4>3
    <3>4. QED
      BY <3>2, <3>3
  <2>4. QED
    BY <2>1, <2>2, <2>3
<1>3. DOMAIN reader' = Readers /\ \A e \in Readers : ReaderOK(e)' /\ Saw(e)'
  <2>1. DOMAIN reader' = Readers /\ reader'[d] = x /\ \A e \in Readers : e # d => reader'[e] = reader[e]
    BY <1>1, <1>2
  <2>2. ReaderOK(d)' /\ Saw(d)'
    BY <1>1, <1>2, <2>1 DEF ReaderOK, Saw
  <2>3. ASSUME NEW e \in Readers, e # d PROVE ReaderOK(e)' /\ Saw(e)'
    BY <1>1, <2>1, <2>3 DEF ReaderOK, Saw
  <2>4. QED
    BY <2>1, <2>2, <2>3
<1>4. SourceOK' /\ \A i \in Owned, k \in Range(Kinds) : source[i][k] \subseteq source'[i][k]
  BY <1>1 DEF SourceOK
<1>5. QED
  BY <1>1, <1>3, <1>4, EvidenceGrows

-----------------------------------------------------------------------------
(* The invariant. *)

\* It holds of the empty service.
LEMMA InductiveInit == Init => Inductive
<1> SUFFICES ASSUME Init PROVE Inductive
  OBVIOUS
<1>1. \A r \in Requests : req[r] = Idle
  BY DEF Init
<1>2. DOMAIN Idle = Fields /\ Idle.pc = "idle" /\ Idle.todo = <<>> /\ Idle.got = <<>> /\ Idle.answer = None
  BY DEF Idle, Fields
<1>3. \A d \in Readers : reader[d] = Resting
  BY DEF Init
<1>4. DOMAIN Resting = ReaderFields /\ Resting.status = None
  BY DEF Resting, ReaderFields
<1>5. SourceOK
  BY FS_EmptySet DEF Init, SourceOK
<1>6. DOMAIN bundles = {} /\ DOMAIN objects = {}
  BY DEF Init
<1>7. \A r \in Requests : RequestOK(r)
  <2>1. <<>> \in Seq(ReadsToDo) /\ <<>> \in Seq(Reading)
    OBVIOUS
  <2>2. QED
    BY <1>1, <1>2, <2>1 DEF RequestOK, Stages
<1>8. FormOK
  BY <1>3, <1>4, <1>5, <1>7 DEF FormOK, ReaderOK, Init
<1>9. \A r \in Requests : Placed(r) /\ Progress(r) /\ Bracket(r)
  BY <1>1, <1>2, <1>6, ForensicsAssumption DEF Placed, BundleOf, Progress, Bracket, Collecting, Storing
<1>10. \A d \in Readers : Saw(d)
  BY <1>3, <1>4, ForensicsAssumption DEF Saw
<1>11. QED
  BY <1>8, <1>9, <1>10 DEF Inductive

\* Every step keeps it.
LEMMA InductiveStep == Inductive /\ [Next]_vars => Inductive'
<1> SUFFICES ASSUME Inductive, [Next]_vars PROVE Inductive'
  OBVIOUS
<1>1. ASSUME NEW r \in Requests, ReceiveCreate(r) \/ Step(r) \/ Dropped(r)
      PROVE  Inductive'
  <2>1. CASE BeginFails(r) \/ CollectFails(r) \/ CreateFails(r) \/ Dropped(r)
    BY <2>1, FailuresKeep
  <2>2. CASE PutFails(r)
    BY <2>2, PutFailsKeeps
  <2>3. CASE (MarkReady(r) /\ ~Rls(r)) \/ MarkFails(r) \/ Commit(r) \/ CommitFails(r)
    BY <2>3, LastWritesKeep
  <2>4. CASE MarkReady(r) /\ Rls(r)
    BY <2>4, MarkInTxKeeps
  <2>5. CASE Begin(r)
    BY <2>5, BeginKeeps
  <2>6. CASE CreateRow(r)
    BY <2>6, CreateRowKeeps
  <2>7. CASE Put(r) \/ PutRetry(r)
    BY <2>7, PutKeeps
  <2>8. CASE ReceiveCreate(r)
    BY <2>8, ReceiveKeeps
  <2>9. CASE Collect(r)
    BY <2>9, CollectKeeps
  <2>10. QED
    BY <1>1, <2>1, <2>2, <2>3, <2>4, <2>5, <2>6, <2>7, <2>8, <2>9 DEF Step
<1>2. ASSUME NEW d \in Readers, LoadRow(d) \/ Download(d) \/ Verify(d)
      PROVE  Inductive'
  BY <1>2, ReadersKeep
<1>3. CASE Tick \/ \E i \in Owned, k \in Range(Kinds) : Insert(i, k)
  BY <1>3, ServiceKeeps
<1>4. CASE UNCHANGED vars
  <2>1. UNCHANGED <<now, source, wiring, req, bundles, objects, reader>>
    BY <1>4 DEF vars
  <2>2. SourceOK' /\ \A i \in Owned, k \in Range(Kinds) : source[i][k] \subseteq source'[i][k]
    BY <2>1 DEF Inductive, FormOK, SourceOK
  <2>3. DOMAIN reader' = Readers /\ \A d \in Readers : ReaderOK(d)' /\ Saw(d)'
    BY <2>1 DEF Inductive, FormOK, ReaderOK, Saw
  <2>4. QED
    BY <2>1, <2>2, <2>3, EvidenceGrows
<1>5. QED
  BY <1>1, <1>2, <1>3, <1>4 DEF Next

\* It always holds.
LEMMA AlwaysInductive == Spec => []Inductive
  BY InductiveInit, InductiveStep, PTL DEF Spec

\* A bundle that is visible as Ready, now or to a reader that saw it so long ago,
\* has its bytes, with the hashes of its row, and a request that was answered 201
\* has made such a bundle: on either path the upload lies between the two writes
\* of the row, and a retried or lost one only writes the same bytes again.
THEOREM ReadyAlwaysHasBytes == Spec => []ReadyHasBytes
<1>1. Inductive => ReadyHasBytes
  <2> SUFFICES ASSUME Inductive PROVE ReadyHasBytes
    OBVIOUS
  <2>1. ASSUME NEW r \in Requests, r \in DOMAIN bundles, bundles[r].status = "ready"
        PROVE  /\ r \in DOMAIN objects
               /\ objects[r].integrity = bundles[r].integrity /\ ManifestIntact(objects[r])
    <3>1. BundleOf(r, req[r].got)
      BY DEF Inductive, Placed
    <3>2. r \in DOMAIN objects
      BY <2>1, <3>1 DEF BundleOf
    <3>3. objects[r] = Row(req[r].got, "generating") /\ bundles[r].integrity = Prepared(req[r].got)
      BY <2>1, <3>1, <3>2 DEF BundleOf, Row
    <3>4. QED
      BY <3>2, <3>3 DEF Row, ManifestIntact
  <2>2. ASSUME NEW r \in Requests, req[r].answer = "created"
        PROVE  r \in DOMAIN bundles /\ bundles[r].status = "ready"
    BY <2>2 DEF Inductive, Progress
  <2>3. \A d \in Readers : reader[d].status = "ready" => reader[d].answer # "not_found"
    BY DEF Inductive, Saw
  <2>4. QED
    BY <2>1, <2>2, <2>3 DEF ReadyHasBytes
<1>2. QED
  BY <1>1, AlwaysInductive, PTL

\* What a bundle of the real collector holds lies between the rows of its range
\* that were there when it was asked for and those that are there now, for every
\* intent it names, although its reads are separate.
THEOREM EvidenceIsBracketed == Spec => []EvidenceBracketed
<1>1. Inductive => EvidenceBracketed
  <2> SUFFICES ASSUME Inductive, NEW r \in Requests, req[r].pc \in Storing, wiring.collector = "real"
               PROVE  /\ req[r].since \subseteq RowsOf(req[r].got)
                      /\ RowsOf(req[r].got) \subseteq Evidence(req[r].ids, req[r].range)
    BY DEF EvidenceBracketed, Storing
  <2>1. /\ RowsOf(req[r].got) \subseteq Evidence(req[r].ids, req[r].range)
        /\ \A t \in req[r].since : <<t[1], t[2]>> \in Range(req[r].todo) \/ t \in RowsOf(req[r].got)
        /\ req[r].todo = <<>>
    BY DEF Inductive, Bracket, Collecting
  <2>2. Range(<<>>) = {}
    BY DEF Range
  <2>3. QED
    BY <2>1, <2>2
<1>2. QED
  BY <1>1, AlwaysInductive, PTL

-----------------------------------------------------------------------------
(* Sequences that are put together. *)

\* What holds of 0 and is kept by adding 1 holds of every natural.
LEMMA AllNaturals ==
    ASSUME NEW T \in SUBSET Nat, 0 \in T, \A k \in T : k + 1 \in T
    PROVE  T = Nat
<1> SUFFICES ASSUME Nat \ T # {} PROVE FALSE
  OBVIOUS
<1>1. PICK x \in Nat \ T : \A y \in Nat \ T : ~(<<y, x>> \in OpToRel(<, Nat))
  <2>1. IsWellFoundedOn(OpToRel(<, Nat), Nat)
    BY NatLessThanWellFounded
  <2>2. Nat \ T \subseteq Nat
    OBVIOUS
  <2>3. QED
    BY <2>1, <2>2, WFMin
<1>2. \A y \in Nat \ T : ~(y < x)
  BY <1>1 DEF OpToRel
<1>3. x # 0 /\ x - 1 \in Nat /\ x - 1 < x
  OBVIOUS
<1>4. x - 1 \in T
  BY <1>2, <1>3
<1>5. (x - 1) + 1 \in T
  BY <1>4
<1>6. QED
  BY <1>3, <1>5

\* One step of the flattening of ss, with f for what is flattened already.
Joined(ss, f, i) == IF i = 1 THEN ss[i] ELSE f[i - 1] \o ss[i]

\* A function that flattens ss, entry by entry, is there.
LEMMA JoinIsThere ==
    ASSUME NEW ss, Len(ss) \in Nat
    PROVE  \E f : f = [i \in 1..Len(ss) |-> Joined(ss, f, i)]
<1> DEFINE Upto(f, k) == f = [i \in 1..k |-> Joined(ss, f, i)]
           T == {k \in Nat : \E f : Upto(f, k)}
<1>1. 0 \in T
  <2>1. Upto(<<>>, 0)
    OBVIOUS
  <2>2. QED
    BY <2>1
<1>2. ASSUME NEW k \in T PROVE k + 1 \in T
  <2>1. PICK f : Upto(f, k)
    OBVIOUS
  <2>2. k \in Nat
    OBVIOUS
  <2> DEFINE g == [i \in 1..(k + 1) |-> IF i = k + 1 THEN Joined(ss, f, k + 1) ELSE f[i]]
  <2>3. DOMAIN g = 1..(k + 1) /\ g[k + 1] = Joined(ss, f, k + 1) /\ \A i \in 1..k : g[i] = f[i]
    BY <2>2
  <2> HIDE DEF g
  <2>4. \A i \in 1..(k + 1) : Joined(ss, g, i) = Joined(ss, f, i)
    <3> TAKE i \in 1..(k + 1)
    <3>1. i # 1 => i - 1 \in 1..k
      BY <2>2
    <3>2. QED
      BY <2>3, <3>1 DEF Joined
  <2>5. \A i \in 1..(k + 1) : i = k + 1 \/ i \in 1..k
    BY <2>2
  <2>6. \A i \in 1..(k + 1) : g[i] = Joined(ss, g, i)
    BY <2>1, <2>3, <2>4, <2>5
  <2>7. g = [i \in 1..(k + 1) |-> g[i]]
    BY DEF g
  <2>8. Upto(g, k + 1)
    BY <2>6, <2>7
  <2>9. QED
    BY <2>2, <2>8
<1> HIDE DEF T
<1>3. T = Nat
  <2>1. T \in SUBSET Nat
    BY DEF T
  <2>2. QED
    BY <1>1, <1>2, <2>1, AllNaturals
<1>4. Len(ss) \in T
  BY <1>3
<1>5. QED
  BY <1>4 DEF T

\* Flattening no sequences, or the last entry of what flattens them.
LEMMA FlattenIs ==
    ASSUME NEW ss, Len(ss) \in Nat
    PROVE  /\ Len(ss) = 0 => FlattenSeq(ss) = ss
           /\ Len(ss) # 0 =>
                \E f : /\ f = [i \in 1..Len(ss) |-> Joined(ss, f, i)]
                      /\ FlattenSeq(ss) = f[Len(ss)]
<1> DEFINE c == CHOOSE f : f = [i \in 1..Len(ss) |-> Joined(ss, f, i)]
<1>1. c = [i \in 1..Len(ss) |-> Joined(ss, c, i)]
  BY JoinIsThere
<1>2. Len(ss) # 0 => FlattenSeq(ss) = c[Len(ss)]
  BY DEF FlattenSeq, Joined
<1>3. Len(ss) = 0 => FlattenSeq(ss) = ss
  BY DEF FlattenSeq
<1> HIDE DEF c
<1>4. QED
  BY <1>1, <1>2, <1>3

\* Flattening sequences of a set gives one that holds what they hold.
LEMMA FlattenHolds ==
    ASSUME NEW S, NEW ss \in Seq(Seq(S))
    PROVE  /\ FlattenSeq(ss) \in Seq(S)
           /\ \A e : e \in Range(FlattenSeq(ss)) <=> \E n \in DOMAIN ss : e \in Range(ss[n])
<1>1. /\ Len(ss) \in Nat /\ DOMAIN ss = 1..Len(ss)
      /\ \A n \in 1..Len(ss) : ss[n] \in Seq(S)
  BY LenProperties
<1>2. CASE Len(ss) = 0
  <2>1. FlattenSeq(ss) = <<>> /\ DOMAIN ss = {} /\ ss = <<>>
    BY <1>1, <1>2, FlattenIs
  <2>2. Range(<<>>) = {}
    BY DEF Range
  <2>3. QED
    BY <2>1, <2>2
<1>3. CASE Len(ss) # 0
  <2>1. PICK f : /\ f = [i \in 1..Len(ss) |-> Joined(ss, f, i)]
                 /\ FlattenSeq(ss) = f[Len(ss)]
    BY <1>1, <1>3, FlattenIs
  <2>2. \A i \in 1..Len(ss) : f[i] = Joined(ss, f, i)
    BY <2>1
  <2> DEFINE Holds(i) == /\ f[i] \in Seq(S)
                         /\ \A e : e \in Range(f[i]) <=> \E n \in 1..i : e \in Range(ss[n])
             T == {k \in Nat : k + 1 \in 1..Len(ss) => Holds(k + 1)}
  <2>3. 0 \in T
    <3>1. f[1] = ss[1]
      BY <1>1, <1>3, <2>2 DEF Joined
    <3>2. Holds(1)
      BY <1>1, <1>3, <3>1
    <3>3. QED
      BY <3>2
  <2>4. ASSUME NEW k \in T PROVE k + 1 \in T
    <3>1. SUFFICES ASSUME (k + 1) + 1 \in 1..Len(ss) PROVE Holds((k + 1) + 1)
      OBVIOUS
    <3> DEFINE i == k + 1
               j == (k + 1) + 1
    <3>2. /\ i \in 1..Len(ss) /\ j \in 1..Len(ss) /\ j # 1 /\ j - 1 = i
          /\ \A n \in 1..j : n \in 1..i \/ n = j
          /\ \A n \in 1..i : n \in 1..j
          /\ j \in 1..j
      BY <1>1, <3>1
    <3>3. Holds(i)
      BY <3>2
    <3> HIDE DEF i, j
    <3>4. f[j] = f[i] \o ss[j]
      BY <2>2, <3>2 DEF Joined
    <3>5. f[i] \in Seq(S) /\ ss[j] \in Seq(S)
      BY <1>1, <3>2, <3>3
    <3>6. f[j] \in Seq(S) /\ Range(f[j]) = Range(f[i]) \union Range(ss[j])
      BY <3>4, <3>5, ConcatProperties, RangeConcatenation
    <3>7. Holds(j)
      BY <3>2, <3>3, <3>6
    <3>8. QED
      BY <3>7 DEF j
  <2> HIDE DEF T
  <2>5. T = Nat
    <3>1. T \in SUBSET Nat
      BY DEF T
    <3>2. QED
      BY <2>3, <2>4, <3>1, AllNaturals
  <2>6. Holds(Len(ss))
    <3>1. Len(ss) - 1 \in T /\ (Len(ss) - 1) + 1 = Len(ss) /\ Len(ss) \in 1..Len(ss)
      BY <1>1, <1>3, <2>5
    <3>2. (Len(ss) - 1) + 1 \in 1..Len(ss) => Holds((Len(ss) - 1) + 1)
      BY <3>1 DEF T
    <3>3. QED
      BY <3>1, <3>2
  <2>7. QED
    BY <1>1, <2>1, <2>6
<1>4. QED
  BY <1>2, <1>3

\* What is flattened of single entries are the entries.
LEMMA FlattenSingles ==
    ASSUME NEW S, NEW s \in Seq(S), NEW ss, ss = [n \in DOMAIN s |-> <<s[n]>>]
    PROVE  FlattenSeq(ss) = s
<1>1. Len(s) \in Nat /\ DOMAIN s = 1..Len(s) /\ \A n \in 1..Len(s) : s[n] \in S
  BY LenProperties
<1>2. ss \in Seq(Seq(S)) /\ Len(ss) = Len(s) /\ \A n \in 1..Len(s) : ss[n] = <<s[n]>>
  BY <1>1
<1>3. CASE Len(s) = 0
  BY <1>2, <1>3, FlattenIs
<1>4. CASE Len(s) # 0
  <2>1. PICK f : /\ f = [i \in 1..Len(ss) |-> Joined(ss, f, i)]
                 /\ FlattenSeq(ss) = f[Len(ss)]
    BY <1>1, <1>2, <1>4, FlattenIs
  <2>2. \A i \in 1..Len(s) : f[i] = Joined(ss, f, i)
    BY <1>2, <2>1
  <2> DEFINE T == {k \in Nat : k + 1 \in 1..Len(s) => f[k + 1] = SubSeq(s, 1, k + 1)}
  <2>3. 0 \in T
    <3>1. f[1] = <<s[1]>>
      BY <1>1, <1>2, <1>4, <2>2 DEF Joined
    <3>2. SubSeq(s, 1, 1) = <<s[1]>>
      <4>1. \A i \in 1..1 : s[i] \in S
        BY <1>1, <1>4
      <4> DEFINE u == SubSeq(s, 1, 1)
                 v == <<s[1]>>
      <4>2. u \in Seq(S) /\ Len(u) = 1 /\ \A i \in 1..1 : u[i] = s[i]
        BY <4>1, SubSeqProperties
      <4>3. v \in Seq(S) /\ Len(v) = 1 /\ v[1] = s[1]
        BY <4>1
      <4> HIDE DEF u, v
      <4>4. Len(u) = Len(v) /\ \A i \in 1..Len(u) : u[i] = v[i]
        BY <4>2, <4>3
      <4>5. u = v
        BY <4>2, <4>3, <4>4, SeqEqual
      <4>6. QED
        BY <4>5 DEF u, v
    <3>3. QED
      BY <3>1, <3>2
  <2>4. ASSUME NEW k \in T PROVE k + 1 \in T
    <3>1. SUFFICES ASSUME (k + 1) + 1 \in 1..Len(s)
                   PROVE  f[(k + 1) + 1] = SubSeq(s, 1, (k + 1) + 1)
      OBVIOUS
    <3> DEFINE i == k + 1
               j == (k + 1) + 1
    <3>2. /\ i \in 1..Len(s) /\ j \in 1..Len(s) /\ j # 1 /\ j - 1 = i /\ 1 \in 1..Len(s)
          /\ j \in 1..Len(s)
      BY <1>1, <3>1
    <3>3. f[i] = SubSeq(s, 1, i)
      BY <3>2
    <3> HIDE DEF i, j
    <3>4. f[j] = f[i] \o <<s[j]>>
      BY <1>2, <2>2, <3>2 DEF Joined
    <3>5. SubSeq(s, 1, j) = SubSeq(s, 1, j - 1) \o <<s[j]>>
      BY <3>2, SubSeqRecursiveSecond
    <3>6. QED
      BY <3>2, <3>3, <3>4, <3>5 DEF j
  <2> HIDE DEF T
  <2>5. T = Nat
    <3>1. T \in SUBSET Nat
      BY DEF T
    <3>2. QED
      BY <2>3, <2>4, <3>1, AllNaturals
  <2>6. f[Len(s)] = SubSeq(s, 1, Len(s))
    <3>1. Len(s) - 1 \in T /\ (Len(s) - 1) + 1 = Len(s) /\ Len(s) \in 1..Len(s)
      BY <1>1, <1>4, <2>5
    <3>2. QED
      BY <3>1 DEF T
  <2>7. QED
    BY <1>2, <2>1, <2>6, SubSeqFull
<1>5. QED
  BY <1>3, <1>4

\* A function on a section of the naturals is a sequence.
LEMMA ListIs ==
    ASSUME NEW S, NEW n \in Nat, NEW s, s = [m \in 1..n |-> s[m]], \A m \in 1..n : s[m] \in S
    PROVE  s \in Seq(S) /\ Len(s) = n
<1>1. s \in [1..n -> S]
  OBVIOUS
<1>2. QED
  BY <1>1


-----------------------------------------------------------------------------
(* What the entries of a manifest tell. *)

\* A collection holds the row numbered no of a kind of an intent.
Holds(got, i, k, no) ==
    \E n \in DOMAIN got :
        got[n].intent = i /\ got[n].kind = k /\ \E x \in Range(got[n].rows) : x.no = no

\* A reading and its rows.
LEMMA ReadingIs ==
    ASSUME NEW got \in Seq(Reading)
    PROVE  /\ DOMAIN got = 1..Len(got) /\ Len(got) \in Nat
           /\ \A n \in DOMAIN got :
                /\ got[n].intent \in Owned /\ got[n].kind \in Range(Kinds)
                /\ got[n].rows \in Seq(SourceRow)
                /\ DOMAIN got[n].rows = 1..Len(got[n].rows) /\ Len(got[n].rows) \in Nat
                /\ \A m \in DOMAIN got[n].rows :
                      got[n].rows[m] \in SourceRow /\ got[n].rows[m].no \in Nat
<1>1. DOMAIN got = 1..Len(got) /\ Len(got) \in Nat /\ \A n \in DOMAIN got : got[n] \in Reading
  BY LenProperties
<1>2. ASSUME NEW n \in DOMAIN got
      PROVE  /\ got[n].intent \in Owned /\ got[n].kind \in Range(Kinds)
             /\ got[n].rows \in Seq(SourceRow)
  BY <1>1 DEF Reading
<1>3. ASSUME NEW rows \in Seq(SourceRow)
      PROVE  /\ DOMAIN rows = 1..Len(rows) /\ Len(rows) \in Nat
             /\ \A m \in DOMAIN rows : rows[m] \in SourceRow /\ rows[m].no \in Nat
  <2>1. DOMAIN rows = 1..Len(rows) /\ Len(rows) \in Nat /\ \A m \in DOMAIN rows : rows[m] \in SourceRow
    BY LenProperties
  <2>2. \A x \in SourceRow : x.no \in Nat
    BY DEF SourceRow
  <2>3. QED
    BY <2>1, <2>2
<1>4. QED
  BY <1>1, <1>2, <1>3

\* A section of a manifest holds what the reads give it.
LEMMA SectionHolds ==
    ASSUME NEW got \in Seq(Reading), NEW E, NEW ss \in [DOMAIN got -> Seq(E)]
    PROVE  \A e : e \in Range(FlattenSeq(ss)) <=> \E n \in DOMAIN got : e \in Range(ss[n])
<1>1. DOMAIN got = 1..Len(got) /\ Len(got) \in Nat
  BY ReadingIs
<1>2. ss \in Seq(Seq(E)) /\ DOMAIN ss = DOMAIN got
  BY <1>1
<1>3. QED
  BY <1>2, FlattenHolds

\* The versions of a manifest are those collected.
LEMMA VersionsTell ==
    ASSUME NEW got \in Seq(Reading), NEW i, NEW no
    PROVE  Holds(got, i, "versions", no) <=>
              [intent |-> i, version |-> no] \in Range(Prepared(got)["intent_versions"])
<1> DEFINE E == [intent : Owned, version : Nat]
           ss == [n \in DOMAIN got |-> IF got[n].kind = "versions" THEN Versions(got[n]) ELSE <<>>]
           Item == [intent |-> i, version |-> no]
           Of(n, m) == [intent |-> got[n].intent, version |-> got[n].rows[m].no]
<1>1. Prepared(got)["intent_versions"] = FlattenSeq(ss)
  BY DEF Prepared, Flat, Nothing, Sections
<1>2. ASSUME NEW n \in DOMAIN got
      PROVE  /\ Versions(got[n]) \in Seq(E)
             /\ \A e : e \in Range(Versions(got[n])) <=> \E m \in DOMAIN got[n].rows : e = Of(n, m)
  <2>1. Versions(got[n]) = [m \in DOMAIN got[n].rows |-> Of(n, m)]
    BY DEF Versions
  <2>2. \A m \in DOMAIN got[n].rows : Of(n, m) \in E
    <3>1. got[n].intent \in Owned /\ \A m \in DOMAIN got[n].rows : got[n].rows[m].no \in Nat
      BY ReadingIs
    <3>2. DOMAIN got[n].rows = 1..Len(got[n].rows) /\ Len(got[n].rows) \in Nat
      BY ReadingIs
    <3>3. QED
      BY <3>1, <3>2
  <2> HIDE DEF Of, E
  <2>3. Versions(got[n]) \in Seq(E)
    <3>1. DOMAIN got[n].rows = 1..Len(got[n].rows) /\ Len(got[n].rows) \in Nat
      BY ReadingIs
    <3>2. QED
      BY <2>1, <2>2, <3>1, ListIs
  <2>4. QED
    BY <2>1, <2>3 DEF Range
<1>3. \A e : e \in Range(FlattenSeq(ss)) <=>
               \E n \in DOMAIN got : got[n].kind = "versions" /\ e \in Range(ss[n])
  <2>1. \A n \in DOMAIN got : ss[n] = IF got[n].kind = "versions" THEN Versions(got[n]) ELSE <<>>
    OBVIOUS
  <2> HIDE DEF E
  <2>2. \A n \in DOMAIN got : ss[n] \in Seq(E)
    BY <1>2, <2>1
  <2>3. ss \in [DOMAIN got -> Seq(E)]
    BY <2>2
  <2> HIDE DEF ss
  <2>4. \A e : e \in Range(FlattenSeq(ss)) <=> \E n \in DOMAIN got : e \in Range(ss[n])
    BY <2>3, SectionHolds
  <2>5. Range(<<>>) = {}
    BY DEF Range
  <2>6. QED
    BY <2>1, <2>4, <2>5
<1>4. \A n \in DOMAIN got : got[n].kind = "versions" => ss[n] = Versions(got[n])
  OBVIOUS
<1>5. ASSUME NEW n \in DOMAIN got, NEW m \in DOMAIN got[n].rows
      PROVE  Item = Of(n, m) <=> got[n].intent = i /\ got[n].rows[m].no = no
  <2>1. /\ Item.intent = i /\ Item.version = no
        /\ Of(n, m).intent = got[n].intent /\ Of(n, m).version = got[n].rows[m].no
    OBVIOUS
  <2>2. QED
    BY <2>1
<1> HIDE DEF Item, Of, ss, E
<1>6. ASSUME NEW n \in DOMAIN got
      PROVE  Item \in Range(Versions(got[n])) <=>
                got[n].intent = i /\ \E x \in Range(got[n].rows) : x.no = no
  <2>1. \A e : e \in Range(got[n].rows) <=> \E m \in DOMAIN got[n].rows : e = got[n].rows[m]
    BY DEF Range
  <2>2. QED
    BY <1>2, <1>5, <2>1
<1>7. QED
  BY <1>1, <1>3, <1>4, <1>6 DEF Holds, Item

\* So are its audit events, at one index or another.
LEMMA EventsTell ==
    ASSUME NEW got \in Seq(Reading), NEW i, NEW no
    PROVE  Holds(got, i, "events", no) <=>
              \E j \in Nat : [event |-> <<i, no>>, event_index |-> j] \in Range(Prepared(got)["audit_events"])
<1> DEFINE E == [event : Owned \X Nat, event_index : Nat]
           ss == [n \in DOMAIN got |-> IF got[n].kind = "events" THEN Events(got[n]) ELSE <<>>]
           Item(j) == [event |-> <<i, no>>, event_index |-> j]
           Of(n, m) == [event |-> <<got[n].intent, got[n].rows[m].no>>, event_index |-> m - 1]
<1>1. Prepared(got)["audit_events"] = FlattenSeq(ss)
  BY DEF Prepared, Flat, Nothing, Sections
<1>2. ASSUME NEW n \in DOMAIN got
      PROVE  /\ Events(got[n]) \in Seq(E)
             /\ \A e : e \in Range(Events(got[n])) <=> \E m \in DOMAIN got[n].rows : e = Of(n, m)
  <2>1. Events(got[n]) = [m \in DOMAIN got[n].rows |-> Of(n, m)]
    BY DEF Events
  <2>2. \A m \in DOMAIN got[n].rows : Of(n, m) \in E
    <3>1. got[n].intent \in Owned /\ \A m \in DOMAIN got[n].rows : got[n].rows[m].no \in Nat
      BY ReadingIs
    <3>2. DOMAIN got[n].rows = 1..Len(got[n].rows) /\ Len(got[n].rows) \in Nat
      BY ReadingIs
    <3>3. QED
      BY <3>1, <3>2
  <2> HIDE DEF Of, E
  <2>3. Events(got[n]) \in Seq(E)
    <3>1. DOMAIN got[n].rows = 1..Len(got[n].rows) /\ Len(got[n].rows) \in Nat
      BY ReadingIs
    <3>2. QED
      BY <2>1, <2>2, <3>1, ListIs
  <2>4. QED
    BY <2>1, <2>3 DEF Range
<1>3. \A e : e \in Range(FlattenSeq(ss)) <=>
               \E n \in DOMAIN got : got[n].kind = "events" /\ e \in Range(ss[n])
  <2>1. \A n \in DOMAIN got : ss[n] = IF got[n].kind = "events" THEN Events(got[n]) ELSE <<>>
    OBVIOUS
  <2> HIDE DEF E
  <2>2. \A n \in DOMAIN got : ss[n] \in Seq(E)
    BY <1>2, <2>1
  <2>3. ss \in [DOMAIN got -> Seq(E)]
    BY <2>2
  <2> HIDE DEF ss
  <2>4. \A e : e \in Range(FlattenSeq(ss)) <=> \E n \in DOMAIN got : e \in Range(ss[n])
    BY <2>3, SectionHolds
  <2>5. Range(<<>>) = {}
    BY DEF Range
  <2>6. QED
    BY <2>1, <2>4, <2>5
<1>4. \A n \in DOMAIN got : got[n].kind = "events" => ss[n] = Events(got[n])
  OBVIOUS
<1>5. ASSUME NEW n \in DOMAIN got, NEW m \in DOMAIN got[n].rows, NEW j
      PROVE  Item(j) = Of(n, m) <=> got[n].intent = i /\ got[n].rows[m].no = no /\ j = m - 1
  <2>1. /\ Item(j).event = <<i, no>> /\ Item(j).event_index = j
        /\ Of(n, m).event = <<got[n].intent, got[n].rows[m].no>> /\ Of(n, m).event_index = m - 1
    OBVIOUS
  <2>2. QED
    BY <2>1
<1>6. \A n \in DOMAIN got : \A m \in DOMAIN got[n].rows : m - 1 \in Nat
  BY ReadingIs
<1> HIDE DEF Item, Of, ss, E
<1>7. ASSUME NEW j \in Nat, Item(j) \in Range(FlattenSeq(ss))
      PROVE  Holds(got, i, "events", no)
  <2>1. PICK n \in DOMAIN got : got[n].kind = "events" /\ Item(j) \in Range(Events(got[n]))
    BY <1>3, <1>4, <1>7
  <2>2. PICK m \in DOMAIN got[n].rows : Item(j) = Of(n, m)
    BY <1>2, <2>1
  <2>3. got[n].rows[m] \in Range(got[n].rows) /\ got[n].rows[m].no = no /\ got[n].intent = i
    BY <1>5, <2>2 DEF Range
  <2>4. QED
    BY <2>1, <2>3 DEF Holds
<1>8. ASSUME Holds(got, i, "events", no)
      PROVE  \E j \in Nat : Item(j) \in Range(FlattenSeq(ss))
  <2>1. PICK n \in DOMAIN got : /\ got[n].kind = "events" /\ got[n].intent = i
                                 /\ \E x \in Range(got[n].rows) : x.no = no
    BY <1>8 DEF Holds
  <2>2. PICK m \in DOMAIN got[n].rows : got[n].rows[m].no = no
    BY <2>1 DEF Range
  <2>3. Item(m - 1) = Of(n, m) /\ m - 1 \in Nat
    BY <1>5, <1>6, <2>1, <2>2
  <2>4. QED
    BY <1>2, <1>3, <1>4, <2>1, <2>3
<1>9. QED
  BY <1>1, <1>7, <1>8 DEF Item

\* And its snapshots.
LEMMA SnapshotsTell ==
    ASSUME NEW got \in Seq(Reading), NEW i, NEW no
    PROVE  Holds(got, i, "snapshots", no) <=>
              [snapshot |-> <<i, no>>] \in Range(Prepared(got)["policy_snapshots"])
<1> DEFINE E == [snapshot : Owned \X Nat]
           ss == [n \in DOMAIN got |-> IF got[n].kind = "snapshots" THEN Snapshots(got[n]) ELSE <<>>]
           Item == [snapshot |-> <<i, no>>]
           Of(n, m) == [snapshot |-> <<got[n].intent, got[n].rows[m].no>>]
<1>1. Prepared(got)["policy_snapshots"] = FlattenSeq(ss)
  BY DEF Prepared, Flat, Nothing, Sections
<1>2. ASSUME NEW n \in DOMAIN got
      PROVE  /\ Snapshots(got[n]) \in Seq(E)
             /\ \A e : e \in Range(Snapshots(got[n])) <=> \E m \in DOMAIN got[n].rows : e = Of(n, m)
  <2>1. Snapshots(got[n]) = [m \in DOMAIN got[n].rows |-> Of(n, m)]
    BY DEF Snapshots
  <2>2. \A m \in DOMAIN got[n].rows : Of(n, m) \in E
    <3>1. got[n].intent \in Owned /\ \A m \in DOMAIN got[n].rows : got[n].rows[m].no \in Nat
      BY ReadingIs
    <3>2. DOMAIN got[n].rows = 1..Len(got[n].rows) /\ Len(got[n].rows) \in Nat
      BY ReadingIs
    <3>3. QED
      BY <3>1, <3>2
  <2> HIDE DEF Of, E
  <2>3. Snapshots(got[n]) \in Seq(E)
    <3>1. DOMAIN got[n].rows = 1..Len(got[n].rows) /\ Len(got[n].rows) \in Nat
      BY ReadingIs
    <3>2. QED
      BY <2>1, <2>2, <3>1, ListIs
  <2>4. QED
    BY <2>1, <2>3 DEF Range
<1>3. \A e : e \in Range(FlattenSeq(ss)) <=>
               \E n \in DOMAIN got : got[n].kind = "snapshots" /\ e \in Range(ss[n])
  <2>1. \A n \in DOMAIN got : ss[n] = IF got[n].kind = "snapshots" THEN Snapshots(got[n]) ELSE <<>>
    OBVIOUS
  <2> HIDE DEF E
  <2>2. \A n \in DOMAIN got : ss[n] \in Seq(E)
    BY <1>2, <2>1
  <2>3. ss \in [DOMAIN got -> Seq(E)]
    BY <2>2
  <2> HIDE DEF ss
  <2>4. \A e : e \in Range(FlattenSeq(ss)) <=> \E n \in DOMAIN got : e \in Range(ss[n])
    BY <2>3, SectionHolds
  <2>5. Range(<<>>) = {}
    BY DEF Range
  <2>6. QED
    BY <2>1, <2>4, <2>5
<1>4. \A n \in DOMAIN got : got[n].kind = "snapshots" => ss[n] = Snapshots(got[n])
  OBVIOUS
<1>5. ASSUME NEW n \in DOMAIN got, NEW m \in DOMAIN got[n].rows
      PROVE  Item = Of(n, m) <=> got[n].intent = i /\ got[n].rows[m].no = no
  <2>1. /\ Item.snapshot = <<i, no>>
        /\ Of(n, m).snapshot = <<got[n].intent, got[n].rows[m].no>>
    OBVIOUS
  <2>2. QED
    BY <2>1
<1> HIDE DEF Item, Of, ss, E
<1>6. ASSUME NEW n \in DOMAIN got
      PROVE  Item \in Range(Snapshots(got[n])) <=>
                got[n].intent = i /\ \E x \in Range(got[n].rows) : x.no = no
  <2>1. \A e : e \in Range(got[n].rows) <=> \E m \in DOMAIN got[n].rows : e = got[n].rows[m]
    BY DEF Range
  <2>2. QED
    BY <1>2, <1>5, <2>1
<1>7. QED
  BY <1>1, <1>3, <1>4, <1>6 DEF Holds, Item

\* Manifests of the same entries are made of the same rows.
LEMMA EntriesTell ==
    ASSUME NEW g \in Seq(Reading), NEW h \in Seq(Reading),
           \A s \in Sections : Prepared(g)[s] = Prepared(h)[s],
           NEW i, NEW k \in Range(Kinds), NEW no
    PROVE  Holds(g, i, k, no) <=> Holds(h, i, k, no)
<1>1. /\ Prepared(g)["intent_versions"] = Prepared(h)["intent_versions"]
      /\ Prepared(g)["audit_events"] = Prepared(h)["audit_events"]
      /\ Prepared(g)["policy_snapshots"] = Prepared(h)["policy_snapshots"]
  BY DEF Sections
<1>2. k \in {"versions", "events", "snapshots"}
  <2>1. PICK j \in 1..3 : k = Kinds[j]
    BY KindsAre
  <2>2. QED
    BY <2>1 DEF Kinds
<1>3. CASE k = "versions"
  BY <1>1, <1>3, VersionsTell
<1>4. CASE k = "events"
  BY <1>1, <1>4, EventsTell
<1>5. CASE k = "snapshots"
  BY <1>1, <1>5, SnapshotsTell
<1>6. QED
  BY <1>2, <1>3, <1>4, <1>5

\* A manifest of reads that found nothing is empty.
LEMMA NothingTells ==
    ASSUME NEW got \in Seq(Reading), \A n \in DOMAIN got : got[n].rows = <<>>
    PROVE  Prepared(got) = Prepared(<<>>)
<1>1. FlattenSeq(<<>>) = <<>>
  BY FlattenIs
<1>2. ASSUME NEW ss \in Seq({<<>>}) PROVE FlattenSeq(ss) = <<>>
  <2>1. <<>> \in Seq({})
    OBVIOUS
  <2>2. ss \in Seq(Seq({}))
    BY <2>1, SeqMonotonic
  <2>3. FlattenSeq(ss) \in Seq({})
    BY <2>2, FlattenHolds
  <2>4. QED
    BY <2>3
<1>3. DOMAIN got = 1..Len(got) /\ Len(got) \in Nat
  BY ReadingIs
<1>4. ASSUME NEW n \in DOMAIN got
      PROVE  /\ Versions(got[n]) = <<>> /\ Events(got[n]) = <<>> /\ Snapshots(got[n]) = <<>>
             /\ Artifacts(got[n]) = <<>>
  <2>1. got[n].rows = <<>> /\ DOMAIN got[n].rows = {}
    OBVIOUS
  <2>2. Versions(got[n]) = <<>> /\ Events(got[n]) = <<>> /\ Snapshots(got[n]) = <<>>
    BY <2>1 DEF Versions, Events, Snapshots
  <2>3. Kept(got[n].rows, LAMBDA x : x.no \in Citing) = <<>>
    <3>1. [m \in DOMAIN got[n].rows |->
              IF got[n].rows[m].no \in Citing THEN <<got[n].rows[m]>> ELSE <<>>] = <<>>
      BY <2>1
    <3>2. QED
      BY <1>1, <3>1 DEF Kept
  <2> DEFINE citing == Kept(got[n].rows, LAMBDA x : x.no \in Citing)
  <2>4. Artifacts(got[n]) = <<>>
    <3>1. Artifacts(got[n]) =
            [m \in DOMAIN citing |->
                [artifact |-> <<got[n].intent, citing[m].no>>, collected_at |-> citing[m].at]]
      BY DEF Artifacts
    <3>2. DOMAIN citing = {}
      BY <2>3
    <3> HIDE DEF citing
    <3>3. QED
      BY <3>1, <3>2
  <2>5. QED
    BY <2>2, <2>4
<1> DEFINE V == [n \in DOMAIN got |-> IF got[n].kind = "versions" THEN Versions(got[n]) ELSE <<>>]
           A == [n \in DOMAIN got |-> IF got[n].kind = "events" THEN Artifacts(got[n]) ELSE <<>>]
           E == [n \in DOMAIN got |-> IF got[n].kind = "events" THEN Events(got[n]) ELSE <<>>]
           P == [n \in DOMAIN got |-> IF got[n].kind = "snapshots" THEN Snapshots(got[n]) ELSE <<>>]
<1>5. V \in Seq({<<>>}) /\ A \in Seq({<<>>}) /\ E \in Seq({<<>>}) /\ P \in Seq({<<>>})
  BY <1>3, <1>4
<1>6. /\ FlattenSeq(V) = <<>> /\ FlattenSeq(A) = <<>> /\ FlattenSeq(E) = <<>> /\ FlattenSeq(P) = <<>>
  BY <1>2, <1>5
<1>7. Prepared(got) = [Nothing EXCEPT !["intent_versions"] = FlattenSeq(V), !["artifacts"] = FlattenSeq(A),
                                      !["audit_events"] = FlattenSeq(E),
                                      !["policy_snapshots"] = FlattenSeq(P)]
  BY DEF Prepared, Flat
<1> DEFINE empty == [Nothing EXCEPT !["intent_versions"] = <<>>, !["artifacts"] = <<>>,
                                    !["audit_events"] = <<>>, !["policy_snapshots"] = <<>>]
<1>8. Prepared(got) = empty
  BY <1>6, <1>7
<1>9. Prepared(<<>>) = empty
  <2>1. /\ Flat(<<>>, "versions", Versions) = <<>> /\ Flat(<<>>, "events", Artifacts) = <<>>
        /\ Flat(<<>>, "events", Events) = <<>> /\ Flat(<<>>, "snapshots", Snapshots) = <<>>
    BY <1>1 DEF Flat
  <2>2. QED
    BY <2>1 DEF Prepared
<1>10. QED
  BY <1>8, <1>9


-----------------------------------------------------------------------------
(* What the order of the entries tells. *)

\* x is listed before y, where no two audit events are of one instant.
Before(k, x, y) ==
    CASE k = "versions" -> x.no < y.no
      [] k = "snapshots" -> x.no > y.no
      [] k = "events" -> x.at > y.at

Strict(k, s) == \A m, n \in DOMAIN s : m < n => Before(k, s[m], s[n])

\* The kinds, by name.
LEMMA KindsByName == Range(Kinds) = {"versions", "events", "snapshots"}
<1>1. Kinds[1] = "versions" /\ Kinds[2] = "events" /\ Kinds[3] = "snapshots"
  BY DEF Kinds
<1>2. \A j \in 1..3 : j = 1 \/ j = 2 \/ j = 3
  OBVIOUS
<1>3. 1 \in 1..3 /\ 2 \in 1..3 /\ 3 \in 1..3
  OBVIOUS
<1>4. QED
  BY <1>1, <1>2, <1>3, KindsAre

\* A strict listing is one way only.
LEMMA BeforeIsOneWay ==
    ASSUME NEW k \in Range(Kinds), NEW x \in SourceRow, NEW y \in SourceRow,
           Before(k, x, y)
    PROVE  ~Before(k, y, x)
<1>1. x.no \in Nat /\ y.no \in Nat /\ x.at \in Nat /\ y.at \in Nat
  BY DEF SourceRow
<1>2. CASE k = "versions"
  BY <1>1, <1>2 DEF Before
<1>3. CASE k = "snapshots"
  BY <1>1, <1>3 DEF Before
<1>4. CASE k = "events"
  BY <1>1, <1>4 DEF Before
<1>5. QED
  BY <1>2, <1>3, <1>4, KindsByName

\* Where s and t agree up to p, what s has at p comes no earlier in t.
LEMMA NoEarlier ==
    ASSUME NEW k \in Range(Kinds), NEW s \in Seq(SourceRow), NEW t \in Seq(SourceRow),
           Strict(k, s), Range(s) \subseteq Range(t), NEW p \in DOMAIN s,
           \A m \in DOMAIN t : m < p => m \in DOMAIN s /\ s[m] = t[m]
    PROVE  \E q \in DOMAIN t : q >= p /\ t[q] = s[p]
<1>1. PICK q \in DOMAIN t : t[q] = s[p]
  BY DEF Range
<1>2. DOMAIN s = 1..Len(s) /\ DOMAIN t = 1..Len(t) /\ Len(s) \in Nat /\ Len(t) \in Nat
  BY LenProperties
<1>3. p \in Nat /\ q \in Nat /\ s[p] \in SourceRow
  BY <1>2, ElementOfSeq
<1>4. ASSUME q < p PROVE FALSE
  <2>1. q \in DOMAIN s /\ s[q] = s[p]
    BY <1>1, <1>4
  <2>2. Before(k, s[p], s[p])
    BY <1>4, <2>1 DEF Strict
  <2>3. QED
    BY <1>3, <2>2, BeforeIsOneWay
<1>5. QED
  BY <1>1, <1>3, <1>4

\* Rows can be listed strictly in one order.
LEMMA OneOrder ==
    ASSUME NEW k \in Range(Kinds), NEW s \in Seq(SourceRow), NEW t \in Seq(SourceRow),
           Strict(k, s), Strict(k, t), Range(s) = Range(t)
    PROVE  s = t
<1>1. DOMAIN s = 1..Len(s) /\ DOMAIN t = 1..Len(t) /\ Len(s) \in Nat /\ Len(t) \in Nat
  BY LenProperties
<1> DEFINE Agree(m) == (m \in DOMAIN s <=> m \in DOMAIN t) /\ (m \in DOMAIN s => s[m] = t[m])
           T == {n \in Nat : \A m \in 1..n : Agree(m)}
<1>2. 0 \in T
  OBVIOUS
<1>3. ASSUME NEW n \in T PROVE n + 1 \in T
  <2> DEFINE p == n + 1
  <2>1. p \in Nat /\ n \in Nat /\ \A m \in Nat : m < p => m = 0 \/ m \in 1..n
    OBVIOUS
  <2>2. \A m \in 1..n : Agree(m)
    OBVIOUS
  <2> HIDE DEF p
  <2>3. /\ \A m \in DOMAIN t : m < p => m \in DOMAIN s /\ s[m] = t[m]
        /\ \A m \in DOMAIN s : m < p => m \in DOMAIN t /\ t[m] = s[m]
    BY <1>1, <2>1, <2>2
  <2>4. p \in DOMAIN s => \E q \in DOMAIN t : q >= p /\ t[q] = s[p]
    BY <2>3, NoEarlier
  <2>5. p \in DOMAIN t => \E q \in DOMAIN s : q >= p /\ s[q] = t[p]
    BY <2>3, NoEarlier
  <2>6. p \in DOMAIN s <=> p \in DOMAIN t
    BY <1>1, <2>1, <2>4, <2>5 DEF p
  <2>7. ASSUME p \in DOMAIN s PROVE s[p] = t[p]
    <3>1. PICK q \in DOMAIN t : q >= p /\ t[q] = s[p]
      BY <2>4, <2>7
    <3>2. PICK r \in DOMAIN s : r >= p /\ s[r] = t[p]
      BY <2>5, <2>6, <2>7
    <3>3. CASE q = p \/ r = p
      BY <3>1, <3>2, <3>3
    <3>4. CASE q # p /\ r # p
      <4>1. p < q /\ p < r
        BY <1>1, <2>1, <3>1, <3>2, <3>4
      <4>2. Before(k, t[p], s[p]) /\ Before(k, s[p], t[p])
        BY <2>6, <2>7, <3>1, <3>2, <4>1 DEF Strict
      <4>3. s[p] \in SourceRow /\ t[p] \in SourceRow
        BY <1>1, <2>6, <2>7, ElementOfSeq
      <4>4. QED
        BY <4>2, <4>3, BeforeIsOneWay
    <3>5. QED
      BY <3>3, <3>4
  <2>8. Agree(p)
    BY <2>6, <2>7
  <2>9. \A m \in 1..p : m \in 1..n \/ m = p
    BY <2>1 DEF p
  <2>10. \A m \in 1..p : Agree(m)
    BY <2>2, <2>8, <2>9
  <2>11. QED
    BY <2>1, <2>10 DEF p
<1> HIDE DEF T
<1>4. T = Nat
  <2>1. T \in SUBSET Nat
    BY DEF T
  <2>2. QED
    BY <1>2, <1>3, <2>1, AllNaturals
<1>5. ASSUME NEW m \in Nat, m # 0 PROVE Agree(m)
  <2>1. m \in T /\ m \in 1..m
    BY <1>4, <1>5
  <2>2. QED
    BY <2>1 DEF T
<1>6. Len(s) = Len(t)
  <2>1. Len(s) # 0 => Len(s) \in 1..Len(t)
    BY <1>1, <1>5
  <2>2. Len(t) # 0 => Len(t) \in 1..Len(s)
    BY <1>1, <1>5
  <2>3. ASSUME NEW x \in Nat, NEW y \in Nat, x # 0 => x \in 1..y, y # 0 => y \in 1..x
        PROVE  x = y
    BY <2>3
  <2>4. Len(s) \in Nat /\ Len(t) \in Nat
    BY <1>1
  <2>5. QED
    BY <2>1, <2>2, <2>3, <2>4
<1>7. \A m \in 1..Len(s) : s[m] = t[m]
  BY <1>1, <1>5
<1>8. QED
  BY <1>6, <1>7, SeqEqual

\* The reads of a request, by number.
LEMMA ReadsAre ==
    ASSUME NEW ids \in Seq(Owned \union Foreign)
    PROVE  /\ Len(Reads(ids)) = 3 * Len(ids) /\ DOMAIN Reads(ids) = 1..(3 * Len(ids))
           /\ \A m \in DOMAIN Reads(ids) :
                /\ Reads(ids)[m] = <<ids[(m - 1) \div 3 + 1], Kinds[((m - 1) % 3) + 1]>>
                /\ (m - 1) \div 3 + 1 \in DOMAIN ids /\ ((m - 1) % 3) + 1 \in 1..3
<1>1. Len(ids) \in Nat /\ DOMAIN ids = 1..Len(ids)
  BY LenProperties
<1>2. Reads(ids) = [m \in 1..(3 * Len(ids)) |->
                      <<ids[(m - 1) \div 3 + 1], Kinds[((m - 1) % 3) + 1]>>]
  BY KindsAre DEF Reads
<1>3. \A m \in 1..(3 * Len(ids)) : (m - 1) \div 3 + 1 \in 1..Len(ids) /\ ((m - 1) % 3) + 1 \in 1..3
  BY <1>1
<1>4. DOMAIN Reads(ids) = 1..(3 * Len(ids))
  BY <1>2
<1>5. Reads(ids) \in Seq(ReadsToDo)
  BY ReadsCover
<1>6. Len(Reads(ids)) = 3 * Len(ids)
  BY <1>1, <1>4, <1>5, LenProperties
<1>7. QED
  BY <1>1, <1>2, <1>3, <1>4, <1>6

\* Where no intent is named twice, no read is made twice.
LEMMA ReadsDiffer ==
    ASSUME NEW ids \in Seq(Owned \union Foreign), ~Repeats(ids),
           NEW m \in DOMAIN Reads(ids), NEW n \in DOMAIN Reads(ids),
           Reads(ids)[m] = Reads(ids)[n]
    PROVE  m = n
<1> DEFINE a(l) == (l - 1) \div 3 + 1
           j(l) == ((l - 1) % 3) + 1
<1>1. /\ ids[a(m)] = ids[a(n)] /\ Kinds[j(m)] = Kinds[j(n)]
      /\ a(m) \in DOMAIN ids /\ a(n) \in DOMAIN ids /\ j(m) \in 1..3 /\ j(n) \in 1..3
  <2>1. \A l \in DOMAIN Reads(ids) :
           Reads(ids)[l] = <<ids[a(l)], Kinds[j(l)]>> /\ a(l) \in DOMAIN ids /\ j(l) \in 1..3
    BY ReadsAre
  <2> HIDE DEF a, j
  <2>2. <<ids[a(m)], Kinds[j(m)]>> = <<ids[a(n)], Kinds[j(n)]>>
    BY <2>1
  <2>3. QED
    BY <2>1, <2>2
<1>2. a(m) = a(n)
  <2> HIDE DEF a
  <2>1. QED
    BY <1>1 DEF Repeats, IsInjective
<1>3. j(m) = j(n)
  <2> HIDE DEF j
  <2>1. \A p, q \in 1..3 : Kinds[p] = Kinds[q] => p = q
    BY DEF Kinds
  <2>2. QED
    BY <1>1, <2>1
<1>4. m \in Nat /\ n \in Nat /\ m > 0 /\ n > 0
  <2>1. DOMAIN Reads(ids) = 1..(3 * Len(ids)) /\ Len(ids) \in Nat
    BY LenProperties, ReadsAre
  <2>2. QED
    BY <2>1
<1>5. QED
  BY <1>2, <1>3, <1>4

\* Of intents that are all the tenant's, all are kept.
LEMMA KeptAreOwn ==
    ASSUME NEW ids \in Seq(Owned \union Foreign)
    PROVE  /\ Kept(ids, LAMBDA i : i \in Owned) \in Seq(Owned)
           /\ Range(ids) \subseteq Owned => Kept(ids, LAMBDA i : i \in Owned) = ids
<1> DEFINE ss == [n \in DOMAIN ids |-> IF ids[n] \in Owned THEN <<ids[n]>> ELSE <<>>]
<1>1. Kept(ids, LAMBDA i : i \in Owned) = FlattenSeq(ss)
  BY DEF Kept
<1>2. DOMAIN ids = 1..Len(ids) /\ Len(ids) \in Nat
  BY LenProperties
<1>3. ss \in Seq(Seq(Owned))
  BY <1>2
<1>4. ASSUME Range(ids) \subseteq Owned PROVE FlattenSeq(ss) = ids
  <2>1. \A n \in DOMAIN ids : ids[n] \in Owned
    BY <1>4 DEF Range
  <2>2. ss = [n \in DOMAIN ids |-> <<ids[n]>>]
    BY <2>1
  <2> HIDE DEF ss
  <2>3. QED
    BY <2>2, FlattenSingles
<1> HIDE DEF ss
<1>5. FlattenSeq(ss) \in Seq(Owned)
  BY <1>3, FlattenHolds
<1>6. QED
  BY <1>1, <1>4, <1>5


-----------------------------------------------------------------------------
(* What a verification finds. *)

\* The rows of a table are numbered one by one.
Numbered ==
    \A i \in Owned, k \in Range(Kinds) : \A x, y \in source[i][k] :
        x.no \in 1..Cardinality(source[i][k]) /\ (x.no = y.no => x = y)

\* A read lists rows that are in its table, each once and in the order of its query.
Listed(read) ==
    /\ Ordered(read.kind, read.rows) /\ IsInjective(read.rows)
    /\ Range(read.rows) \subseteq source[read.intent][read.kind]

\* What r has read and what it has still to read are the reads of its intents.
Whole(r) ==
    LET got == req[r].got
        todo == req[r].todo
        all == Reads(req[r].ids)
    IN  /\ req[r].ids \in Seq(Owned \union Foreign)
        /\ req[r].pc \in Storing \union {"done"} => todo = <<>>
        /\ \A n \in DOMAIN got : Listed(got[n])
        /\ wiring.collector # "real" => got = <<>> /\ todo = <<>>
        /\ wiring.collector = "real" =>
              /\ Len(all) = Len(got) + Len(todo)
              /\ \A n \in DOMAIN got : all[n] = <<got[n].intent, got[n].kind>>
              /\ \A n \in DOMAIN todo : all[Len(got) + n] = todo[n]

\* What d answered is true of a bundle there is.
Truthful(d) ==
    /\ reader[d].pc = "verify" \/ reader[d].answer \in {"verified", "differs"} =>
          reader[d].bundle \in Requests \intersect DOMAIN bundles
    /\ reader[d].answer = "verified" => reader[d].same
    /\ reader[d].answer = "differs" =>
          ~reader[d].same \/ reader[d].tied \/ Repeats(req[reader[d].bundle].ids)

Faithful ==
    Numbered /\ (\A r \in Requests : Whole(r)) /\ (\A d \in Readers : Truthful(d))

\* What a listing is.
LEMMA ListingIsListed ==
    ASSUME SourceOK, NEW i \in Owned, NEW k \in Range(Kinds), NEW range,
           NEW rows \in Listings(i, k, range)
    PROVE  Read(i, k, rows) \in Reading /\ Listed(Read(i, k, rows))
<1>1. rows \in Seq(SourceRow) /\ Range(rows) \subseteq source[i][k]
  BY ListingHoldsAll
<1> DEFINE S == {x \in source[i][k] : InRange(x, range)}
<1>2. Ordered(k, rows) /\ rows \in SetToSeqs(S)
  BY DEF Listings
<1>3. IsInjective(rows)
  <2>1. rows \in [1..Cardinality(S) -> S] /\ \A m, n \in 1..Cardinality(S) : m # n => rows[m] # rows[n]
    BY <1>2 DEF SetToSeqs
  <2>2. QED
    BY <2>1 DEF IsInjective
<1>4. Read(i, k, rows).intent = i /\ Read(i, k, rows).kind = k /\ Read(i, k, rows).rows = rows
  BY DEF Read
<1>5. Read(i, k, rows) \in Reading
  BY <1>1 DEF Read, Reading
<1>6. QED
  BY <1>1, <1>2, <1>3, <1>4, <1>5 DEF Listed

\* What can be sent for a bundle.
LEMMA RecollectionIs ==
    ASSUME SourceOK, NEW b \in Requests, req[b].ids \in Seq(Owned \union Foreign),
           NEW own, own = Kept(req[b].ids, LAMBDA i : i \in Owned),
           NEW got \in Recollections(b)
    PROVE  /\ got \in Seq(Reading) /\ Len(got) = Len(Reads(own))
           /\ \A n \in DOMAIN got :
                Listed(got[n]) /\ Reads(own)[n] = <<got[n].intent, got[n].kind>>
<1> DEFINE rs == Reads(own)
           lists == [n \in DOMAIN rs |-> Listings(rs[n][1], rs[n][2], req[b].range)]
<1>1. own \in Seq(Owned) /\ own \in Seq(Owned \union Foreign)
  BY KeptAreOwn, SeqMonotonic
<1>2. rs \in Seq(ReadsToDo) /\ \A p \in Range(rs) : p[1] \in Range(own)
  BY <1>1, ReadsCover
<1>3. DOMAIN rs = 1..Len(rs) /\ Len(rs) \in Nat
  BY <1>2, LenProperties
<1>4. ASSUME NEW n \in DOMAIN rs
      PROVE  rs[n] = <<rs[n][1], rs[n][2]>> /\ rs[n][1] \in Owned /\ rs[n][2] \in Range(Kinds)
  <2>1. rs[n] \in ReadsToDo /\ rs[n] \in Range(rs)
    BY <1>2, <1>3, ElementOfSeq DEF Range
  <2>2. rs[n] = <<rs[n][1], rs[n][2]>> /\ rs[n][2] \in Range(Kinds)
    BY <2>1 DEF ReadsToDo
  <2>3. Range(own) \subseteq Owned
    BY <1>1, RangeOfSeq
  <2>4. QED
    BY <1>2, <2>1, <2>2, <2>3
<1>5. PICK f \in [DOMAIN rs -> UNION Range(lists)] :
          /\ \A n \in DOMAIN rs : f[n] \in lists[n]
          /\ got = [n \in DOMAIN rs |-> Read(rs[n][1], rs[n][2], f[n])]
  BY DEF Recollections
<1> HIDE DEF rs
<1>6. ASSUME NEW n \in DOMAIN rs
      PROVE  /\ got[n] \in Reading /\ Listed(got[n])
             /\ rs[n] = <<got[n].intent, got[n].kind>>
  <2>1. got[n] = Read(rs[n][1], rs[n][2], f[n]) /\ f[n] \in Listings(rs[n][1], rs[n][2], req[b].range)
    BY <1>5
  <2>2. Read(rs[n][1], rs[n][2], f[n]) \in Reading /\ Listed(Read(rs[n][1], rs[n][2], f[n]))
    BY <1>4, <2>1, ListingIsListed
  <2>3. Read(rs[n][1], rs[n][2], f[n]).intent = rs[n][1] /\ Read(rs[n][1], rs[n][2], f[n]).kind = rs[n][2]
    BY DEF Read
  <2>4. QED
    BY <1>4, <2>1, <2>2, <2>3
<1>7. DOMAIN got = 1..Len(rs)
  BY <1>3, <1>5
<1>8. got \in Seq(Reading) /\ Len(got) = Len(rs)
  <2>1. got \in [1..Len(rs) -> Reading]
    BY <1>3, <1>5, <1>6
  <2>2. QED
    BY <1>3, <2>1
<1>9. QED
  BY <1>3, <1>6, <1>7, <1>8 DEF rs

\* Collections of the same entries are of the same rows: a row is known by the
\* intent, the kind and the number that its entry carries.
LEMMA SameEntries ==
    ASSUME Numbered, NEW g \in Seq(Reading), NEW h \in Seq(Reading),
           \A n \in DOMAIN g : Listed(g[n]), \A n \in DOMAIN h : Listed(h[n]),
           \A s \in Sections : Prepared(g)[s] = Prepared(h)[s]
    PROVE  RowsOf(g) \subseteq RowsOf(h)
<1> SUFFICES ASSUME NEW t \in RowsOf(g) PROVE t \in RowsOf(h)
  OBVIOUS
<1>1. PICK n \in DOMAIN g : \E x \in Range(g[n].rows) : t = <<g[n].intent, g[n].kind, x>>
  BY InRowsOf
<1>2. PICK x \in Range(g[n].rows) : t = <<g[n].intent, g[n].kind, x>>
  BY <1>1
<1> DEFINE i == g[n].intent
           k == g[n].kind
<1>3. i \in Owned /\ k \in Range(Kinds) /\ x \in source[i][k]
  BY ReadingIs DEF Listed
<1>4. Holds(g, i, k, x.no)
  BY DEF Holds
<1> HIDE DEF i, k
<1>5. Holds(h, i, k, x.no)
  BY <1>3, <1>4, EntriesTell
<1>6. PICK m \in DOMAIN h : /\ h[m].intent = i /\ h[m].kind = k
                            /\ \E y \in Range(h[m].rows) : y.no = x.no
  BY <1>5 DEF Holds
<1>7. PICK y \in Range(h[m].rows) : y.no = x.no
  BY <1>6
<1>8. y \in source[i][k]
  BY <1>6 DEF Listed
<1>9. x = y
  BY <1>3, <1>7, <1>8 DEF Numbered
<1>10. t = <<h[m].intent, h[m].kind, y>>
  BY <1>2, <1>6, <1>9 DEF i, k
<1>11. QED
  BY <1>10, InRowsOf

\* A listing without a tie is strict.
LEMMA UntiedIsStrict ==
    ASSUME NEW read \in Reading, Listed(read), NEW rows, ~Tied(rows),
           \A x \in Range(read.rows) : <<read.intent, read.kind, x>> \in rows
    PROVE  Strict(read.kind, read.rows)
<1> DEFINE s == read.rows
           k == read.kind
<1>1. s \in Seq(SourceRow) /\ k \in Range(Kinds)
  BY DEF Reading
<1>2. DOMAIN s = 1..Len(s) /\ Len(s) \in Nat
  BY <1>1, LenProperties
<1>3. Ordered(k, s) /\ IsInjective(s)
  BY DEF Listed
<1> SUFFICES ASSUME NEW m \in DOMAIN s, NEW n \in DOMAIN s, m < n PROVE Before(k, s[m], s[n])
  BY DEF Strict
<1>4. s[m] \in Range(s) /\ s[n] \in Range(s) /\ s[m] # s[n]
  BY <1>2, <1>3 DEF Range, IsInjective
<1>5. s[m].at \in Nat /\ s[n].at \in Nat
  <2>1. s[m] \in SourceRow /\ s[n] \in SourceRow
    BY <1>1, <1>2, ElementOfSeq
  <2>2. QED
    BY <2>1 DEF SourceRow
<1>6. CASE k = "versions"
  BY <1>3, <1>6 DEF Ordered, Before
<1>7. CASE k = "snapshots"
  BY <1>3, <1>7 DEF Ordered, Before
<1>8. CASE k = "events"
  <2> DEFINE x == <<read.intent, k, s[m]>>
             y == <<read.intent, k, s[n]>>
  <2>1. x \in rows /\ y \in rows
    BY <1>4
  <2>2. x # y /\ x[1] = y[1] /\ x[2] = "events" /\ y[2] = "events" /\ x[3] = s[m] /\ y[3] = s[n]
    BY <1>4, <1>8
  <2>3. s[m].at # s[n].at
    <3> HIDE DEF x, y
    <3>1. QED
      BY <2>1, <2>2 DEF Tied
  <2>4. s[m].at >= s[n].at
    BY <1>3, <1>8 DEF Ordered
  <2>5. s[m].at > s[n].at
    BY <1>5, <2>3, <2>4
  <2>6. QED
    BY <1>8, <2>5 DEF Before
<1>9. QED
  BY <1>1, <1>6, <1>7, <1>8, KindsByName

\* Two collections by the same reads, none of them made twice, are the same when
\* their rows are and none is tied.
LEMMA SameReads ==
    ASSUME NEW g \in Seq(Reading), NEW h \in Seq(Reading), Len(g) = Len(h),
           \A n \in DOMAIN g : g[n].intent = h[n].intent /\ g[n].kind = h[n].kind,
           \A m, n \in DOMAIN g : g[m].intent = g[n].intent /\ g[m].kind = g[n].kind => m = n,
           \A n \in DOMAIN g : Listed(g[n]) /\ Listed(h[n]),
           RowsOf(g) = RowsOf(h), ~Tied(RowsOf(g))
    PROVE  g = h
<1>1. /\ DOMAIN g = 1..Len(g) /\ DOMAIN h = 1..Len(g)
      /\ \A n \in DOMAIN g : g[n] \in Reading /\ h[n] \in Reading
  BY LenProperties, ElementOfSeq
<1>2. ASSUME NEW n \in DOMAIN g PROVE g[n].rows = h[n].rows
  <2> DEFINE i == g[n].intent
             k == g[n].kind
  <2>1. /\ \A x \in Range(g[n].rows) : <<i, k, x>> \in RowsOf(g)
        /\ \A x \in Range(h[n].rows) : <<i, k, x>> \in RowsOf(h)
    BY <1>1, InRowsOf
  <2>2. ASSUME NEW x \in Range(g[n].rows) PROVE x \in Range(h[n].rows)
    <3>1. <<i, k, x>> \in RowsOf(h)
      BY <2>1
    <3>2. PICK m \in DOMAIN h : \E y \in Range(h[m].rows) : <<i, k, x>> = <<h[m].intent, h[m].kind, y>>
      BY <3>1, InRowsOf
    <3>3. h[m].intent = i /\ h[m].kind = k /\ x \in Range(h[m].rows)
      BY <3>2
    <3>4. m = n
      BY <1>1, <3>3
    <3>5. QED
      BY <3>3, <3>4
  <2>3. ASSUME NEW x \in Range(h[n].rows) PROVE x \in Range(g[n].rows)
    <3>1. <<i, k, x>> \in RowsOf(g)
      BY <2>1
    <3>2. PICK m \in DOMAIN g : \E y \in Range(g[m].rows) : <<i, k, x>> = <<g[m].intent, g[m].kind, y>>
      BY <3>1, InRowsOf
    <3>3. g[m].intent = i /\ g[m].kind = k /\ x \in Range(g[m].rows)
      BY <3>2
    <3>4. m = n
      BY <3>3
    <3>5. QED
      BY <3>3, <3>4
  <2>4. Range(g[n].rows) = Range(h[n].rows)
    BY <2>2, <2>3
  <2>5. Strict(k, g[n].rows)
    BY <1>1, <2>1, UntiedIsStrict
  <2>6. Strict(k, h[n].rows)
    <3>1. ~Tied(RowsOf(h)) /\ h[n].intent = i /\ h[n].kind = k
      OBVIOUS
    <3>2. QED
      BY <1>1, <2>1, <3>1, UntiedIsStrict
  <2>7. g[n].rows \in Seq(SourceRow) /\ h[n].rows \in Seq(SourceRow) /\ k \in Range(Kinds)
    BY <1>1 DEF Reading
  <2> HIDE DEF k
  <2>8. QED
    BY <2>4, <2>5, <2>6, <2>7, OneOrder
<1>3. \A n \in DOMAIN g : g[n] = h[n]
  <2>1. \A x \in Reading : x = [intent |-> x.intent, kind |-> x.kind, rows |-> x.rows]
    BY DEF Reading
  <2>2. QED
    BY <1>1, <1>2, <2>1
<1>4. QED
  BY <1>1, <1>3, SeqEqual

\* Nothing was read: then reads of the same rows find nothing.
LEMMA SameNothing ==
    ASSUME NEW got \in Seq(Reading), RowsOf(got) = RowsOf(<<>>)
    PROVE  Prepared(got) = Prepared(<<>>)
<1>1. RowsOf(<<>>) = {}
  BY DEF RowsOf
<1>2. ASSUME NEW n \in DOMAIN got PROVE got[n].rows = <<>>
  <2>1. Range(got[n].rows) = {}
    BY <1>1, InRowsOf
  <2>2. DOMAIN got[n].rows = 1..Len(got[n].rows) /\ Len(got[n].rows) \in Nat
        /\ got[n].rows \in Seq(SourceRow)
    BY ReadingIs
  <2>3. DOMAIN got[n].rows = {}
    BY <2>1 DEF Range
  <2>4. Len(got[n].rows) = 0
    <3>1. ASSUME NEW l \in Nat, 1..l = {} PROVE l = 0
      <4>1. 1 \notin 1..l
        BY <3>1
      <4>2. QED
        BY <4>1
    <3>2. QED
      BY <2>2, <2>3, <3>1
  <2>5. QED
    BY <2>2, <2>4
<1>3. QED
  BY <1>2, NothingTells

\* What a verification says of a bundle is so.
LEMMA Verdict ==
    ASSUME Inductive, Faithful, NEW b \in Requests \intersect DOMAIN bundles,
           NEW got \in Recollections(b)
    PROVE  /\ Differing(bundles[b], Prepared(got)) = {} => RowsOf(got) = RowsOf(req[b].got)
           /\ Differing(bundles[b], Prepared(got)) # {} =>
                 ~(RowsOf(got) = RowsOf(req[b].got)) \/ Tied(RowsOf(got)) \/ Repeats(req[b].ids)
<1> DEFINE own == Kept(req[b].ids, LAMBDA i : i \in Owned)
           had == req[b].got
           ids == req[b].ids
<1>1. /\ SourceOK /\ Numbered /\ Whole(b) /\ had \in Seq(Reading) /\ req[b].todo \in Seq(ReadsToDo)
      /\ Placed(b)
  BY DEF Inductive, FormOK, RequestOK, Faithful
<1>2. ids \in Seq(Owned \union Foreign) /\ \A n \in DOMAIN had : Listed(had[n])
  BY <1>1 DEF Whole
<1>3. bundles[b].integrity = Prepared(had)
  BY <1>1 DEF Placed, BundleOf, Row
<1> HIDE DEF own
<1>4. /\ got \in Seq(Reading) /\ Len(got) = Len(Reads(own))
      /\ \A n \in DOMAIN got :
            Listed(got[n]) /\ Reads(own)[n] = <<got[n].intent, got[n].kind>>
  BY <1>1, <1>2, RecollectionIs DEF own
<1>5. ASSUME Differing(bundles[b], Prepared(got)) = {}
      PROVE  RowsOf(got) = RowsOf(had)
  <2>1. \A s \in Sections : Prepared(got)[s] = Prepared(had)[s]
    BY <1>3, <1>5 DEF Differing
  <2>2. RowsOf(got) \subseteq RowsOf(had) /\ RowsOf(had) \subseteq RowsOf(got)
    BY <1>1, <1>2, <1>4, <2>1, SameEntries
  <2>3. QED
    BY <2>2
<1>6. ASSUME RowsOf(got) = RowsOf(had), ~Tied(RowsOf(got)), ~Repeats(ids)
      PROVE  Prepared(got) = Prepared(had)
  <2>1. CASE wiring.collector # "real"
    <3>1. had = <<>>
      BY <1>1, <2>1 DEF Whole
    <3>2. QED
      BY <1>4, <1>6, <3>1, SameNothing
  <2>2. CASE wiring.collector = "real"
    <3>1. req[b].todo = <<>>
      BY <1>1 DEF Placed, Whole
    <3>2. /\ Len(Reads(ids)) = Len(had)
          /\ \A n \in DOMAIN had : Reads(ids)[n] = <<had[n].intent, had[n].kind>>
      <4>1. Len(Reads(ids)) = Len(had) + Len(req[b].todo)
        BY <1>1, <2>2 DEF Whole
      <4>2. Len(had) \in Nat /\ Len(req[b].todo) = 0
        BY <1>1, <3>1, LenProperties
      <4>3. \A n \in DOMAIN had : Reads(ids)[n] = <<had[n].intent, had[n].kind>>
        BY <1>1, <2>2 DEF Whole
      <4>4. QED
        BY <4>1, <4>2, <4>3
    <3>3. DOMAIN had = DOMAIN Reads(ids)
      BY <1>1, <1>2, <3>2, ReadsAre, LenProperties
    <3>4. Range(ids) \subseteq Owned
      <4> SUFFICES ASSUME NEW a \in DOMAIN ids PROVE ids[a] \in Owned
        BY DEF Range
      <4>1. DOMAIN ids = 1..Len(ids) /\ Len(ids) \in Nat
        BY <1>2, LenProperties
      <4> DEFINE n == 3 * (a - 1) + 1
      <4>2. n \in 1..(3 * Len(ids)) /\ (n - 1) \div 3 + 1 = a
        BY <4>1
      <4> HIDE DEF n
      <4>3. n \in DOMAIN Reads(ids)
        BY <1>2, <4>2, ReadsAre
      <4>4. Reads(ids)[n] = <<ids[a], Kinds[((n - 1) % 3) + 1]>>
        BY <1>2, <4>2, <4>3, ReadsAre
      <4>5. Reads(ids)[n][1] = ids[a] /\ had[n].intent \in Owned
        BY <1>1, <3>3, <4>3, <4>4, ReadingIs
      <4>6. QED
        BY <3>2, <3>3, <4>3, <4>5
    <3>5. own = ids
      BY <1>2, <3>4, KeptAreOwn DEF own
    <3>6. Len(got) = Len(had) /\ DOMAIN got = DOMAIN had
      BY <1>1, <1>4, <3>2, <3>5, LenProperties
    <3>7. \A n \in DOMAIN got : got[n].intent = had[n].intent /\ got[n].kind = had[n].kind
      <4>1. ASSUME NEW n \in DOMAIN got
            PROVE  <<got[n].intent, got[n].kind>> = <<had[n].intent, had[n].kind>>
        BY <1>4, <3>2, <3>5, <3>6
      <4>2. QED
        BY <4>1
    <3>8. \A m, n \in DOMAIN got :
              got[m].intent = got[n].intent /\ got[m].kind = got[n].kind => m = n
      <4>1. ASSUME NEW m \in DOMAIN got, NEW n \in DOMAIN got,
                   got[m].intent = got[n].intent, got[m].kind = got[n].kind
            PROVE  m = n
        <5>1. m \in DOMAIN Reads(ids) /\ n \in DOMAIN Reads(ids) /\ Reads(ids)[m] = Reads(ids)[n]
          BY <1>4, <3>3, <3>5, <3>6, <4>1
        <5>2. QED
          BY <1>2, <1>6, <5>1, ReadsDiffer
      <4>2. QED
        BY <4>1
    <3>9. \A n \in DOMAIN got : Listed(got[n]) /\ Listed(had[n])
      BY <1>2, <1>4, <3>6
    <3>10. got = had
      BY <1>1, <1>4, <1>6, <3>6, <3>7, <3>8, <3>9, SameReads
    <3>11. QED
      BY <3>10
  <2>3. QED
    BY <2>1, <2>2
<1>7. Prepared(got) = Prepared(had) => Differing(bundles[b], Prepared(got)) = {}
  BY <1>3 DEF Differing
<1>8. QED
  BY <1>5, <1>6, <1>7

-----------------------------------------------------------------------------
(* The verifications stay true. *)

\* A listing is one of a table that has grown.
LEMMA StillListed ==
    ASSUME SourceOK, NEW read \in Reading, Listed(read),
           \A i \in Owned, k \in Range(Kinds) : source[i][k] \subseteq source'[i][k]
    PROVE  Listed(read)'
  BY DEF Listed, Reading, Ordered

\* A request that has the same reads made and to make has them still.
LEMMA StillWhole ==
    ASSUME Inductive, Faithful, NEW r \in Requests, UNCHANGED wiring,
           \A i \in Owned, k \in Range(Kinds) : source[i][k] \subseteq source'[i][k],
           req'[r].ids = req[r].ids, req'[r].got = req[r].got, req'[r].todo = req[r].todo,
           req'[r].pc \in Storing \union {"done"} => req[r].todo = <<>>
    PROVE  Whole(r)'
<1>1. Whole(r) /\ SourceOK /\ req[r].got \in Seq(Reading)
  BY DEF Inductive, FormOK, RequestOK, Faithful
<1>2. \A n \in DOMAIN req[r].got : Listed(req[r].got[n])'
  <2>1. \A n \in DOMAIN req[r].got : req[r].got[n] \in Reading
    BY <1>1, LenProperties
  <2>2. ASSUME NEW read \in Reading, Listed(read) PROVE Listed(read)'
    BY <1>1, <2>2, StillListed
  <2>3. ASSUME NEW n \in DOMAIN req[r].got PROVE Listed(req[r].got[n])'
    <3>1. Listed(req[r].got[n]) /\ req[r].got[n] \in Reading
      BY <1>1, <2>1 DEF Whole
    <3>2. QED
      BY <1>1, <3>1, StillListed
  <2>4. QED
    BY <2>3
<1>3. QED
  BY <1>1, <1>2 DEF Whole

\* What was answered is true as long as its bundle keeps its intents.
LEMMA StillTruthful ==
    ASSUME Faithful, NEW d \in Readers, reader'[d] = reader[d],
           \A b \in Requests \intersect DOMAIN bundles :
              b \in DOMAIN bundles' /\ req'[b].ids = req[b].ids
    PROVE  Truthful(d)'
  BY DEF Faithful, Truthful

\* So a step of one request is looked at there only.
LEMMA OneReads ==
    ASSUME Inductive, Faithful, NEW r \in Requests, UNCHANGED <<source, wiring, reader>>,
           \A s \in Requests \ {r} : req'[s] = req[s], DOMAIN bundles \subseteq DOMAIN bundles',
           r \in DOMAIN bundles => req'[r].ids = req[r].ids, Whole(r)'
    PROVE  Faithful'
<1>1. Numbered'
  BY DEF Faithful, Numbered
<1>2. ASSUME NEW s \in Requests, s # r PROVE Whole(s)'
  <2>1. Whole(s) /\ req'[s] = req[s]
    BY <1>2 DEF Faithful
  <2>2. /\ req'[s].ids = req[s].ids /\ req'[s].got = req[s].got /\ req'[s].todo = req[s].todo
        /\ req'[s].pc \in Storing \union {"done"} => req[s].todo = <<>>
    BY <2>1 DEF Whole
  <2>3. QED
    BY <2>2, StillWhole
<1>3. ASSUME NEW d \in Readers PROVE Truthful(d)'
  <2>1. \A b \in Requests \intersect DOMAIN bundles : b \in DOMAIN bundles' /\ req'[b].ids = req[b].ids
    OBVIOUS
  <2>2. reader'[d] = reader[d]
    OBVIOUS
  <2>3. QED
    BY <2>1, <2>2, StillTruthful
<1>4. QED
  BY <1>1, <1>2, <1>3 DEF Faithful

\* A bundle that is there stays.
LEMMA BundlesStay ==
    ASSUME NEW r \in Requests, ReceiveCreate(r) \/ Step(r) \/ Dropped(r)
    PROVE  DOMAIN bundles \subseteq DOMAIN bundles'
<1>1. \A b : DOMAIN bundles \subseteq DOMAIN With(bundles, r, b)
  BY DEF With
<1>2. DOMAIN [bundles EXCEPT ![r].status = "ready"] = DOMAIN bundles
  OBVIOUS
<1>3. CASE UNCHANGED bundles
  BY <1>3
<1>4. CASE CreateRow(r)
  BY <1>1, <1>4 DEF CreateRow, Stored
<1>5. CASE MarkReady(r) \/ MarkFails(r)
  BY <1>2, <1>5 DEF MarkReady, MarkFails
<1>6. CASE Commit(r) \/ CommitFails(r)
  BY <1>1, <1>6 DEF Commit, CommitFails
<1>7. QED
  BY <1>3, <1>4, <1>5, <1>6
     DEF Step, ReceiveCreate, Begin, BeginFails, Collect, CollectFails, CreateFails, Put, PutRetry,
         PutFails, Dropped

\* There are no reads of no intents.
LEMMA NoReads == Len(Reads(<<>>)) = 0
<1>1. ASSUME NEW ids \in Seq(Owned \union Foreign), Len(ids) = 0
      PROVE  Len(Reads(ids)) = 0
  <2>1. Len(Reads(ids)) = 3 * Len(ids)
    BY ReadsAre
  <2>2. QED
    BY <1>1, <2>1
<1>2. <<>> \in Seq(Owned \union Foreign) /\ Len(<<>>) = 0
  OBVIOUS
<1>3. QED
  BY <1>1, <1>2

\* A request that ends, with a bundle or without.
LEMMA EndIsFaithful ==
    ASSUME Inductive, Faithful, NEW r \in Requests, NEW answer, req' = Ended(r, answer),
           req[r].pc # "done", UNCHANGED <<source, wiring, reader>>,
           DOMAIN bundles \subseteq DOMAIN bundles'
    PROVE  Faithful'
<1>1. DOMAIN req = Requests /\ RequestOK(r) /\ Placed(r) /\ Whole(r)
  BY DEF Inductive, FormOK, Faithful
<1>2. \A s \in Requests \ {r} : req'[s] = req[s]
  BY <1>1 DEF Ended
<1>3. CASE req[r].pc \in Storing
  <2> DEFINE x == [req[r] EXCEPT !.pc = "done", !.answer = answer, !.conn = FALSE, !.row = None]
  <2>1. req'[r] = x
    BY <1>1, <1>3 DEF Ended, Storing
  <2>2. x.ids = req[r].ids /\ x.got = req[r].got /\ x.todo = req[r].todo
    BY <1>1 DEF RequestOK, Fields
  <2> HIDE DEF x
  <2>3. req[r].todo = <<>>
    BY <1>1, <1>3 DEF Whole
  <2>4. Whole(r)'
    BY <2>1, <2>2, <2>3, StillWhole
  <2>5. QED
    BY <1>2, <2>1, <2>2, <2>4, OneReads
<1>4. CASE req[r].pc \notin Storing
  <2>1. req'[r] = [Idle EXCEPT !.pc = "done", !.answer = answer]
    BY <1>1, <1>4 DEF Ended, Storing
  <2>2. req'[r].ids = <<>> /\ req'[r].got = <<>> /\ req'[r].todo = <<>>
    BY <2>1 DEF Idle
  <2>3. r \notin DOMAIN bundles
    BY <1>1, <1>4 DEF Placed
  <2>4. Whole(r)'
    <3>1. <<>> \in Seq(Owned \union Foreign) /\ Len(<<>>) = 0 /\ DOMAIN <<>> = {}
      OBVIOUS
    <3>2. QED
      BY <2>2, <3>1, NoReads DEF Whole
  <2>5. QED
    BY <1>2, <2>3, <2>4, OneReads
<1>5. QED
  BY <1>3, <1>4

\* A request comes, with all its reads to make.
LEMMA ReceiveIsFaithful ==
    ASSUME Inductive, Faithful, NEW r \in Requests, ReceiveCreate(r)
    PROVE  Faithful'
<1>1. /\ DOMAIN req = Requests /\ req[r].pc = "idle" /\ Placed(r)
      /\ UNCHANGED <<now, source, wiring, bundles, objects, reader>>
  BY DEF Inductive, FormOK, ReceiveCreate, At
<1>2. PICK path \in {"rls", "plain"}, range \in TimeRanges, ids \in IdLists :
          req' = [req EXCEPT ![r] = Asked(r, path, range, ids)]
  BY DEF ReceiveCreate
<1> DEFINE x == Asked(r, path, range, ids)
<1>3. /\ x.pc \in {"begin", "collect"} /\ x.ids = ids /\ x.got = <<>>
      /\ x.todo = IF wiring.collector = "real" THEN Reads(ids) ELSE <<>>
  BY DEF Asked, Idle
<1>4. req'[r] = x /\ \A s \in Requests \ {r} : req'[s] = req[s]
  BY <1>1, <1>2
<1> HIDE DEF x
<1>5. ids \in Seq(Owned \union Foreign) /\ Reads(ids) \in Seq(ReadsToDo)
  BY ForensicsAssumption, ReadsCover
<1>6. Whole(r)'
  <2>1. Len(<<>>) = 0 /\ DOMAIN <<>> = {} /\ Len(Reads(ids)) \in Nat
    BY <1>5
  <2>2. \A n \in DOMAIN Reads(ids) : Reads(ids)[0 + n] = Reads(ids)[n]
    <3>1. DOMAIN Reads(ids) = 1..Len(Reads(ids))
      BY <1>5, LenProperties
    <3>2. \A n \in 1..Len(Reads(ids)) : 0 + n = n
      BY <2>1
    <3>3. QED
      BY <3>1, <3>2
  <2>3. /\ req'[r].ids = ids /\ req'[r].got = <<>> /\ req'[r].pc \notin Storing \union {"done"}
        /\ wiring' = wiring
        /\ wiring.collector = "real" => req'[r].todo = Reads(ids)
        /\ wiring.collector # "real" => req'[r].todo = <<>>
    BY <1>1, <1>3, <1>4 DEF Storing
  <2>4. wiring.collector = "real" =>
          /\ Len(Reads(ids)) = Len(req'[r].got) + Len(req'[r].todo)
          /\ \A n \in DOMAIN req'[r].got :
                Reads(ids)[n] = <<req'[r].got[n].intent, req'[r].got[n].kind>>
          /\ \A n \in DOMAIN req'[r].todo : Reads(ids)[Len(req'[r].got) + n] = req'[r].todo[n]
    BY <2>1, <2>2, <2>3
  <2>5. DOMAIN req'[r].got = {}
    BY <2>1, <2>3
  <2>6. QED
    BY <1>5, <2>3, <2>4, <2>5 DEF Whole
<1>7. r \notin DOMAIN bundles
  BY <1>1 DEF Placed, Storing
<1>8. QED
  BY <1>1, <1>4, <1>6, <1>7, OneReads

\* One read is made, of those that are left.
LEMMA CollectIsFaithful ==
    ASSUME Inductive, Faithful, NEW r \in Requests, Collect(r)
    PROVE  Faithful'
<1>1. /\ DOMAIN req = Requests /\ RequestOK(r) /\ req[r].pc = "collect" /\ req[r].todo # <<>>
      /\ Placed(r) /\ SourceOK /\ Whole(r)
      /\ UNCHANGED <<now, source, wiring, bundles, objects, reader>>
  BY DEF Inductive, FormOK, Collect, At, Faithful
<1> DEFINE i == Head(req[r].todo)[1]
           k == Head(req[r].todo)[2]
<1>2. i \in Owned
  BY DEF Collect
<1>3. PICK rows \in Listings(i, k, req[r].range) :
          req' = [req EXCEPT ![r].todo = Tail(@), ![r].got = Append(@, Read(i, k, rows))]
  BY DEF Collect
<1> DEFINE got == req[r].got
           todo == req[r].todo
           all == Reads(req[r].ids)
           read == Read(i, k, rows)
<1>4. /\ todo \in Seq(ReadsToDo) /\ got \in Seq(Reading)
      /\ Head(todo) \in ReadsToDo /\ Tail(todo) \in Seq(ReadsToDo)
  BY <1>1, HeadTailProperties DEF RequestOK
<1>5. k \in Range(Kinds) /\ Head(todo) = <<i, k>>
  BY <1>4 DEF ReadsToDo
<1> HIDE DEF i, k
<1>6. read \in Reading /\ Listed(read) /\ read.intent = i /\ read.kind = k
  <2>1. read \in Reading /\ Listed(read)
    BY <1>1, <1>2, <1>5, ListingIsListed
  <2>2. QED
    BY <2>1 DEF Read
<1> DEFINE x == [req[r] EXCEPT !.todo = Tail(@), !.got = Append(@, read)]
<1>7. /\ x.pc = "collect" /\ x.ids = req[r].ids
      /\ x.todo = Tail(todo) /\ x.got = Append(got, read)
  BY <1>1 DEF RequestOK, Fields
<1>8. req' = [req EXCEPT ![r] = x]
  BY <1>3
<1> HIDE DEF x, read, got, todo, all
<1>9. req'[r] = x /\ \A s \in Requests \ {r} : req'[s] = req[s]
  BY <1>1, <1>8
<1>10. /\ Len(got) \in Nat /\ DOMAIN got = 1..Len(got) /\ Len(todo) \in Nat /\ Len(todo) > 0
       /\ DOMAIN todo = 1..Len(todo) /\ todo[1] = <<i, k>>
       /\ Len(Tail(todo)) = Len(todo) - 1 /\ DOMAIN Tail(todo) = 1..(Len(todo) - 1)
       /\ \A n \in 1..(Len(todo) - 1) : Tail(todo)[n] = todo[n + 1]
  <2>1. todo # <<>>
    BY <1>1 DEF todo
  <2>2. QED
    BY <1>4, <1>5, <2>1
<1>11. PICK more : more = Append(got, read)
  OBVIOUS
<1>12. /\ Len(more) = Len(got) + 1 /\ DOMAIN more = 1..(Len(got) + 1)
       /\ more[Len(got) + 1] = read /\ \A n \in 1..Len(got) : more[n] = got[n]
  BY <1>4, <1>6, <1>11
<1>13. \A n \in 1..(Len(got) + 1) : n \in 1..Len(got) \/ n = Len(got) + 1
  BY <1>10
<1>14. \A n \in DOMAIN more : Listed(more[n])'
  <2>1. \A n \in DOMAIN got : Listed(got[n])
    BY <1>1 DEF Whole, got
  <2>2. \A n \in DOMAIN more : Listed(more[n])
    BY <1>6, <1>10, <1>12, <1>13, <2>1
  <2>3. QED
    BY <1>1, <2>2 DEF Listed, Ordered
<1>15. ASSUME wiring.collector = "real"
       PROVE  /\ Len(all) = Len(more) + Len(Tail(todo))
              /\ \A n \in DOMAIN more : all[n] = <<more[n].intent, more[n].kind>>
              /\ \A n \in DOMAIN Tail(todo) : all[Len(more) + n] = Tail(todo)[n]
  <2>1. /\ Len(all) = Len(got) + Len(todo)
        /\ \A n \in DOMAIN got : all[n] = <<got[n].intent, got[n].kind>>
        /\ \A n \in DOMAIN todo : all[Len(got) + n] = todo[n]
    BY <1>1, <1>15 DEF Whole, all, got, todo
  <2>2. Len(all) = Len(more) + Len(Tail(todo))
    <3>1. \A a, t \in Nat : a + t = (a + 1) + (t - 1)
      OBVIOUS
    <3>2. Len(more) = Len(got) + 1 /\ Len(Tail(todo)) = Len(todo) - 1
      BY <1>10, <1>12
    <3>3. Len(got) + Len(todo) = (Len(got) + 1) + (Len(todo) - 1)
      BY <1>10, <3>1
    <3>4. QED
      BY <2>1, <3>2, <3>3
  <2>3. all[Len(got) + 1] = <<i, k>>
    <3>1. 1 \in DOMAIN todo
      BY <1>10
    <3>2. QED
      BY <1>10, <2>1, <3>1
  <2>4. \A n \in DOMAIN more : all[n] = <<more[n].intent, more[n].kind>>
    BY <1>6, <1>10, <1>12, <1>13, <2>1, <2>3
  <2>5. ASSUME NEW n \in DOMAIN Tail(todo) PROVE all[Len(more) + n] = Tail(todo)[n]
    <3>1. n + 1 \in DOMAIN todo /\ Len(got) + (n + 1) = Len(more) + n /\ Tail(todo)[n] = todo[n + 1]
      BY <1>10, <1>12
    <3>2. all[Len(got) + (n + 1)] = todo[n + 1]
      BY <2>1, <3>1
    <3>3. QED
      BY <3>1, <3>2
  <2>6. QED
    BY <2>2, <2>4, <2>5
<1>16. Whole(r)'
  <2>1. /\ req'[r].ids = req[r].ids /\ req'[r].got = more /\ req'[r].todo = Tail(todo)
        /\ req'[r].pc = "collect" /\ wiring' = wiring
    BY <1>1, <1>7, <1>9, <1>11
  <2>2. req[r].ids \in Seq(Owned \union Foreign) /\ wiring.collector = "real"
    BY <1>1 DEF Whole
  <2>3. QED
    BY <1>14, <1>15, <2>1, <2>2 DEF Whole, Storing, all
<1>17. r \notin DOMAIN bundles
  BY <1>1 DEF Placed, Storing
<1>18. QED
  BY <1>1, <1>9, <1>16, <1>17, OneReads

\* A step that changes neither what r has read nor what it has still to read.
LEMMA GoesOn ==
    ASSUME Inductive, Faithful, NEW r \in Requests, UNCHANGED <<source, wiring, reader>>,
           DOMAIN bundles \subseteq DOMAIN bundles',
           NEW x, req' = [req EXCEPT ![r] = x],
           x.ids = req[r].ids, x.got = req[r].got, x.todo = req[r].todo,
           x.pc \in Storing \union {"done"} => req[r].todo = <<>>
    PROVE  Faithful'
<1>1. DOMAIN req = Requests
  BY DEF Inductive, FormOK
<1>2. req'[r] = x /\ \A s \in Requests \ {r} : req'[s] = req[s]
  BY <1>1
<1>3. UNCHANGED wiring /\ \A i \in Owned, k \in Range(Kinds) : source[i][k] \subseteq source'[i][k]
  OBVIOUS
<1>4. Whole(r)'
  BY <1>2, <1>3, StillWhole
<1>5. QED
  BY <1>2, <1>4, OneReads

\* The transaction begins, the row is written, the upload is made or repeated,
\* the row is marked in the transaction.
LEMMA StoringIsFaithful ==
    ASSUME Inductive, Faithful, NEW r \in Requests,
           \/ Begin(r) \/ CreateRow(r) \/ Put(r) \/ PutRetry(r)
           \/ MarkReady(r) /\ Rls(r)
    PROVE  Faithful'
<1>1. RequestOK(r) /\ Whole(r)
  BY DEF Inductive, FormOK, Faithful
<1>2. UNCHANGED <<source, wiring, reader>> /\ DOMAIN bundles \subseteq DOMAIN bundles'
  <2>1. DOMAIN bundles \subseteq DOMAIN bundles'
    BY BundlesStay DEF Step
  <2>2. QED
    BY <2>1 DEF Begin, CreateRow, Put, PutRetry, MarkReady
<1>3. PICK x : /\ req' = [req EXCEPT ![r] = x]
               /\ x.ids = req[r].ids /\ x.got = req[r].got /\ x.todo = req[r].todo
               /\ x.pc \in Storing \union {"done"} => req[r].todo = <<>>
  <2>1. CASE Begin(r)
    <3> DEFINE x == [req[r] EXCEPT !.pc = "collect", !.conn = TRUE]
    <3>1. req' = [req EXCEPT ![r] = x]
      BY <2>1 DEF Begin
    <3>2. x.ids = req[r].ids /\ x.got = req[r].got /\ x.todo = req[r].todo /\ x.pc = "collect"
      BY <1>1 DEF RequestOK, Fields
    <3> HIDE DEF x
    <3>3. QED
      BY <3>1, <3>2 DEF Storing
  <2>2. CASE CreateRow(r)
    <3>1. req[r].todo = <<>>
      BY <2>2 DEF CreateRow
    <3>2. PICK b : req' = [req EXCEPT ![r].pc = "put", ![r].row = b] \/ req' = [req EXCEPT ![r].pc = "put"]
      BY <2>2 DEF CreateRow, Stored
    <3>3. CASE req' = [req EXCEPT ![r].pc = "put", ![r].row = b]
      <4> DEFINE x == [req[r] EXCEPT !.pc = "put", !.row = b]
      <4>1. req' = [req EXCEPT ![r] = x]
        BY <3>3
      <4>2. x.ids = req[r].ids /\ x.got = req[r].got /\ x.todo = req[r].todo
        BY <1>1 DEF RequestOK, Fields
      <4> HIDE DEF x
      <4>3. QED
        BY <3>1, <4>1, <4>2
    <3>4. CASE req' = [req EXCEPT ![r].pc = "put"]
      <4> DEFINE x == [req[r] EXCEPT !.pc = "put"]
      <4>1. req' = [req EXCEPT ![r] = x]
        BY <3>4
      <4>2. x.ids = req[r].ids /\ x.got = req[r].got /\ x.todo = req[r].todo
        BY <1>1 DEF RequestOK, Fields
      <4> HIDE DEF x
      <4>3. QED
        BY <3>1, <4>1, <4>2
    <3>5. QED
      BY <3>2, <3>3, <3>4
  <2>3. CASE Put(r)
    <3> DEFINE x == [req[r] EXCEPT !.pc = "ready"]
    <3>1. req' = [req EXCEPT ![r] = x] /\ req[r].pc = "put"
      BY <2>3 DEF Put, At
    <3>2. x.ids = req[r].ids /\ x.got = req[r].got /\ x.todo = req[r].todo
      BY <1>1 DEF RequestOK, Fields
    <3> HIDE DEF x
    <3>3. QED
      BY <1>1, <3>1, <3>2 DEF Whole, Storing
  <2>4. CASE PutRetry(r)
    <3> DEFINE x == [req[r] EXCEPT !.tries = @ + 1]
    <3>1. req' = [req EXCEPT ![r] = x] /\ req[r].pc = "put"
      BY <2>4 DEF PutRetry, At
    <3>2. x.ids = req[r].ids /\ x.got = req[r].got /\ x.todo = req[r].todo
      BY <1>1 DEF RequestOK, Fields
    <3> HIDE DEF x
    <3>3. QED
      BY <1>1, <3>1, <3>2 DEF Whole, Storing
  <2>5. CASE MarkReady(r) /\ Rls(r)
    <3> DEFINE x == [req[r] EXCEPT !.pc = "commit", !.row.status = "ready"]
    <3>1. req' = [req EXCEPT ![r] = x] /\ req[r].pc = "ready"
      BY <2>5 DEF MarkReady, At
    <3>2. x.ids = req[r].ids /\ x.got = req[r].got /\ x.todo = req[r].todo
      BY <1>1 DEF RequestOK, Fields
    <3> HIDE DEF x
    <3>3. QED
      BY <1>1, <3>1, <3>2 DEF Whole, Storing
  <2>6. QED
    BY <2>1, <2>2, <2>3, <2>4, <2>5
<1>4. QED
  BY <1>2, <1>3, GoesOn

\* The other steps of a request end it.
LEMMA RequestIsFaithful ==
    ASSUME Inductive, Faithful, NEW r \in Requests,
           ReceiveCreate(r) \/ Step(r) \/ Dropped(r)
    PROVE  Faithful'
<1>1. DOMAIN bundles \subseteq DOMAIN bundles'
  BY BundlesStay
<1>2. CASE \/ BeginFails(r) \/ CollectFails(r) \/ CreateFails(r) \/ PutFails(r)
           \/ MarkReady(r) /\ ~Rls(r)
           \/ MarkFails(r) \/ Commit(r) \/ CommitFails(r) \/ Dropped(r)
  <2>1. PICK answer : req' = Ended(r, answer)
    BY <1>2 DEF BeginFails, CollectFails, CreateFails, PutFails, MarkReady, MarkFails, Commit,
                CommitFails, Dropped, Refused
  <2>2. UNCHANGED <<source, wiring, reader>> /\ req[r].pc # "done"
    BY <1>2 DEF BeginFails, CollectFails, CreateFails, PutFails, MarkReady, MarkFails, Commit,
                CommitFails, Dropped, At
  <2>3. QED
    BY <1>1, <2>1, <2>2, EndIsFaithful
<1>3. CASE Begin(r) \/ CreateRow(r) \/ Put(r) \/ PutRetry(r) \/ (MarkReady(r) /\ Rls(r))
  BY <1>3, StoringIsFaithful
<1>4. CASE ReceiveCreate(r)
  BY <1>4, ReceiveIsFaithful
<1>5. CASE Collect(r)
  BY <1>5, CollectIsFaithful
<1>6. QED
  BY <1>2, <1>3, <1>4, <1>5 DEF Step

\* A row is added to a table, under the next number.
LEMMA InsertNumbers ==
    ASSUME SourceOK, Numbered, NEW i \in Owned, NEW k \in Range(Kinds), Insert(i, k)
    PROVE  /\ Numbered'
           /\ \A j \in Owned, m \in Range(Kinds) : source[j][m] \subseteq source'[j][m]
<1> DEFINE S == source[i][k]
           n == Cardinality(S)
<1>1. PICK at : source' = [source EXCEPT ![i][k] = S \union {[no |-> n + 1, at |-> at]}]
  BY DEF Insert
<1>2. PICK x : x = [no |-> n + 1, at |-> at]
  OBVIOUS
<1>3. /\ IsFiniteSet(S) /\ n \in Nat
      /\ \A y, z \in S : y.no \in 1..n /\ (y.no = z.no => y = z)
  BY FS_CardinalityType DEF SourceOK, Numbered
<1>4. x.no = n + 1 /\ x \notin S
  BY <1>2, <1>3
<1>5. PICK grown : grown = S \union {x}
  OBVIOUS
<1>6. Cardinality(grown) = n + 1
  BY <1>3, <1>4, <1>5, FS_AddElement
<1>7. \A y, z \in grown : y.no \in 1..(n + 1) /\ (y.no = z.no => y = z)
  <2>1. \A y \in grown : y \in S \/ y = x
    BY <1>5
  <2>2. \A y \in S : y.no \in 1..(n + 1) /\ y.no # n + 1
    BY <1>3
  <2>3. n + 1 \in 1..(n + 1)
    BY <1>3
  <2>4. QED
    BY <1>3, <1>4, <2>1, <2>2, <2>3
<1>8. source' = [source EXCEPT ![i] = [source[i] EXCEPT ![k] = grown]]
  BY <1>1, <1>2, <1>5
<1> HIDE DEF S, n
<1>9. \A j \in Owned, m \in Range(Kinds) :
          source'[j][m] = IF j = i /\ m = k THEN grown ELSE source[j][m]
  BY <1>8 DEF SourceOK
<1>10. \A j \in Owned, m \in Range(Kinds) : source[j][m] \subseteq source'[j][m]
  BY <1>5, <1>9 DEF S
<1>11. Numbered'
  <2>1. ASSUME NEW j \in Owned, NEW m \in Range(Kinds)
        PROVE  \A y, z \in source'[j][m] :
                   y.no \in 1..Cardinality(source'[j][m]) /\ (y.no = z.no => y = z)
    <3>1. CASE j = i /\ m = k
      BY <1>6, <1>7, <1>9, <3>1
    <3>2. CASE ~(j = i /\ m = k)
      <4>1. source'[j][m] = source[j][m]
        BY <1>9, <3>2
      <4>2. QED
        BY <4>1 DEF Numbered
    <3>3. QED
      BY <3>1, <3>2
  <2>2. QED
    BY <2>1 DEF Numbered
<1>12. QED
  BY <1>10, <1>11

\* The tables grow, the clock goes on: what was listed stays so.
LEMMA ServiceIsFaithful ==
    ASSUME Inductive, Faithful,
           Tick \/ UNCHANGED vars \/ \E i \in Owned, k \in Range(Kinds) : Insert(i, k)
    PROVE  Faithful'
<1>1. UNCHANGED <<wiring, req, bundles, reader>>
  BY DEF Tick, Insert, vars
<1>2. Numbered' /\ \A j \in Owned, m \in Range(Kinds) : source[j][m] \subseteq source'[j][m]
  <2>1. SourceOK /\ Numbered
    BY DEF Inductive, FormOK, Faithful
  <2>2. CASE UNCHANGED source
    BY <2>1, <2>2 DEF Numbered
  <2>3. CASE \E i \in Owned, k \in Range(Kinds) : Insert(i, k)
    BY <2>1, <2>3, InsertNumbers
  <2>4. QED
    BY <2>2, <2>3 DEF Tick, vars
<1>3. ASSUME NEW r \in Requests PROVE Whole(r)'
  <2>1. req'[r].pc \in Storing \union {"done"} => req[r].todo = <<>>
    BY <1>1 DEF Faithful, Whole
  <2>2. QED
    BY <1>1, <1>2, <2>1, StillWhole
<1>4. ASSUME NEW d \in Readers PROVE Truthful(d)'
  BY <1>1, StillTruthful
<1>5. QED
  BY <1>2, <1>3, <1>4 DEF Faithful

\* What is to be known of what one reader does.
LEMMA OneLooks ==
    ASSUME Inductive, Faithful, NEW d \in Readers, NEW x, reader' = [reader EXCEPT ![d] = x],
           UNCHANGED <<source, wiring, req, bundles>>,
           x.pc = "verify" \/ x.answer \in {"verified", "differs"} =>
               x.bundle \in Requests \intersect DOMAIN bundles,
           x.answer = "verified" => x.same,
           x.answer = "differs" => ~x.same \/ x.tied \/ Repeats(req[x.bundle].ids)
    PROVE  Faithful'
<1>1. DOMAIN reader = Readers
  BY DEF Inductive, FormOK
<1>2. reader'[d] = x /\ \A e \in Readers : e # d => reader'[e] = reader[e]
  BY <1>1
<1>3. Truthful(d)'
  BY <1>2 DEF Truthful
<1>4. ASSUME NEW e \in Readers, e # d PROVE Truthful(e)'
  BY <1>2, <1>4, StillTruthful
<1>5. Numbered'
  BY DEF Faithful, Numbered
<1>6. ASSUME NEW r \in Requests PROVE Whole(r)'
  <2>1. req'[r].pc \in Storing \union {"done"} => req[r].todo = <<>>
    BY DEF Faithful, Whole
  <2>2. QED
    BY <2>1, StillWhole
<1>7. QED
  BY <1>3, <1>4, <1>5, <1>6 DEF Faithful

\* A reader loads the row, takes the bytes, or has the sections compared.
LEMMA ReaderIsFaithful ==
    ASSUME Inductive, Faithful, NEW d \in Readers, LoadRow(d) \/ Download(d) \/ Verify(d)
    PROVE  Faithful'
<1>1. /\ DOMAIN reader[d] = ReaderFields /\ Truthful(d)
      /\ UNCHANGED <<source, wiring, req, bundles>>
  BY DEF Inductive, FormOK, ReaderOK, Faithful, LoadRow, Download, Verify
<1>2. CASE LoadRow(d)
  <2>1. PICK b \in Requests, pc \in {"download", "verify"} :
          reader' = [reader EXCEPT ![d] =
              IF b \notin DOMAIN bundles
              THEN [Resting EXCEPT !.pc = "done", !.bundle = b, !.answer = "not_found"]
              ELSE [Resting EXCEPT !.pc = pc, !.bundle = b, !.status = bundles[b].status]]
    BY <1>2 DEF LoadRow
  <2>2. CASE b \notin DOMAIN bundles
    <3> DEFINE x == [Resting EXCEPT !.pc = "done", !.bundle = b, !.answer = "not_found"]
    <3>1. reader' = [reader EXCEPT ![d] = x]
      BY <2>1, <2>2
    <3>2. x.pc = "done" /\ x.answer = "not_found"
      BY DEF Resting
    <3> HIDE DEF x
    <3>3. QED
      BY <1>1, <3>1, <3>2, OneLooks
  <2>3. CASE b \in DOMAIN bundles
    <3> DEFINE x == [Resting EXCEPT !.pc = pc, !.bundle = b, !.status = bundles[b].status]
    <3>1. reader' = [reader EXCEPT ![d] = x]
      BY <2>1, <2>3
    <3>2. x.bundle = b /\ x.answer = None
      BY DEF Resting
    <3> HIDE DEF x
    <3>3. QED
      BY <1>1, <2>3, <3>1, <3>2, ForensicsAssumption, OneLooks
  <2>4. QED
    BY <2>2, <2>3
<1>3. CASE Download(d)
  <2>1. PICK a \in {"not_found", "bytes"} : reader' = [reader EXCEPT ![d].pc = "done", ![d].answer = a]
    BY <1>3 DEF Download
  <2> DEFINE x == [reader[d] EXCEPT !.pc = "done", !.answer = a]
  <2>2. reader' = [reader EXCEPT ![d] = x]
    BY <2>1
  <2>3. x.pc = "done" /\ x.answer = a
    BY <1>1 DEF ReaderFields
  <2> HIDE DEF x
  <2>4. QED
    BY <1>1, <2>2, <2>3, OneLooks
<1>4. CASE Verify(d)
  <2>1. PICK b : b = reader[d].bundle
    OBVIOUS
  <2>2. b \in Requests \intersect DOMAIN bundles
    BY <1>1, <1>4, <2>1 DEF Truthful, Verify
  <2>3. CASE bundles[b].status # "ready"
    <3> DEFINE x == [reader[d] EXCEPT !.pc = "done", !.answer = "not_ready"]
    <3>1. reader' = [reader EXCEPT ![d] = x]
      BY <1>4, <2>1, <2>3 DEF Verify
    <3>2. x.pc = "done" /\ x.answer = "not_ready"
      BY <1>1 DEF ReaderFields
    <3> HIDE DEF x
    <3>3. QED
      BY <1>1, <3>1, <3>2, OneLooks
  <2>4. CASE bundles[b].status = "ready"
    <3>1. PICK got \in Recollections(b) : reader' = [reader EXCEPT ![d].pc = "done",
              ![d].same = RowsOf(got) = RowsOf(req[b].got),
              ![d].tied = Tied(RowsOf(got)),
              ![d].answer = IF Differing(bundles[b], Prepared(got)) = {}
                            THEN "verified" ELSE "differs"]
      BY <1>4, <2>1, <2>4 DEF Verify
    <3> DEFINE x == [reader[d] EXCEPT !.pc = "done",
              !.same = RowsOf(got) = RowsOf(req[b].got),
              !.tied = Tied(RowsOf(got)),
              !.answer = IF Differing(bundles[b], Prepared(got)) = {}
                         THEN "verified" ELSE "differs"]
    <3>2. reader' = [reader EXCEPT ![d] = x]
      BY <3>1
    <3>3. /\ x.bundle = b /\ x.pc = "done"
          /\ x.same = (RowsOf(got) = RowsOf(req[b].got)) /\ x.tied = Tied(RowsOf(got))
          /\ x.answer = IF Differing(bundles[b], Prepared(got)) = {} THEN "verified" ELSE "differs"
      BY <1>1, <2>1 DEF ReaderFields
    <3> HIDE DEF x
    <3>4. /\ x.answer = "verified" => x.same
          /\ x.answer = "differs" => ~x.same \/ x.tied \/ Repeats(req[x.bundle].ids)
      BY <2>2, <3>3, Verdict
    <3>5. QED
      BY <1>1, <2>2, <3>2, <3>3, <3>4, OneLooks
  <2>5. QED
    BY <2>3, <2>4
<1>5. QED
  BY <1>2, <1>3, <1>4

\* It holds of the empty service.
LEMMA FaithfulInit == Init => Faithful
<1> SUFFICES ASSUME Init PROVE Faithful
  OBVIOUS
<1>1. Numbered
  BY DEF Init, Numbered
<1>2. ASSUME NEW r \in Requests PROVE Whole(r)
  <2>1. /\ req[r].pc = "idle" /\ req[r].ids = <<>> /\ req[r].got = <<>> /\ req[r].todo = <<>>
    BY DEF Init, Idle
  <2>2. <<>> \in Seq(Owned \union Foreign) /\ Len(<<>>) = 0 /\ DOMAIN <<>> = {}
    OBVIOUS
  <2>3. QED
    BY <2>1, <2>2, NoReads DEF Whole
<1>3. ASSUME NEW d \in Readers PROVE Truthful(d)
  <2>1. reader[d].pc = "idle" /\ reader[d].answer = None
    BY DEF Init, Resting
  <2>2. QED
    BY <2>1, ForensicsAssumption DEF Truthful
<1>4. QED
  BY <1>1, <1>2, <1>3 DEF Faithful

\* Every step keeps it.
LEMMA FaithfulStep == Inductive /\ Faithful /\ [Next]_vars => Faithful'
<1> SUFFICES ASSUME Inductive, Faithful, [Next]_vars PROVE Faithful'
  OBVIOUS
<1>1. ASSUME NEW r \in Requests, ReceiveCreate(r) \/ Step(r) \/ Dropped(r) PROVE Faithful'
  BY <1>1, RequestIsFaithful
<1>2. ASSUME NEW d \in Readers, LoadRow(d) \/ Download(d) \/ Verify(d) PROVE Faithful'
  BY <1>2, ReaderIsFaithful
<1>3. CASE Tick \/ UNCHANGED vars \/ \E i \in Owned, k \in Range(Kinds) : Insert(i, k)
  BY <1>3, ServiceIsFaithful
<1>4. QED
  BY <1>1, <1>2, <1>3 DEF Next

\* It always holds.
LEMMA AlwaysFaithful == Spec => []Faithful
  BY FaithfulInit, FaithfulStep, AlwaysInductive, PTL DEF Spec

\* A replay verification says "verified" only of a bundle whose rows are those the
\* client sent, for any intents, ranges, rows and citations and however the reads
\* of either collection were torn; and it says "differs" of the same rows only
\* where two audit events of one intent have one timestamp, so that the database
\* may list them either way, or where the bundle names an intent twice.
THEOREM ReplayAlwaysTellsTheTruth == Spec => []ReplayTellsTheTruth
<1>1. Faithful => ReplayTellsTheTruth
  BY DEF Faithful, Truthful, ReplayTellsTheTruth
<1>2. QED
  BY <1>1, AlwaysFaithful, PTL

=============================================================================
