----------------------------- MODULE MCForensics -----------------------------
EXTENDS Forensics

CONSTANTS mine, theirs

\* The tenant's intent, alone, with one of another tenant, and named twice.
OwnMixedTwice == {<<mine>>, <<mine, theirs>>, <<mine, mine>>}

\* Two audit events, so that they can share an instant; one snapshot; no version,
\* of which a manifest says no more than of a snapshot.
TwoEvents ==
    [k \in Range(Kinds) |->
        CASE k = "events" -> 2 [] k = "snapshots" -> 1 [] k = "versions" -> 0]

FirstAndUpsideDown == {[from |-> 0, to |-> 0], [from |-> 1, to |-> 0]}
=============================================================================
