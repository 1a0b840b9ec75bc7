--------------------------- MODULE MCApplyPipeline ---------------------------
EXTENDS ApplyPipeline

CONSTANTS n1, n2

\* The same two nodes, in either order.
OppositeOrders == {<<n1, n2>>, <<n2, n1>>}
=============================================================================
