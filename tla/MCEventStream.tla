---------------------------- MODULE MCEventStream ----------------------------
EXTENDS EventStream, TLC

CONSTANTS e1, e2, e3

=============================================================================
