--------------------------- MODULE MCUsageLedger ---------------------------
\* Instances of UsageLedger for TLC: one worker, one user with one key; every
\* request of the key costs 1.
EXTENDS UsageLedger

CONSTANTS n1, r1, r2, k1, u1

MCKeyOf == [r \in Requests |-> k1]
MCOwnerOf == [k \in Keys |-> u1]
MCCost == [r \in Requests |-> 1]
=============================================================================
