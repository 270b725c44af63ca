----------------------------- MODULE MCKeySlots -----------------------------
\* Instances of KeySlots for TLC.
EXTENDS KeySlots

CONSTANTS r1, r2, a1, a2, ch

\* One channel owns every key.
MCCredsOf == [c \in Channels |-> Creds]

MCArgs(limit, wait, excluded, bypass) ==
    [channel |-> ch, limit |-> limit, wait |-> wait, excluded |-> excluded,
     bypass |-> bypass]

\* A last candidate that may wait, and a request on an unlimited channel that has
\* failed on key a1 before and ignores cooldowns.
MCCalls == {MCArgs(1, TRUE, {}, FALSE), MCArgs(0, FALSE, {a1}, TRUE)}
=============================================================================
