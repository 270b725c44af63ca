------------------------- MODULE ExactlyOnceBilling -------------------------
(***************************************************************************)
(* What the cluster's accounting promises, without nodes, batches, retries *)
(* or crashes: a priced request that was served becomes owed, an owed      *)
(* request is settled once, and settling it is the only thing that takes   *)
(* money out of an account.  Only a request served and settled in the same *)
(* step is refused when the balance does not cover it; a debt that was     *)
(* already incurred is always collected, below zero if need be.            *)
(***************************************************************************)
EXTENDS Integers, FiniteSets, FiniteSetsExt

CONSTANTS Requests, Users, Payer, Price, Opening

VARIABLES owed, paid, balance

vars == <<owed, paid, balance>>

PriceOf(r) == Price[r]
Due(S, u) == MapThenSumSet(PriceOf, {r \in S : Payer[r] = u})

Init ==
    /\ owed = {} /\ paid = {}
    /\ balance = [u \in Users |-> Opening]

\* A worker has served the request; the account will be charged later.
Serve(r) ==
    /\ r \notin owed \cup paid
    /\ owed' = owed \cup {r}
    /\ UNCHANGED <<paid, balance>>

\* A set of owed requests is collected at once.
Settle(S) ==
    /\ S # {}
    /\ owed' = owed \ S
    /\ paid' = paid \cup S
    /\ balance' = [u \in Users |-> balance[u] - Due(S, u)]

\* The master serves and charges in one transaction, within the balance.
ServeAndSettle(r) ==
    /\ r \notin owed \cup paid
    /\ balance[Payer[r]] >= Price[r]
    /\ paid' = paid \cup {r}
    /\ balance' = [balance EXCEPT ![Payer[r]] = @ - Price[r]]
    /\ UNCHANGED owed

Deposit(u) ==
    /\ balance' = [balance EXCEPT ![u] = @ + 1]
    /\ UNCHANGED <<owed, paid>>

Next ==
    \/ \E r \in Requests : Serve(r) \/ ServeAndSettle(r)
    \/ \E S \in SUBSET owed : Settle(S)
    \/ \E u \in Users : Deposit(u)

Spec == Init /\ [][Next]_vars
=============================================================================
