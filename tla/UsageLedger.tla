---------------------------- MODULE UsageLedger ----------------------------
(***************************************************************************)
(* The money path of a cluster: worker nodes serve requests against a      *)
(* mirror of the master's accounts, keep one usage row per request in a    *)
(* local outbox (SQLite usage_logs), post the rows in batches, and delete  *)
(* a row only after the master has acknowledged it.  The master inserts    *)
(* the rows and settles them in one transaction that is idempotent per     *)
(* batch and per request.  A snapshot of the master's accounts replaces a  *)
(* worker's mirror, but only after the worker's outbox has been drained    *)
(* under ledgerMu.                                                         *)
(*                                                                         *)
(* One action is one database transaction or one HTTP exchange half; the   *)
(* worker can fail between any two of them.                                *)
(***************************************************************************)
EXTENDS Integers, FiniteSets, FiniteSetsExt

CONSTANTS
    Nodes,              \* worker nodes
    Master,             \* the master, which relays requests as well
    Requests,           \* request ids (relay.newRequestID: globally unique)
    Keys, Users,        \* API keys and the accounts that own them
    KeyOf, OwnerOf,     \* request -> key, key -> user
    Cost,               \* price of each request, 0 for a free model
    InitBalance,        \* balance every account starts with
    MaxCredit,          \* bound: top-ups per account
    BatchSize,          \* AIFERRY_FLUSH_BATCH_SIZE
    DeleteChunk,        \* rows per DELETE statement (200 in the code)
    BootstrapRequired,  \* AIFERRY_BOOTSTRAP_REQUIRED
    Removable,          \* bound: keys, users and nodes an admin may remove
    MaxFaults           \* bound: crashes, timeouts and database errors

ASSUME ConstantsAssumption ==
    /\ Master \notin Nodes
    /\ KeyOf \in [Requests -> Keys]
    /\ OwnerOf \in [Keys -> Users]
    /\ Cost \in [Requests -> Nat]
    /\ InitBalance \in Nat /\ MaxCredit \in Nat /\ MaxFaults \in Nat
    /\ BatchSize \in Nat \ {0} /\ DeleteChunk \in Nat \ {0}
    /\ BootstrapRequired \in BOOLEAN
    /\ Removable \subseteq Keys \cup Users \cup Nodes

\* A behaviour has finitely many requests, so ids and costs are numbers.
ASSUME RequestsAssumption == IsFiniteSet(Requests)

UserOf(r) == OwnerOf[KeyOf[r]]
CostOf(r) == Cost[r]
TotalCost(S) == MapThenSumSet(CostOf, S)

RowsOfUser(S, u) == {r \in S : UserOf(r) = u}
RowsOfKey(S, k)  == {r \in S : KeyOf[r] = k}

(***************************************************************************)
(* A book holds the accounts of one database: the balances (users.balance),*)
(* the key totals (api_keys.spent_amount), the keys and users that are not *)
(* deleted.  The fields debited and credited are history: the rows the     *)
(* balances account for and the top-ups they contain.                      *)
(***************************************************************************)
Book == [bal: [Users -> Int], spent: [Keys -> Int],
         keys: SUBSET Keys, users: SUBSET Users,
         debited: SUBSET Requests, credited: [Users -> 0..MaxCredit]]

VARIABLES
    outcome,   \* request -> "open" | "active" | "charged" | "free" | "dropped"
    home,      \* request -> the node that serves it
    rowId,     \* request -> id of its outbox row (0: no row)
    pending,   \* worker -> its outbox
    mirror,    \* worker -> its copy of the master's book
    up,        \* worker -> it accepts requests
    lock,      \* worker -> holder of ledgerMu: "free" | "usage" | "sync"
    step,      \* worker -> where the holder is
    batch,     \* worker -> rows of the batch being posted
    left,      \* worker -> acknowledged rows not yet deleted
    snap,      \* worker -> the snapshot received, not yet applied
    late,      \* posts the worker gave up on that may still arrive
    batches,   \* master: cluster_usage_batches
    logs,      \* master: usage_logs
    book,      \* master: accounts
    billed,    \* history: times the master debited each request
    revoked,   \* master: nodes with status 0
    faults     \* crashes, timeouts and database errors so far

worker   == <<pending, mirror, up, lock, step, batch, left, snap>>
master   == <<batches, logs, book, billed, revoked>>
requests == <<outcome, home, rowId>>
vars     == <<requests, worker, late, master, faults>>

Recorded == {"charged", "free"}

\* The book after the rows S are debited (user.debit) and added to the
\* spending of their keys (apikey.addSpend); free rows change nothing.
Debit(b, S) ==
    [b EXCEPT !.bal = [u \in Users |-> b.bal[u] - TotalCost(RowsOfUser(S, u))],
              !.spent = [k \in Keys |-> b.spent[k] + TotalCost(RowsOfKey(S, k))],
              !.debited = b.debited \cup S]

\* The k rows of S with the lowest ids, as ORDER BY id LIMIT k.
Lowest(S, k) ==
    {r \in S : Cardinality({q \in S : rowId[q] < rowId[r]}) < k}

\* stableBatchID hashes the ordered (id, request_id) pairs: the same rows
\* always give the same identifier, different rows a different one.
BatchID(n, rows) == <<n, rows>>

EmptyBook ==
    [bal |-> [u \in Users |-> InitBalance], spent |-> [k \in Keys |-> 0],
     keys |-> Keys, users |-> Users, debited |-> {},
     credited |-> [u \in Users |-> 0]]

Init ==
    /\ outcome = [r \in Requests |-> "open"]
    /\ home = [r \in Requests |-> Master]
    /\ rowId = [r \in Requests |-> 0]
    /\ pending = [n \in Nodes |-> {}]
    /\ mirror = [n \in Nodes |-> EmptyBook]
    /\ up = [n \in Nodes |-> TRUE]
    /\ lock = [n \in Nodes |-> "free"]
    /\ step = [n \in Nodes |-> "idle"]
    /\ batch = [n \in Nodes |-> {}]
    /\ left = [n \in Nodes |-> {}]
    /\ snap = [n \in Nodes |-> EmptyBook]
    /\ late = {}
    /\ batches = {} /\ logs = {}
    /\ book = EmptyBook
    /\ billed = [r \in Requests |-> 0]
    /\ revoked = {}
    /\ faults = 0

-----------------------------------------------------------------------------
(* Serving requests *)

\* A request is authenticated against the book of the node that serves it.
Authenticated(b, r) == KeyOf[r] \in b.keys /\ UserOf(r) \in b.users

BookOf(n) == IF n = Master THEN book ELSE mirror[n]

\* The request passes authentication and is forwarded upstream.
Begin(n, r) ==
    /\ outcome[r] = "open"
    /\ n \in Nodes => up[n]
    /\ Authenticated(BookOf(n), r)
    /\ outcome' = [outcome EXCEPT ![r] = "active"]
    /\ home' = [home EXCEPT ![r] = n]
    /\ UNCHANGED <<rowId, worker, late, master, faults>>

\* Mutant: the balance is not compared with the amount.
MutChargeable(b, r) == UserOf(r) \in b.users /\ KeyOf[r] \in b.keys

\* users.Debit then AddSpend succeed on book b (both accept a zero amount).
Chargeable(b, r) ==
    Cost[r] = 0 \/ /\ UserOf(r) \in b.users /\ b.bal[UserOf(r)] >= Cost[r]
                   /\ KeyOf[r] \in b.keys

\* The charge fails for another reason than an insufficient balance: the
\* transaction is rolled back and no row is written.
ChargeBroken(b, r) ==
    Cost[r] > 0 /\ \/ UserOf(r) \notin b.users
                   \/ b.bal[UserOf(r)] >= Cost[r] /\ KeyOf[r] \notin b.keys

\* WithWorkerLedger: a worker charges and records while nobody holds ledgerMu.
LedgerFree(n) == lock[n] = "free"

\* A new outbox row of worker n: AUTOINCREMENT ids follow insertion order.
NextRowId(n) ==
    1 + Cardinality({q \in Requests : home[q] = n /\ outcome[q] \in Recorded})

AddRow(n, r, result) ==
    /\ outcome' = [outcome EXCEPT ![r] = result]
    /\ rowId' = [rowId EXCEPT ![r] = NextRowId(n)]
    /\ pending' = [pending EXCEPT ![n] = @ \cup {r}]
    /\ UNCHANGED <<home, up, lock, step, batch, left, snap, late, master, faults>>

\* A billable answer: debit and row in one local transaction, under ledgerMu.
RecordCharged(n, r) ==
    /\ outcome[r] = "active" /\ home[r] = n /\ LedgerFree(n)
    /\ Chargeable(mirror[n], r)
    /\ mirror' = [mirror EXCEPT ![n] = Debit(@, {r})]
    /\ AddRow(n, r, "charged")

\* A failed, truncated, unpriced or own-channel answer, or an insufficient
\* balance (402): the row is written and nothing is debited.
RecordFree(n, r) ==
    /\ outcome[r] = "active" /\ home[r] = n /\ LedgerFree(n)
    /\ UNCHANGED mirror
    /\ AddRow(n, r, "free")

\* Audio rows are written without taking ledgerMu, and never charged.
RecordAudio(n, r) ==
    /\ outcome[r] = "active" /\ home[r] = n
    /\ UNCHANGED mirror
    /\ AddRow(n, r, "free")

RecordDropped(n, r) ==
    /\ outcome[r] = "active" /\ home[r] = n /\ LedgerFree(n)
    /\ ChargeBroken(mirror[n], r)
    /\ outcome' = [outcome EXCEPT ![r] = "dropped"]
    /\ UNCHANGED <<home, rowId, worker, late, master, faults>>

\* The master's own traffic: the row goes straight to usage_logs.
MasterRecordCharged(r) ==
    /\ outcome[r] = "active" /\ home[r] = Master
    /\ UserOf(r) \in book.users
    /\ Chargeable(book, r)
    /\ book' = Debit(book, {r})
    /\ billed' = [billed EXCEPT ![r] = @ + 1]
    /\ outcome' = [outcome EXCEPT ![r] = "charged"]
    /\ logs' = logs \cup {r}
    /\ UNCHANGED <<home, rowId, worker, late, batches, revoked, faults>>

MasterRecordFree(r) ==
    /\ outcome[r] = "active" /\ home[r] = Master
    /\ UserOf(r) \in book.users
    /\ outcome' = [outcome EXCEPT ![r] = "free"]
    /\ logs' = logs \cup {r}
    /\ UNCHANGED <<home, rowId, worker, late, batches, book, billed, revoked,
                   faults>>

\* The row of a user deleted meanwhile violates a foreign key.
MasterRecordDropped(r) ==
    /\ outcome[r] = "active" /\ home[r] = Master
    /\ ChargeBroken(book, r) \/ UserOf(r) \notin book.users
    /\ outcome' = [outcome EXCEPT ![r] = "dropped"]
    /\ UNCHANGED <<home, rowId, worker, late, master, faults>>

-----------------------------------------------------------------------------
(* The worker's flush and sync, each under ledgerMu from start to end *)

\* flushUsage: read the oldest rows and post them.
PostBatch(n) ==
    /\ batch' = [batch EXCEPT ![n] = Lowest(pending[n], BatchSize)]
    /\ step' = [step EXCEPT ![n] = "posted"]

FlushBegin(n) ==
    /\ up[n] /\ lock[n] = "free" /\ pending[n] # {}
    /\ lock' = [lock EXCEPT ![n] = "usage"]
    /\ PostBatch(n)
    /\ UNCHANGED <<requests, pending, mirror, up, left, snap, late, master, faults>>

\* SyncOnce takes the lock; at start-up EnsureRegistered must succeed first.
SyncBegin(n) ==
    /\ lock[n] = "free"
    /\ up[n] \/ n \notin revoked
    /\ lock' = [lock EXCEPT ![n] = "sync"]
    /\ step' = [step EXCEPT ![n] = "drain"]
    /\ UNCHANGED <<requests, pending, mirror, up, batch, left, snap, late, master,
                   faults>>

\* Mutant: the snapshot is asked for without draining the outbox.
MutSyncDrain(n) ==
    /\ step[n] = "drain"
    /\ step' = [step EXCEPT ![n] = "fetch"]
    /\ UNCHANGED <<requests, pending, mirror, up, lock, batch, left, snap, late,
                   master, faults>>

\* The drain loop of SyncOnce: flush while rows are pending, then ask for a
\* snapshot.
SyncDrain(n) ==
    /\ step[n] = "drain"
    /\ IF pending[n] # {}
         THEN PostBatch(n)
         ELSE step' = [step EXCEPT ![n] = "fetch"] /\ UNCHANGED batch
    /\ UNCHANGED <<requests, pending, mirror, up, lock, left, snap, late, master,
                   faults>>

\* Mutant: an error path returns without unlocking.
MutGiveUp(n) ==
    /\ step' = [step EXCEPT ![n] = "idle"]
    /\ batch' = [batch EXCEPT ![n] = {}]
    /\ left' = [left EXCEPT ![n] = {}]
    /\ up' = [up EXCEPT ![n] = @ \/ ~BootstrapRequired]
    /\ UNCHANGED <<requests, pending, mirror, lock, snap, master>>

\* Any error makes FlushUsage or SyncOnce return, which unlocks ledgerMu.  A
\* worker that was starting up serves anyway if bootstrap is not required.
GiveUp(n) ==
    /\ lock' = [lock EXCEPT ![n] = "free"]
    /\ step' = [step EXCEPT ![n] = "idle"]
    /\ batch' = [batch EXCEPT ![n] = {}]
    /\ left' = [left EXCEPT ![n] = {}]
    /\ up' = [up EXCEPT ![n] = @ \/ ~BootstrapRequired]
    /\ UNCHANGED <<requests, pending, mirror, snap, master>>

\* The master answered with another status than 200.
Refused(n) ==
    /\ step[n] = "refused"
    /\ GiveUp(n)
    /\ UNCHANGED <<late, faults>>

\* A timeout, a lost answer or a local database error.  A post the master has
\* not processed may still reach it later.
Fail(n) ==
    /\ step[n] \in {"posted", "acked", "delete", "fetch", "apply"}
    /\ faults < MaxFaults
    /\ faults' = faults + 1
    /\ late' = IF step[n] = "posted" THEN late \cup {BatchID(n, batch[n])} ELSE late
    /\ GiveUp(n)

\* The worker process dies: its database survives, its requests do not.
Crash(n) ==
    /\ faults < MaxFaults
    /\ faults' = faults + 1
    /\ late' = IF step[n] = "posted" THEN late \cup {BatchID(n, batch[n])} ELSE late
    /\ outcome' = [r \in Requests |-> IF outcome[r] = "active" /\ home[r] = n
                                        THEN "dropped" ELSE outcome[r]]
    /\ up' = [up EXCEPT ![n] = FALSE]
    /\ lock' = [lock EXCEPT ![n] = "free"]
    /\ step' = [step EXCEPT ![n] = "idle"]
    /\ batch' = [batch EXCEPT ![n] = {}]
    /\ left' = [left EXCEPT ![n] = {}]
    /\ UNCHANGED <<home, rowId, pending, mirror, snap, master>>

\* Mutant: the status of the answer is not looked at.
MutFlushAck(n) ==
    /\ step[n] \in {"acked", "refused"}
    /\ left' = [left EXCEPT ![n] = batch[n]]
    /\ step' = [step EXCEPT ![n] = "delete"]
    /\ UNCHANGED <<requests, pending, mirror, up, lock, batch, snap, late, master,
                   faults>>

\* The acknowledgement arrives: deleteUsageRows starts.
FlushAck(n) ==
    /\ step[n] = "acked"
    /\ left' = [left EXCEPT ![n] = batch[n]]
    /\ step' = [step EXCEPT ![n] = "delete"]
    /\ UNCHANGED <<requests, pending, mirror, up, lock, batch, snap, late, master,
                   faults>>

\* One DELETE of a chunk of ids.  After the last one FlushUsage returns and
\* SyncOnce counts again.
DeleteRows(n) ==
    LET chunk == Lowest(left[n], DeleteChunk)
        done  == left[n] \ chunk = {}
    IN  /\ step[n] = "delete"
        /\ pending' = [pending EXCEPT ![n] = @ \ chunk]
        /\ left' = [left EXCEPT ![n] = @ \ chunk]
        /\ step' = [step EXCEPT ![n] = IF ~done THEN "delete"
                                       ELSE IF lock[n] = "sync" THEN "drain"
                                       ELSE "idle"]
        /\ lock' = [lock EXCEPT ![n] = IF done /\ @ = "usage" THEN "free" ELSE @]
        /\ batch' = [batch EXCEPT ![n] = IF done THEN {} ELSE @]
        /\ UNCHANGED <<requests, mirror, up, snap, late, master, faults>>

\* applySnapshot replaces the mirror in one transaction; the worker serves.
ApplySnapshot(n) ==
    /\ step[n] = "apply"
    /\ mirror' = [mirror EXCEPT ![n] = snap[n]]
    /\ up' = [up EXCEPT ![n] = TRUE]
    /\ lock' = [lock EXCEPT ![n] = "free"]
    /\ step' = [step EXCEPT ![n] = "idle"]
    /\ UNCHANGED <<requests, pending, batch, left, snap, late, master, faults>>

-----------------------------------------------------------------------------
(* The master's handlers and administration *)

Replayed(n, rows) == BatchID(n, rows) \in batches

\* Mutant: rows that are already in usage_logs are settled again.
MutFresh(rows) == rows

\* Rows not yet in usage_logs, and those of them the master must settle.
Fresh(rows) == rows \ logs
ToBill(rows) == {r \in Fresh(rows) : outcome[r] = "charged" /\ Cost[r] > 0}

\* Every row can be inserted (its user exists) and every charged row settled
\* (its user exists, its key is not deleted).
Acceptable(rows) ==
    /\ \A r \in Fresh(rows) : UserOf(r) \in book.users
    /\ \A r \in ToBill(rows) : KeyOf[r] \in book.keys

\* HandleUsage: claim the batch, insert, settle; all or nothing.
HandleUsage(n, rows) ==
    /\ n \notin revoked
    /\ Replayed(n, rows) \/ Acceptable(rows)
    /\ IF Replayed(n, rows)
         THEN UNCHANGED <<batches, logs, book, billed>>
         ELSE /\ batches' = batches \cup {BatchID(n, rows)}
              /\ logs' = logs \cup rows
              /\ book' = Debit(book, ToBill(rows))
              /\ billed' = [r \in Requests |->
                              billed[r] + IF r \in ToBill(rows) THEN 1 ELSE 0]
    /\ UNCHANGED revoked

MasterUsage(n) ==
    /\ step[n] = "posted"
    /\ HandleUsage(n, batch[n])
    /\ step' = [step EXCEPT ![n] = "acked"]
    /\ UNCHANGED <<requests, pending, mirror, up, lock, batch, left, snap, late,
                   faults>>

\* The node is revoked (401) or a row cannot be accepted (400).
MasterRefuse(n) ==
    /\ \/ /\ step[n] = "posted"
          /\ n \in revoked \/ ~(Replayed(n, batch[n]) \/ Acceptable(batch[n]))
       \/ step[n] = "fetch" /\ n \in revoked
    /\ step' = [step EXCEPT ![n] = "refused"]
    /\ UNCHANGED <<requests, pending, mirror, up, lock, batch, left, snap, late,
                   master, faults>>

\* A post the worker gave up on is processed; nobody reads the answer.
MasterUsageLate(n, rows) ==
    /\ BatchID(n, rows) \in late
    /\ HandleUsage(n, rows)
    /\ late' = late \ {BatchID(n, rows)}
    /\ UNCHANGED <<requests, worker, faults>>

\* ConfigPayload: one consistent read of all accounts.
MasterSnapshot(n) ==
    /\ step[n] = "fetch" /\ n \notin revoked
    /\ snap' = [snap EXCEPT ![n] = book]
    /\ step' = [step EXCEPT ![n] = "apply"]
    /\ UNCHANGED <<requests, pending, mirror, up, lock, batch, left, late, master,
                   faults>>

Credit(u) ==
    /\ u \in book.users /\ book.credited[u] < MaxCredit
    /\ book' = [book EXCEPT !.bal[u] = @ + 1, !.credited[u] = @ + 1]
    /\ UNCHANGED <<requests, worker, late, batches, logs, billed, revoked, faults>>

DeleteKey(k) ==
    /\ k \in book.keys \cap Removable
    /\ book' = [book EXCEPT !.keys = @ \ {k}]
    /\ UNCHANGED <<requests, worker, late, batches, logs, billed, revoked, faults>>

\* A user is removed together with his keys and usage rows.
DeleteUser(u) ==
    /\ u \in book.users \cap Removable
    /\ book' = [book EXCEPT !.users = @ \ {u},
                            !.keys = {k \in @ : OwnerOf[k] # u}]
    /\ logs' = {r \in logs : UserOf(r) # u}
    /\ UNCHANGED <<requests, worker, late, batches, billed, revoked, faults>>

RevokeNode(n) ==
    /\ n \in Removable \ revoked
    /\ revoked' = revoked \cup {n}
    /\ UNCHANGED <<requests, worker, late, batches, logs, book, billed, faults>>

-----------------------------------------------------------------------------
ServeStep ==
    \/ \E r \in Requests :
         \/ \E n \in Nodes \cup {Master} : Begin(n, r)
         \/ \E n \in Nodes : \/ RecordCharged(n, r) \/ RecordFree(n, r)
                             \/ RecordAudio(n, r)   \/ RecordDropped(n, r)
         \/ MasterRecordCharged(r) \/ MasterRecordFree(r) \/ MasterRecordDropped(r)

WorkerStep(n) ==
    \/ FlushBegin(n) \/ SyncBegin(n) \/ SyncDrain(n) \/ FlushAck(n)
    \/ DeleteRows(n) \/ ApplySnapshot(n) \/ Refused(n) \/ Fail(n) \/ Crash(n)

MasterStep ==
    \/ \E n \in Nodes : MasterUsage(n) \/ MasterRefuse(n) \/ MasterSnapshot(n)
    \/ \E m \in late : MasterUsageLate(m[1], m[2])
    \/ \E u \in Users : Credit(u) \/ DeleteUser(u)
    \/ \E k \in Keys : DeleteKey(k)
    \/ \E n \in Nodes : RevokeNode(n)

Next == ServeStep \/ (\E n \in Nodes : WorkerStep(n)) \/ MasterStep

Spec == Init /\ [][Next]_vars

\* The loops keep ticking (usageLoop, syncLoop, a restarted process syncs
\* before it serves), code that holds ledgerMu runs on, and the master
\* answers what reaches it.  Faults are finite (MaxFaults), so nothing has to
\* be assumed of requests, administrators or the network.
Fairness ==
    \A n \in Nodes :
        /\ WF_vars(FlushBegin(n)) /\ WF_vars(SyncBegin(n)) /\ WF_vars(SyncDrain(n))
        /\ WF_vars(FlushAck(n)) /\ WF_vars(DeleteRows(n)) /\ WF_vars(ApplySnapshot(n))
        /\ WF_vars(Refused(n)) /\ WF_vars(MasterUsage(n)) /\ WF_vars(MasterRefuse(n))
        /\ WF_vars(MasterSnapshot(n))

FairSpec == Spec /\ Fairness

-----------------------------------------------------------------------------
(* Properties *)

\* Every variable keeps its type; balances are integers because settling a
\* worker's rows may leave an account in debt.
ControlTypeOK ==
    /\ outcome \in [Requests -> {"open", "active", "charged", "free", "dropped"}]
    /\ home \in [Requests -> Nodes \cup {Master}]
    /\ rowId \in [Requests -> Nat]
    /\ pending \in [Nodes -> SUBSET Requests]
    /\ up \in [Nodes -> BOOLEAN]
    /\ lock \in [Nodes -> {"free", "usage", "sync"}]
    /\ step \in [Nodes -> {"idle", "drain", "posted", "acked", "refused", "delete",
                           "fetch", "apply"}]
    /\ batch \in [Nodes -> SUBSET Requests]
    /\ left \in [Nodes -> SUBSET Requests]
    /\ late \subseteq Nodes \X SUBSET Requests
    /\ batches \subseteq Nodes \X SUBSET Requests
    /\ logs \subseteq Requests
    /\ billed \in [Requests -> Nat]
    /\ revoked \subseteq Nodes
    /\ faults \in 0..MaxFaults

MoneyTypeOK ==
    /\ book \in Book
    /\ mirror \in [Nodes -> Book]
    /\ snap \in [Nodes -> Book]

TypeOK == ControlTypeOK /\ MoneyTypeOK

HasUser(r) == UserOf(r) \in book.users

\* No accounting evidence is lost: a recorded request is in the master's
\* usage_logs or still in the outbox of the worker that served it, through
\* timeouts, crashes between two DELETE statements and replayed batches.
\* (Deleting a user deletes his rows.)
NoRowLost ==
    \A r \in Requests :
        outcome[r] \in Recorded /\ HasUser(r) =>
            r \in logs \/ (home[r] \in Nodes /\ r \in pending[home[r]])

\* A request is debited on the master at most once however often its row is
\* posted, and a charged row in usage_logs has been debited.
BilledExactlyOnce ==
    \A r \in Requests :
        /\ billed[r] =< 1
        /\ billed[r] = 1 => outcome[r] = "charged"
        /\ r \in logs /\ outcome[r] = "charged" /\ Cost[r] > 0 => billed[r] = 1

\* A snapshot never gives money back: every charge a worker made is contained
\* in the balances of its own mirror, before and after a snapshot replaces
\* them (the outbox is drained under ledgerMu before the snapshot is asked for).
MirrorCoversLocalSpending ==
    \A n \in Nodes, r \in Requests :
        outcome[r] = "charged" /\ home[r] = n /\ Cost[r] > 0 => r \in mirror[n].debited

(* The inductive invariant behind these properties *)

\* A charge the master has to collect.
Due(r) == outcome[r] = "charged" /\ Cost[r] > 0

\* Rows in the outbox, in a posted batch and on the master are recorded
\* requests of the node they come from.
RowsRecorded ==
    /\ \A n \in Nodes : \A r \in pending[n] \cup batch[n] :
          home[r] = n /\ outcome[r] \in Recorded
    /\ \A m \in late \cup batches : \A r \in m[2] :
          home[r] = m[1] /\ outcome[r] \in Recorded
    /\ \A r \in logs : outcome[r] \in Recorded /\ HasUser(r)

\* ledgerMu is held exactly while a flush or a sync is under way, and only
\* acknowledged rows are being deleted.
LockHeld ==
    \A n \in Nodes : /\ lock[n] = "free" <=> step[n] = "idle"
                     /\ step[n] = "delete" => left[n] \subseteq batch[n]

\* The master holds every row of a batch it claimed or acknowledged and has
\* debited those it must collect, so a replay may be answered unseen.
OnMaster(r) == (HasUser(r) => r \in logs) /\ (Due(r) => r \in book.debited)

AckedRowsAreDurable ==
    /\ \A m \in batches : \A r \in m[2] : OnMaster(r)
    /\ \A n \in Nodes : step[n] \in {"acked", "delete"} =>
          \A r \in batch[n] : OnMaster(r)

\* A debited request is a due one whose row is on the master; a due request in
\* usage_logs has been debited once.
DebitsMatchLogs ==
    \A r \in Requests :
        /\ billed[r] =< 1
        /\ billed[r] = 1 => outcome[r] = "charged" /\ (HasUser(r) => r \in logs)
        /\ r \in logs /\ Due(r) => billed[r] = 1 /\ r \in book.debited

\* A due request is pending at its worker or debited, and once a worker has
\* drained its outbox the coming snapshot contains all its charges.
ChargesTravel ==
    \A n \in Nodes, r \in Requests :
        home[r] = n /\ Due(r) =>
            /\ r \in pending[n] \cup book.debited
            /\ r \in mirror[n].debited
            /\ step[n] = "fetch" => r \in book.debited
            /\ step[n] = "apply" => r \in snap[n].debited

\* A balance is the opening balance and the top-ups less the rows it accounts
\* for, and the total of a key is the rows of the key.
AddsUp(b) ==
    /\ \A u \in Users :
          b.bal[u] = InitBalance + b.credited[u] - TotalCost(RowsOfUser(b.debited, u))
    /\ \A k \in Keys : b.spent[k] = TotalCost(RowsOfKey(b.debited, k))

\* No row is counted twice or forgotten by the accounts of the master, of a
\* mirror or of a snapshot on its way.
AccountsAddUp ==
    AddsUp(book) /\ \A n \in Nodes : AddsUp(mirror[n]) /\ AddsUp(snap[n])

\* The accounts contain charged rows only, and the master's those it billed.
DebitedRowsAreCharged ==
    /\ \A r \in book.debited : billed[r] = 1
    /\ \A n \in Nodes : \A r \in mirror[n].debited \cup snap[n].debited :
          outcome[r] = "charged"

\* The conjunction is preserved by every step of the specification.
LedgerInv == /\ RowsRecorded /\ LockHeld /\ NoRowLost /\ AckedRowsAreDurable
             /\ DebitsMatchLogs /\ ChargesTravel

\* The ledger implements exactly-once billing: a charged row is owed until the
\* master's balances contain it.
Billing == INSTANCE ExactlyOnceBilling WITH
    Payer <- [r \in Requests |-> UserOf(r)],
    Price <- Cost,
    Opening <- InitBalance,
    owed <- {r \in Requests : outcome[r] = "charged" /\ Cost[r] > 0} \ book.debited,
    paid <- {r \in book.debited : Cost[r] > 0},
    balance <- book.bal

\* Every step of workers, network and master is a step of exactly-once billing
\* or changes nothing it can see.
ImplementsExactlyOnceBilling == Billing!Spec

\* Once faults stop, every pending row reaches the master, unless an
\* administrator removes a key, a user or a node.
EveryRowIsSettled ==
    \A r \in Requests :
        (\E n \in Nodes : r \in pending[n]) ~>
            r \in logs \/ revoked # {} \/ book.users # Users \/ book.keys # Keys

\* worker.go says the periodic sync guarantees that configuration converges: a
\* key deleted on the master disappears from every worker that is not revoked.
DeletedKeysLeaveWorkers ==
    \A n \in Nodes, k \in Keys :
        k \notin book.keys ~> (k \notin mirror[n].keys \/ n \in revoked)
=============================================================================
