----------------------------- MODULE ConfigSync -----------------------------
(***************************************************************************)
(* How a configuration change on the master reaches a worker's mirror.     *)
(*                                                                         *)
(* A change is written to the master's tables and then marked, which       *)
(* increases the global version (cluster/state.go); a fingerprint scan     *)
(* looks for changes that nobody marked.  The worker polls, and is woken   *)
(* by notifications, and replaces its whole mirror by a snapshot           *)
(* (cluster/worker.go, master_api.go).                                     *)
(*                                                                         *)
(* Notifications are unreliable here: any version up to the current one    *)
(* may arrive at any time, more than once, late or never.  ConfigStream    *)
(* models how they are sent.  The content of the tables is the number of   *)
(* changes made to them, as a snapshot is read and applied in one          *)
(* transaction each.                                                       *)
(***************************************************************************)
EXTENDS Integers

CONSTANTS
    Nodes,              \* worker nodes
    BootstrapRequired,  \* a worker does not start before its first sync
    MaxChanges,         \* bound: changes of the configuration
    MaxVersion,         \* bound: versions
    MaxFaults,          \* bound: failed syncs, worker crashes
    MaxMasterFaults,    \* bound: failed Marks, master crashes
    MaxDirectEdits,     \* bound: changes made in the database itself
    MaxRemovals         \* bound: nodes revoked or lost from the registry

ASSUME SyncAssumption ==
    /\ BootstrapRequired \in BOOLEAN
    /\ MaxChanges \in Nat /\ MaxVersion \in Nat \ {0}
    /\ MaxFaults \in Nat /\ MaxMasterFaults \in Nat
    /\ MaxDirectEdits \in Nat /\ MaxRemovals \in Nat

VARIABLES
    \* the master's database
    content,   \* changes made to the configuration tables
    version,   \* cluster_state.config_version
    seal,      \* version -> content when Mark committed it
    status,    \* node -> its row in cluster_nodes
    \* the master's process
    writers,   \* writers that have changed the tables and not called Mark yet
    scanned,   \* fingerprint read by the running scan, NoScan if none runs
    print,     \* fingerprintValue, NoScan before the baseline
    \* the workers
    mode,      \* node -> "down", "boot" or "up"
    local,     \* node -> config_version in sync_state
    mirror,    \* node -> content of the mirror tables
    wake,      \* node -> a token is in the wake channel
    sync,      \* node -> where SyncOnce is
    reply,     \* node -> version and content of the snapshot in transit
    heard,     \* node -> newest version it was told since it started
    failed,    \* node -> its last sync failed
    \* bounds
    faults, masterFaults, edits, removals

tables   == <<content, version, seal>>
marking  == <<writers, scanned, print>>
mirrors  == <<local, mirror>>
process  == <<mode, wake, sync, reply, heard, failed>>
bounds   == <<faults, masterFaults, edits, removals>>
vars     == <<tables, status, marking, mirrors, process, bounds>>

NoScan   == -1
NoReply  == [ver |-> 0, content |-> 0]

Init ==
    /\ content = 0 /\ version = 1
    /\ seal = [v \in 0..MaxVersion |-> 0]
    /\ status = [n \in Nodes |-> "none"]
    /\ writers = 0 /\ scanned = NoScan /\ print = NoScan
    /\ mode = [n \in Nodes |-> "down"]
    /\ local = [n \in Nodes |-> 0] /\ mirror = [n \in Nodes |-> 0]
    /\ wake = [n \in Nodes |-> FALSE]
    /\ sync = [n \in Nodes |-> "idle"]
    /\ reply = [n \in Nodes |-> NoReply]
    /\ heard = [n \in Nodes |-> 0] /\ failed = [n \in Nodes |-> FALSE]
    /\ faults = 0 /\ masterFaults = 0 /\ edits = 0 /\ removals = 0

Fault == faults < MaxFaults /\ faults' = faults + 1
         /\ UNCHANGED <<masterFaults, edits, removals>>

MasterFault == masterFaults < MaxMasterFaults /\ masterFaults' = masterFaults + 1
               /\ UNCHANGED <<faults, edits, removals>>

-----------------------------------------------------------------------------
(* Changes of the configuration and their marks *)

\* A management operation has written the tables; it calls Mark next.
Change ==
    /\ content < MaxChanges
    /\ content' = content + 1
    /\ writers' = writers + 1
    /\ UNCHANGED <<version, seal, status, scanned, print, mirrors, process,
                   bounds>>

\* The tables are changed in the database, or by code that forgets to mark.
DirectEdit ==
    /\ content < MaxChanges /\ edits < MaxDirectEdits
    /\ content' = content + 1
    /\ edits' = edits + 1
    /\ UNCHANGED <<version, seal, status, marking, mirrors, process, faults,
                   masterFaults, removals>>

\* Mark's transaction.
Mark ==
    /\ writers > 0 /\ version < MaxVersion
    /\ version' = version + 1
    /\ seal' = [seal EXCEPT ![version'] = content]
    /\ writers' = writers - 1
    /\ UNCHANGED <<content, status, scanned, print, mirrors, process, bounds>>

\* The transaction fails; its callers only log it.
MarkFails ==
    /\ writers > 0 /\ MasterFault
    /\ writers' = writers - 1
    /\ UNCHANGED <<tables, status, scanned, print, mirrors, process>>

\* Fingerprint reads all configuration tables.  (A scan that finds what is
\* stored already changes nothing.)
Fingerprint ==
    /\ scanned = NoScan /\ content # print
    /\ scanned' = content
    /\ UNCHANGED <<tables, status, writers, print, mirrors, process, bounds>>

\* WatchFingerprint stores what it read and marks a difference; the first
\* fingerprint is the baseline.
WatchFingerprint ==
    /\ scanned # NoScan
    /\ print' = scanned
    /\ scanned' = NoScan
    /\ writers' = writers + IF print \notin {NoScan, scanned} THEN 1 ELSE 0
    /\ UNCHANGED <<tables, status, mirrors, process, bounds>>

-----------------------------------------------------------------------------
(* The worker *)

\* Mutant: a notification that arrives during a sync is ignored.
MutWakes(n, v) == (v = 0 \/ v > local[n]) /\ sync[n] = "idle"

\* NotifyConfigVersion wakes the worker unless it has the version already.  A worker that
\* cannot read its own version drops the notification, as if it had not arrived.
Wakes(n, v) == v = 0 \/ v > local[n]

NotifyConfigVersion(n, v) ==
    /\ wake' = [wake EXCEPT ![n] = @ \/ Wakes(n, v)]
    /\ heard' = [heard EXCEPT ![n] = IF v > @ THEN v ELSE @]
    /\ UNCHANGED <<mode, sync, reply, failed>>

Notified(n, v) ==
    /\ mode[n] = "up"
    /\ NotifyConfigVersion(n, v)
    /\ UNCHANGED <<tables, status, marking, mirrors, bounds>>

\* EnsureRegistered, then the first SyncOnce.  A revoked name stays refused.
Start(n) ==
    /\ mode[n] = "down" /\ status[n] # "revoked"
    /\ status' = [status EXCEPT ![n] = "active"]
    /\ mode' = [mode EXCEPT ![n] = "boot"]
    /\ sync' = [sync EXCEPT ![n] = "fetch"]
    /\ UNCHANGED <<tables, marking, mirrors, wake, reply, heard, failed,
                   bounds>>

\* syncLoop, by its ticker or by the wake channel.
SyncTick(n) ==
    /\ mode[n] = "up" /\ sync[n] = "idle"
    /\ sync' = [sync EXCEPT ![n] = "fetch"]
    /\ UNCHANGED <<tables, status, marking, mirrors, mode, wake, reply, heard,
                   failed, bounds>>

SyncWake(n) ==
    /\ mode[n] = "up" /\ sync[n] = "idle" /\ wake[n]
    /\ wake' = [wake EXCEPT ![n] = FALSE]
    /\ sync' = [sync EXCEPT ![n] = "fetch"]
    /\ UNCHANGED <<tables, status, marking, mirrors, mode, reply, heard,
                   failed, bounds>>

\* ConfigPayload reads the version before it builds the snapshot.
ConfigVersion(n) ==
    /\ sync[n] = "fetch" /\ status[n] = "active"
    /\ sync' = [sync EXCEPT ![n] = "versioned"]
    /\ reply' = [reply EXCEPT ![n].ver = version]
    /\ UNCHANGED <<tables, status, marking, mirrors, mode, wake, heard,
                   failed, bounds>>

\* Mutant: refresh=1 is not honoured.
MutNotModified(n) == local[n] > 0 /\ local[n] >= reply[n].ver

\* 304 is never the answer to SyncOnce, which asks for refresh=1.
NotModified(n) ==
    LET refresh == TRUE
    IN  local[n] > 0 /\ local[n] >= reply[n].ver /\ ~refresh

BuildSnapshot(n) ==
    /\ sync[n] = "versioned"
    /\ sync' = [sync EXCEPT ![n] = IF NotModified(n) THEN "idle" ELSE "reply"]
    /\ reply' = [reply EXCEPT ![n].content = content]
    /\ UNCHANGED <<tables, status, marking, mirrors, mode, wake, heard,
                   failed, bounds>>

\* Mutant: the version is recorded before the mirror is written.
MutApplySnapshot(n) ==
    /\ sync[n] = "reply"
    /\ local' = [local EXCEPT ![n] = reply[n].ver]
    /\ sync' = [sync EXCEPT ![n] = "applied"]
    /\ UNCHANGED <<tables, status, marking, mirror, mode, wake, reply, heard,
                   failed, bounds>>

\* applySnapshot replaces the mirror in one transaction.
ApplySnapshot(n) ==
    /\ sync[n] = "reply"
    /\ mirror' = [mirror EXCEPT ![n] = reply[n].content]
    /\ sync' = [sync EXCEPT ![n] = "applied"]
    /\ UNCHANGED <<tables, status, marking, local, mode, wake, reply, heard,
                   failed, bounds>>

\* The version is recorded and the sync ends; a booting worker is up.
PersistVersion(n) ==
    /\ sync[n] = "applied"
    /\ local' = [local EXCEPT ![n] = reply[n].ver]
    /\ sync' = [sync EXCEPT ![n] = "idle"]
    /\ reply' = [reply EXCEPT ![n] = NoReply]
    /\ mode' = [mode EXCEPT ![n] = "up"]
    /\ failed' = [failed EXCEPT ![n] = FALSE]
    /\ UNCHANGED <<tables, status, marking, mirror, wake, heard, bounds>>

\* Syncs that fail are only reported.  A booting worker goes on without it,
\* unless it must not.
EndSyncs(S) ==
    /\ sync' = [n \in Nodes |-> IF n \in S THEN "idle" ELSE sync[n]]
    /\ failed' = [n \in Nodes |-> n \in S \/ failed[n]]
    /\ mode' = [n \in Nodes |-> IF n \in S /\ mode[n] = "boot"
                                  THEN (IF BootstrapRequired THEN "down" ELSE "up")
                                  ELSE mode[n]]
    /\ reply' = [n \in Nodes |-> IF n \in S THEN NoReply ELSE reply[n]]
    /\ UNCHANGED <<wake, heard>>

SyncRefused(n) ==
    /\ sync[n] = "fetch" /\ status[n] # "active"
    /\ EndSyncs({n})
    /\ UNCHANGED <<tables, status, marking, mirrors, bounds>>

SyncFails(n) ==
    /\ sync[n] # "idle" /\ Fault
    /\ EndSyncs({n})
    /\ UNCHANGED <<tables, status, marking, mirrors>>

\* The answer to a heartbeat.
HeartbeatReply(n) == IF status[n] = "active" THEN 200 ELSE 401

\* sendHeartbeat registers again if the master answers 404.
Heartbeat(n) ==
    /\ mode[n] = "up"
    /\ status' = [status EXCEPT ![n] = IF HeartbeatReply(n) = 404 THEN "active" ELSE @]
    /\ UNCHANGED <<tables, marking, mirrors, process, bounds>>

\* The process ends at any point; its database stays.
Crash(n) ==
    /\ mode[n] # "down" /\ Fault
    /\ mode' = [mode EXCEPT ![n] = "down"]
    /\ sync' = [sync EXCEPT ![n] = "idle"]
    /\ wake' = [wake EXCEPT ![n] = FALSE]
    /\ heard' = [heard EXCEPT ![n] = 0]
    /\ failed' = [failed EXCEPT ![n] = FALSE]
    /\ reply' = [reply EXCEPT ![n] = NoReply]
    /\ UNCHANGED <<tables, status, marking, mirrors>>

-----------------------------------------------------------------------------
(* Administration and the master's own failure *)

\* DeleteNode leaves a tombstone.
Revoke(n) ==
    /\ removals < MaxRemovals /\ status[n] = "active"
    /\ status' = [status EXCEPT ![n] = "revoked"]
    /\ removals' = removals + 1
    /\ UNCHANGED <<tables, marking, mirrors, process, faults, masterFaults,
                   edits>>

\* The row of a node is lost with a rebuilt registry.
LoseRow(n) ==
    /\ removals < MaxRemovals /\ status[n] = "active"
    /\ status' = [status EXCEPT ![n] = "none"]
    /\ removals' = removals + 1
    /\ UNCHANGED <<tables, marking, mirrors, process, faults, masterFaults,
                   edits>>

\* Everything that is not in the database is gone, with the snapshots that
\* were being built.
MasterCrash ==
    /\ MasterFault
    /\ writers' = 0 /\ scanned' = NoScan /\ print' = NoScan
    /\ EndSyncs({n \in Nodes : sync[n] = "versioned"})
    /\ UNCHANGED <<tables, status, mirrors>>

MasterStep ==
    \/ Change \/ DirectEdit \/ Mark \/ MarkFails \/ Fingerprint \/ WatchFingerprint
    \/ MasterCrash

SyncStep(n) ==
    \/ ConfigVersion(n) \/ BuildSnapshot(n) \/ ApplySnapshot(n) \/ PersistVersion(n)
    \/ SyncRefused(n)

NodeStep(n) ==
    \/ Start(n) \/ SyncTick(n) \/ SyncWake(n) \/ SyncStep(n) \/ SyncFails(n)
    \/ Heartbeat(n) \/ Crash(n) \/ Revoke(n) \/ LoseRow(n)
    \/ \E v \in 0..version : Notified(n, v)

Next == MasterStep \/ \E n \in Nodes : NodeStep(n)

Spec == Init /\ [][Next]_vars

\* The worker's own loops: it is started again, its timer fires, and a sync
\* that is not failed goes on.  Nothing else is assumed: no notification arrives,
\* no writer reaches its Mark and nobody looks at the fingerprint.
PollFairness ==
    \A n \in Nodes : /\ WF_vars(Start(n)) /\ WF_vars(SyncTick(n) \/ SyncWake(n))
                     /\ WF_vars(SyncStep(n))

PollSpec == Spec /\ PollFairness

\* The loops of both sides: writers reach their Mark, the fingerprint is
\* scanned, and heartbeats are sent.
Fairness ==
    /\ PollFairness
    /\ WF_vars(Mark) /\ WF_vars(Fingerprint) /\ WF_vars(WatchFingerprint)
    /\ \A n \in Nodes : WF_vars(Heartbeat(n))

FairSpec == Spec /\ Fairness

-----------------------------------------------------------------------------
(* Properties *)

\* Every variable keeps its type.
TypeOK ==
    /\ content \in 0..MaxChanges /\ version \in 1..MaxVersion
    /\ seal \in [0..MaxVersion -> 0..MaxChanges]
    /\ status \in [Nodes -> {"none", "active", "revoked"}]
    /\ writers \in Nat
    /\ scanned \in {NoScan} \cup Nat /\ print \in {NoScan} \cup Nat
    /\ mode \in [Nodes -> {"down", "boot", "up"}]
    /\ local \in [Nodes -> 0..version] /\ mirror \in [Nodes -> 0..MaxChanges]
    /\ wake \in [Nodes -> BOOLEAN]
    /\ sync \in [Nodes -> {"idle", "fetch", "versioned", "reply", "applied"}]
    /\ reply \in [Nodes -> [ver: 0..MaxVersion, content: 0..MaxChanges]]
    /\ heard \in [Nodes -> 0..MaxVersion] /\ failed \in [Nodes -> BOOLEAN]
    /\ faults \in 0..MaxFaults /\ masterFaults \in 0..MaxMasterFaults
    /\ edits \in 0..MaxDirectEdits /\ removals \in 0..MaxRemovals

\* A worker never claims a version whose changes its mirror does not hold, at
\* whatever point a sync or the process was cut off.
MirrorCoversVersion == \A n \in Nodes : mirror[n] >= seal[local[n]]

\* A version the worker was told is not forgotten: until it has it, a sync
\* is due or running that will bring it, or the last one has failed.
NoNotificationLost ==
    \A n \in Nodes :
        mode[n] = "up" /\ heard[n] > local[n] =>
            \/ wake[n] \/ failed[n] \/ sync[n] = "fetch"
            \/ sync[n] # "idle" /\ reply[n].ver >= heard[n]

\* The snapshot in transit to a worker: it is no older than the worker's own
\* version, it holds what its version promises, and a version heard after it
\* was read has left a token in the wake channel.
InTransit(n) ==
    /\ reply[n].ver \in local[n]..version
    /\ heard[n] > reply[n].ver => wake[n]
    /\ sync[n] \in {"reply", "applied"} =>
         /\ reply[n].content >= seal[reply[n].ver]
         /\ reply[n].content >= seal[local[n]]
    /\ sync[n] = "applied" => mirror[n] = reply[n].content

\* What was heard, and the sync under way, belong to a running process.
Attached(n) ==
    /\ heard[n] =< version
    /\ mode[n] # "up" => heard[n] = 0
    /\ sync[n] # "idle" => mode[n] # "down"
    /\ sync[n] \in {"versioned", "reply", "applied"} => InTransit(n)

\* Every version there is was committed with changes that are still there.
Sealed == \A v \in 0..version : seal[v] =< content

\* The inductive invariant behind the two properties above.
SyncInv ==
    /\ TypeOK
    /\ Sealed
    /\ MirrorCoversVersion
    /\ NoNotificationLost
    /\ \A n \in Nodes : Attached(n)

\* Polling alone brings every change, marked or not, to every worker that
\* keeps its registration, whatever happens to the notifications.
Converges ==
    \A n \in Nodes, c \in 1..MaxChanges :
        content >= c ~> mirror[n] >= c \/ status[n] # "active"

=============================================================================
