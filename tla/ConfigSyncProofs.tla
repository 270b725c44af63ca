-------------------------- MODULE ConfigSyncProofs --------------------------
(***************************************************************************)
(* The safety of configuration sync for every number of workers, changes,  *)
(* versions and faults.                                                    *)
(***************************************************************************)
EXTENDS ConfigSync, TLAPS

\* What the invariant says of one worker.
Worker(n) ==
    /\ mirror[n] >= seal[local[n]]
    /\ mode[n] = "up" /\ heard[n] > local[n] =>
         \/ wake[n] \/ failed[n] \/ sync[n] = "fetch"
         \/ sync[n] # "idle" /\ reply[n].ver >= heard[n]
    /\ Attached(n)

\* The invariant is a fact about the tables and one about each worker.
LEMMA InvByWorker == SyncInv <=> TypeOK /\ Sealed /\ \A n \in Nodes : Worker(n)
BY DEF SyncInv, Worker, MirrorCoversVersion, NoNotificationLost

\* A new deployment satisfies the invariant.
LEMMA InitSyncInv == Init => SyncInv
<1> SUFFICES ASSUME Init PROVE SyncInv
  OBVIOUS
<1>1. TypeOK
  BY SyncAssumption DEF Init, TypeOK, NoScan, NoReply
<1>2. Sealed
  BY SyncAssumption DEF Init, Sealed
<1>3. ASSUME NEW n \in Nodes PROVE Worker(n)
  BY <1>3, SyncAssumption DEF Init, Worker, Attached, InTransit, NoReply
<1> QED
  BY <1>1, <1>2, <1>3, InvByWorker

\* The types a step needs of one worker.
LEMMA WorkerTypes ==
    ASSUME TypeOK, NEW n \in Nodes
    PROVE  /\ local[n] \in 0..version /\ mirror[n] \in 0..MaxChanges
           /\ heard[n] \in 0..MaxVersion /\ wake[n] \in BOOLEAN
           /\ failed[n] \in BOOLEAN
           /\ reply[n] \in [ver: 0..MaxVersion, content: 0..MaxChanges]
           /\ reply[n].ver \in 0..MaxVersion /\ reply[n].content \in 0..MaxChanges
BY DEF TypeOK

\* A worker that a step does not touch keeps its part of the invariant as long
\* as its versions keep their content.
LEMMA Untouched ==
    ASSUME SyncInv, NEW n \in Nodes,
           version' \in Nat, version' >= version,
           \A v \in 0..version : seal'[v] = seal[v],
           local'[n] = local[n], mirror'[n] = mirror[n], mode'[n] = mode[n],
           wake'[n] = wake[n], sync'[n] = sync[n], reply'[n] = reply[n],
           heard'[n] = heard[n], failed'[n] = failed[n]
    PROVE  Worker(n)'
<1>1. TypeOK /\ Worker(n)
  BY InvByWorker
<1>2. /\ local[n] \in 0..version /\ heard[n] \in 0..MaxVersion
      /\ version \in Nat
  BY <1>1, WorkerTypes, SyncAssumption DEF TypeOK
<1>3. seal'[local[n]] = seal[local[n]]
  BY <1>2
<1>4. Attached(n)'
  <2>1. InTransit(n) => InTransit(n)'
    <3> SUFFICES ASSUME InTransit(n) PROVE InTransit(n)'
      OBVIOUS
    <3>1. reply[n].ver \in 0..version /\ reply[n].ver \in local[n]..version
      BY <1>2 DEF InTransit
    <3>2. seal'[reply[n].ver] = seal[reply[n].ver]
      BY <3>1
    <3>3. reply[n].ver \in local'[n]..version'
      BY <3>1, <1>2
    <3> QED BY <3>2, <3>3, <1>3 DEF InTransit
  <2>2. heard'[n] =< version'
    BY <1>1, <1>2, SyncAssumption DEF Worker, Attached
  <2> QED BY <1>1, <2>1, <2>2 DEF Worker, Attached
<1> QED
  BY <1>1, <1>3, <1>4 DEF Worker

\* Steps of the master that leave the workers alone.
LEMMA TablesKeepInv ==
    ASSUME SyncInv,
           Change \/ DirectEdit \/ Mark \/ MarkFails \/ Fingerprint
             \/ WatchFingerprint
    PROVE  SyncInv'
<1>1. TypeOK /\ Sealed /\ \A n \in Nodes : Worker(n)
  BY InvByWorker
<1>2. content \in 0..MaxChanges /\ version \in 1..MaxVersion
      /\ seal \in [0..MaxVersion -> 0..MaxChanges] /\ MaxVersion \in Nat
  BY <1>1, SyncAssumption DEF TypeOK
<1>3. UNCHANGED <<mirrors, process, status>>
  BY DEF Change, DirectEdit, Mark, MarkFails, Fingerprint, WatchFingerprint
<1>4. TypeOK' /\ Sealed' /\ version' >= version
      /\ \A v \in 0..version : seal'[v] = seal[v]
  <2> USE <1>1, <1>2, SyncAssumption DEF TypeOK, Sealed, mirrors, process, bounds,
                                  tables, marking, NoScan, MasterFault
  <2>1. CASE Change
    BY <2>1 DEF Change
  <2>2. CASE DirectEdit
    BY <2>2 DEF DirectEdit
  <2>3. CASE Mark
    BY <2>3, SMTT(30) DEF Mark
  <2>4. CASE MarkFails
    BY <2>4, SMTT(30) DEF MarkFails
  <2>5. CASE Fingerprint
    BY <2>5, SMTT(30) DEF Fingerprint
  <2>6. CASE WatchFingerprint
    BY <2>6 DEF WatchFingerprint
  <2> QED BY <2>1, <2>2, <2>3, <2>4, <2>5, <2>6
<1>5. version' \in Nat
  BY <1>4, SyncAssumption DEF TypeOK
<1>6. ASSUME NEW n \in Nodes PROVE Worker(n)'
  BY <1>3, <1>4, <1>5, Untouched DEF mirrors, process
<1> QED
  BY <1>4, <1>6 DEF SyncInv, Worker, MirrorCoversVersion, NoNotificationLost

\* A step of one worker has to be justified for that worker only.
LEMMA OneWorker ==
    ASSUME SyncInv, NEW n \in Nodes, UNCHANGED tables, TypeOK', Worker(n)',
           \A m \in Nodes \ {n} :
              /\ local'[m] = local[m] /\ mirror'[m] = mirror[m]
              /\ mode'[m] = mode[m] /\ wake'[m] = wake[m] /\ sync'[m] = sync[m]
              /\ reply'[m] = reply[m] /\ heard'[m] = heard[m]
              /\ failed'[m] = failed[m]
    PROVE  SyncInv'
<1>1. version' \in Nat /\ version' >= version /\ Sealed'
      /\ \A v \in 0..version : seal'[v] = seal[v]
  BY DEF SyncInv, TypeOK, tables, Sealed
<1>2. ASSUME NEW m \in Nodes PROVE Worker(m)'
  <2>1. CASE m = n
    BY <2>1
  <2>2. CASE m # n
    BY <1>1, <2>2, Untouched
  <2> QED BY <2>1, <2>2
<1> QED
  BY <1>1, <1>2 DEF SyncInv, Worker, MirrorCoversVersion, NoNotificationLost

\* Syncs that end without a result leave their workers marked as failed.
LEMMA EndSyncsKeepInv ==
    ASSUME SyncInv, NEW S \in SUBSET Nodes, \A n \in S : sync[n] # "idle",
           EndSyncs(S), UNCHANGED <<tables, mirrors>>, TypeOK'
    PROVE  SyncInv'
<1>1. TypeOK /\ Sealed /\ \A n \in Nodes : Worker(n)
  BY InvByWorker
<1>2. version' \in Nat /\ version' >= version /\ Sealed'
      /\ \A v \in 0..version : seal'[v] = seal[v]
  BY <1>1 DEF TypeOK, tables, Sealed
<1>3. ASSUME NEW n \in Nodes PROVE Worker(n)'
  <2>1. CASE n \in S
    <3>1. /\ sync'[n] = "idle" /\ failed'[n] = TRUE
          /\ heard'[n] = heard[n] /\ local'[n] = local[n]
          /\ mirror'[n] = mirror[n] /\ seal' = seal /\ version' = version
          /\ mode[n] = "up" => mode'[n] = "up"
      BY <2>1 DEF EndSyncs, tables, mirrors
    <3>2. heard[n] =< version /\ (mode[n] # "up" => heard[n] = 0)
          /\ mirror[n] >= seal[local[n]]
      BY <1>1 DEF Worker, Attached
    <3> QED BY <3>1, <3>2 DEF Worker, Attached
  <2>2. CASE n \notin S
    <3>1. /\ local'[n] = local[n] /\ mirror'[n] = mirror[n]
          /\ mode'[n] = mode[n] /\ wake'[n] = wake[n] /\ sync'[n] = sync[n]
          /\ reply'[n] = reply[n] /\ heard'[n] = heard[n]
      BY <2>2 DEF EndSyncs, mirrors
    <3>2. failed'[n] = failed[n]
      BY <2>2, <1>1, WorkerTypes, Zenon DEF EndSyncs
    <3> QED BY <1>2, <3>1, <3>2, Untouched
  <2> QED BY <2>1, <2>2
<1> QED
  BY <1>2, <1>3 DEF SyncInv, Worker, MirrorCoversVersion, NoNotificationLost

\* The step types of EndSyncs.
LEMMA EndSyncsTypes ==
    ASSUME TypeOK, NEW S \in SUBSET Nodes, EndSyncs(S)
    PROVE  /\ sync' \in [Nodes -> {"idle", "fetch", "versioned", "reply", "applied"}]
           /\ mode' \in [Nodes -> {"down", "boot", "up"}]
           /\ failed' \in [Nodes -> BOOLEAN]
           /\ reply' \in [Nodes -> [ver: 0..MaxVersion, content: 0..MaxChanges]]
           /\ wake' = wake /\ heard' = heard
<1>1. \A n \in Nodes : (n \in S \/ failed[n]) \in BOOLEAN
  OBVIOUS
<1>2. failed' \in [Nodes -> BOOLEAN]
  BY <1>1, Zenon DEF EndSyncs
<1>3. NoReply \in [ver: 0..MaxVersion, content: 0..MaxChanges]
  BY SyncAssumption DEF NoReply
<1> HIDE DEF NoReply
<1> QED
  BY <1>2, <1>3 DEF EndSyncs, TypeOK

\* Failed and refused syncs, and a crash of the master.
LEMMA FailuresKeepInv ==
    ASSUME SyncInv, MasterCrash \/ \E n \in Nodes : SyncRefused(n) \/ SyncFails(n)
    PROVE  SyncInv'
<1>1. TypeOK
  BY InvByWorker
<1>2. CASE MasterCrash
  <2> DEFINE S == {n \in Nodes : sync[n] = "versioned"}
  <2>1. EndSyncs(S) /\ UNCHANGED <<tables, mirrors>> /\ S \in SUBSET Nodes
        /\ \A n \in S : sync[n] # "idle"
    BY <1>2 DEF MasterCrash
  <2>2. UNCHANGED <<content, version, seal, status, local, mirror, faults, edits, removals>>
        /\ writers' = 0 /\ scanned' = NoScan /\ print' = NoScan
        /\ masterFaults' \in 0..MaxMasterFaults
    BY <1>1, <1>2, SyncAssumption DEF MasterCrash, MasterFault, tables, mirrors, TypeOK
  <2> HIDE DEF S
  <2>3. TypeOK'
    BY <1>1, <2>1, <2>2, EndSyncsTypes DEF TypeOK
  <2> QED BY <2>1, <2>3, EndSyncsKeepInv
<1>3. ASSUME NEW n \in Nodes, SyncRefused(n) \/ SyncFails(n) PROVE SyncInv'
  <2>1. EndSyncs({n}) /\ UNCHANGED <<tables, mirrors>> /\ sync[n] # "idle"
    BY <1>3 DEF SyncRefused, SyncFails
  <2>2. UNCHANGED <<content, version, seal, status, local, mirror, writers, scanned, print,
                    masterFaults, edits, removals>> /\ faults' \in 0..MaxFaults
    <3>1. CASE SyncRefused(n)
      BY <1>1, <3>1 DEF SyncRefused, tables, mirrors, marking, bounds, TypeOK
    <3>2. CASE SyncFails(n)
      BY <1>1, <3>2, SyncAssumption
      DEF SyncFails, Fault, tables, mirrors, marking, TypeOK
    <3> QED BY <1>3, <3>1, <3>2
  <2>3. TypeOK'
    BY <1>1, <2>1, <2>2, EndSyncsTypes DEF TypeOK
  <2> QED BY <2>1, <2>3, EndSyncsKeepInv
<1> QED BY <1>2, <1>3

-----------------------------------------------------------------------------
(* The steps of a worker *)

\* Registration, heartbeats and removals change the registry at most.
LEMMA RegistryKeepsInv ==
    ASSUME SyncInv, NEW n \in Nodes, Heartbeat(n) \/ Revoke(n) \/ LoseRow(n)
    PROVE  SyncInv'
<1>1. TypeOK /\ Worker(n)
  BY InvByWorker
<1>2. UNCHANGED <<tables, marking, mirrors, process>>
  BY DEF Heartbeat, Revoke, LoseRow
<1>3. TypeOK'
  <2>1. /\ status' \in [Nodes -> {"none", "active", "revoked"}]
        /\ UNCHANGED <<faults, masterFaults, edits>>
    <3>1. status \in [Nodes -> {"none", "active", "revoked"}]
      BY <1>1 DEF TypeOK
    <3>2. CASE Heartbeat(n)
      BY <3>1, <3>2 DEF Heartbeat, bounds
    <3>3. CASE Revoke(n)
      BY <3>1, <3>3 DEF Revoke
    <3>4. CASE LoseRow(n)
      BY <3>1, <3>4 DEF LoseRow
    <3> QED BY <3>2, <3>3, <3>4
  <2>2. removals' \in 0..MaxRemovals
    <3>1. removals \in 0..MaxRemovals /\ MaxRemovals \in Nat
      BY <1>1, SyncAssumption DEF TypeOK
    <3> QED BY <3>1 DEF Heartbeat, Revoke, LoseRow, bounds
  <2> QED BY <1>1, <1>2, <2>1, <2>2 DEF TypeOK, tables, marking, mirrors, process
<1>4. Worker(n)'
  BY <1>2, <1>3, Untouched DEF tables, mirrors, process, TypeOK
<1> QED
  BY <1>2, <1>3, <1>4, OneWorker DEF mirrors, process

\* A process that starts has heard nothing, and one that ends forgets it.
LEMMA ProcessKeepsInv ==
    ASSUME SyncInv, NEW n \in Nodes, Start(n) \/ Crash(n)
    PROVE  SyncInv'
<1>1. TypeOK /\ Worker(n)
  BY InvByWorker
<1>2. UNCHANGED <<tables, mirrors>>
  BY DEF Start, Crash
<1>3. TypeOK'
  <2>1. CASE Start(n)
    BY <1>1, <2>1 DEF Start, TypeOK, tables, marking, mirrors, bounds
  <2>2. CASE Crash(n)
    <3>1. NoReply \in [ver: 0..MaxVersion, content: 0..MaxChanges]
      BY SyncAssumption DEF NoReply
    <3> HIDE DEF NoReply
    <3>2. wake' \in [Nodes -> BOOLEAN] /\ failed' \in [Nodes -> BOOLEAN]
      BY <1>1, <2>2, Zenon DEF Crash, TypeOK
    <3>3. /\ mode' \in [Nodes -> {"down", "boot", "up"}]
          /\ sync' \in [Nodes -> {"idle", "fetch", "versioned", "reply", "applied"}]
      BY <1>1, <2>2 DEF Crash, TypeOK
    <3>4. /\ heard' \in [Nodes -> 0..MaxVersion]
          /\ reply' \in [Nodes -> [ver: 0..MaxVersion, content: 0..MaxChanges]]
      <4>1. 0 \in 0..MaxVersion
        BY SyncAssumption
      <4> QED BY <1>1, <2>2, <3>1, <4>1 DEF Crash, TypeOK
    <3>5. /\ faults' \in 0..MaxFaults
          /\ UNCHANGED <<masterFaults, edits, removals, status>>
      BY <1>1, <2>2, SyncAssumption DEF Crash, Fault, TypeOK
    <3>6. UNCHANGED <<tables, marking, mirrors>>
      BY <2>2 DEF Crash
    <3> QED
      BY <1>1, <3>2, <3>3, <3>4, <3>5, <3>6 DEF TypeOK, tables, marking, mirrors
  <2> QED BY <2>1, <2>2
<1>4. Worker(n)'
  <2>1. CASE Start(n)
    BY <1>1, <2>1, WorkerTypes
    DEF Start, Worker, Attached, TypeOK, tables, mirrors
  <2>2. CASE Crash(n)
    BY <1>1, <2>2, WorkerTypes
    DEF Crash, Worker, Attached, TypeOK, tables, mirrors
  <2> QED BY <2>1, <2>2
<1>5. \A m \in Nodes \ {n} :
         /\ local'[m] = local[m] /\ mirror'[m] = mirror[m]
         /\ mode'[m] = mode[m] /\ wake'[m] = wake[m] /\ sync'[m] = sync[m]
         /\ reply'[m] = reply[m] /\ heard'[m] = heard[m]
         /\ failed'[m] = failed[m]
  BY <1>1, SMTT(30) DEF Start, Crash, mirrors, TypeOK
<1> QED
  BY <1>2, <1>3, <1>4, <1>5, OneWorker

\* The ticker, the wake channel and the stages of a sync, each of which
\* changes one worker only.
LEMMA SyncKeepsInv ==
    ASSUME SyncInv, NEW n \in Nodes,
           SyncTick(n) \/ SyncWake(n) \/ ConfigVersion(n) \/ BuildSnapshot(n)
             \/ ApplySnapshot(n) \/ PersistVersion(n)
    PROVE  SyncInv'
<1>1. TypeOK /\ Sealed /\ Worker(n)
  BY InvByWorker
<1>2. UNCHANGED tables
  BY DEF SyncTick, SyncWake, ConfigVersion, BuildSnapshot, ApplySnapshot, PersistVersion
<1>3. content \in 0..MaxChanges /\ version \in 1..MaxVersion
      /\ MaxVersion \in Nat /\ MaxChanges \in Nat
      /\ \A v \in 0..version : seal[v] \in 0..MaxChanges /\ seal[v] =< content
  BY <1>1, SyncAssumption DEF TypeOK, Sealed
<1>4. TypeOK' /\ Worker(n)'
  <2> USE WorkerTypes
  <2>1. CASE SyncTick(n)
    <3>1. TypeOK'
      BY <1>1, <2>1 DEF SyncTick, TypeOK, tables, marking, mirrors, bounds
    <3>2. Worker(n)'
      BY <1>1, <2>1 DEF SyncTick, TypeOK, Worker, Attached, tables, mirrors
    <3> QED BY <3>1, <3>2
  <2>2. CASE SyncWake(n)
    <3>1. TypeOK'
      BY <1>1, <2>2 DEF SyncWake, TypeOK, tables, marking, mirrors, bounds
    <3>2. Worker(n)'
      BY <1>1, <2>2 DEF SyncWake, TypeOK, Worker, Attached, tables, mirrors
    <3> QED BY <3>1, <3>2
  <2>3. CASE ConfigVersion(n)
    <3>1. /\ reply' = [reply EXCEPT ![n].ver = version]
          /\ sync' = [sync EXCEPT ![n] = "versioned"]
          /\ UNCHANGED <<tables, status, marking, mirrors, mode, wake, heard, failed, bounds>>
      BY <2>3 DEF ConfigVersion
    <3>2. /\ reply' \in [Nodes -> [ver: 0..MaxVersion, content: 0..MaxChanges]]
          /\ reply'[n].ver = version /\ sync'[n] = "versioned"
      <4>1. [reply[n] EXCEPT !.ver = version] \in
               [ver: 0..MaxVersion, content: 0..MaxChanges]
        BY <1>1, <1>3
      <4> QED BY <1>1, <1>3, <3>1, <4>1 DEF TypeOK
    <3>3. sync' \in [Nodes -> {"idle", "fetch", "versioned", "reply", "applied"}]
      BY <1>1, <3>1 DEF TypeOK
    <3>4. TypeOK'
      BY <1>1, <3>1, <3>2, <3>3 DEF TypeOK, tables, marking, mirrors, bounds
    <3>5. sync[n] = "fetch" /\ local[n] \in 0..version
      BY <1>1, <2>3 DEF ConfigVersion
    <3>6. Worker(n)'
      BY <1>1, <1>3, <3>1, <3>2, <3>5 DEF Worker, Attached, InTransit, tables, mirrors
    <3> QED BY <3>4, <3>6
  <2>4. CASE BuildSnapshot(n)
    <3>1. TypeOK'
      BY <1>1, <1>3, <2>4
      DEF BuildSnapshot, NotModified, TypeOK, tables, marking, mirrors, bounds
    <3>2. Worker(n)'
      BY <1>1, <1>3, <2>4, SMTT(30)
      DEF BuildSnapshot, NotModified, TypeOK, Worker, Attached, InTransit, tables, mirrors
    <3> QED BY <3>1, <3>2
  <2>5. CASE ApplySnapshot(n)
    <3>1. TypeOK'
      BY <1>1, <1>3, <2>5
      DEF ApplySnapshot, TypeOK, tables, marking, mirrors, bounds
    <3>2. Worker(n)'
      BY <1>1, <1>3, <2>5
      DEF ApplySnapshot, TypeOK, Worker, Attached, InTransit, tables
    <3> QED BY <3>1, <3>2
  <2>6. CASE PersistVersion(n)
    <3>1. NoReply \in [ver: 0..MaxVersion, content: 0..MaxChanges]
      BY SyncAssumption DEF NoReply
    <3>2. reply[n].ver \in 0..version
      BY <1>1, <1>3, <2>6 DEF PersistVersion, Worker, Attached, InTransit
    <3> HIDE DEF NoReply
    <3>3. TypeOK'
      BY <1>1, <1>3, <2>6, <3>1, <3>2
      DEF PersistVersion, TypeOK, tables, marking, bounds
    <3>4. Worker(n)'
      BY <1>1, <1>3, <2>6, <3>2
      DEF PersistVersion, TypeOK, Worker, Attached, InTransit, tables
    <3> QED BY <3>3, <3>4
  <2> QED BY <2>1, <2>2, <2>3, <2>4, <2>5, <2>6
<1>5. \A m \in Nodes \ {n} :
         /\ local'[m] = local[m] /\ mirror'[m] = mirror[m]
         /\ mode'[m] = mode[m] /\ wake'[m] = wake[m] /\ sync'[m] = sync[m]
         /\ reply'[m] = reply[m] /\ heard'[m] = heard[m]
         /\ failed'[m] = failed[m]
  BY <1>1, SMTT(30) DEF SyncTick, SyncWake, ConfigVersion, BuildSnapshot, ApplySnapshot,
              PersistVersion, mirrors, TypeOK
<1> QED
  BY <1>2, <1>4, <1>5, OneWorker

\* A notification during a sync is covered by its reply or leaves a token.
LEMMA NotifiedKeepsInv ==
    ASSUME SyncInv, NEW n \in Nodes, NEW v \in 0..version, Notified(n, v)
    PROVE  SyncInv'
<1>1. TypeOK /\ Worker(n)
  BY InvByWorker
<1>2. version \in 1..MaxVersion /\ MaxVersion \in Nat
  BY <1>1, SyncAssumption DEF TypeOK
<1>3. UNCHANGED <<tables, mirrors, mode, sync, reply, failed>>
      /\ mode[n] = "up"
      /\ wake' = [wake EXCEPT ![n] = @ \/ Wakes(n, v)]
      /\ heard' = [heard EXCEPT ![n] = IF v > @ THEN v ELSE @]
  BY DEF Notified, NotifyConfigVersion
<1>4. (wake[n] \/ Wakes(n, v)) \in BOOLEAN
  OBVIOUS
<1>5. wake' \in [Nodes -> BOOLEAN] /\ (wake'[n] <=> wake[n] \/ Wakes(n, v))
  BY <1>1, <1>3, <1>4, Zenon DEF TypeOK
<1>6. heard'[n] = (IF v > heard[n] THEN v ELSE heard[n])
  BY <1>1, <1>3 DEF TypeOK
<1>7. TypeOK'
  <2>1. v \in 0..MaxVersion
    BY <1>2
  <2>2. heard' \in [Nodes -> 0..MaxVersion]
    BY <1>1, <1>3, <2>1 DEF TypeOK
  <2>3. UNCHANGED <<status, marking, bounds>>
    BY DEF Notified
  <2> QED
    BY <1>1, <1>3, <1>5, <2>2, <2>3 DEF TypeOK, tables, mirrors, marking, bounds
<1>8. Worker(n)'
  BY <1>1, <1>2, <1>3, <1>5, <1>6, WorkerTypes
  DEF Worker, Attached, InTransit, Wakes, tables, mirrors
<1>9. \A m \in Nodes \ {n} : wake'[m] = wake[m] /\ heard'[m] = heard[m]
  BY <1>1, <1>3 DEF TypeOK
<1> QED
  BY <1>3, <1>7, <1>8, <1>9, OneWorker DEF mirrors

\* The invariant of configuration sync: what a reply in transit holds, what a
\* worker claims and what it was told stay consistent through any
\* interleaving of changes, marks, scans, syncs, notifications and crashes.
THEOREM SyncSafe == Spec => []SyncInv
<1>1. ASSUME SyncInv, Next PROVE SyncInv'
  <2>1. CASE MasterStep
    BY <1>1, <2>1, TablesKeepInv, FailuresKeepInv DEF MasterStep
  <2>2. ASSUME NEW n \in Nodes, NodeStep(n) PROVE SyncInv'
    BY <1>1, <2>2, FailuresKeepInv, RegistryKeepsInv, ProcessKeepsInv, SyncKeepsInv,
       NotifiedKeepsInv DEF NodeStep, SyncStep
  <2> QED BY <1>1, <2>1, <2>2 DEF Next
<1>2. ASSUME SyncInv, UNCHANGED vars PROVE SyncInv'
  BY <1>2 DEF SyncInv, TypeOK, Sealed, MirrorCoversVersion, NoNotificationLost, Attached,
              InTransit, vars, tables, marking, mirrors, process, bounds
<1> QED
  BY InitSyncInv, <1>1, <1>2, PTL DEF Spec

\* A worker never claims a version whose changes its mirror does not hold:
\* applyAndPersist writes the mirror before the version.
THEOREM MirrorsCoverVersions == Spec => []MirrorCoversVersion
<1>1. SyncInv => MirrorCoversVersion
  BY DEF SyncInv
<1> QED
  BY SyncSafe, <1>1, PTL

\* A version a worker was told is never forgotten: the wake channel keeps a
\* token, or a sync is under way that brings it, or the last one has failed.
THEOREM NotificationsAreKept == Spec => []NoNotificationLost
<1>1. SyncInv => NoNotificationLost
  BY DEF SyncInv
<1> QED
  BY SyncSafe, <1>1, PTL
=============================================================================
