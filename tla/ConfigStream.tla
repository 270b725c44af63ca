---------------------------- MODULE ConfigStream ----------------------------
(***************************************************************************)
(* How the workers are told that the configuration has a new version.      *)
(*                                                                         *)
(* Every Mark starts a push unless one is pending (cluster/transport.go).  *)
(* The push tells each active node the version it has read, over the       *)
(* WebSocket session the node has opened itself, or else over HTTP if the  *)
(* master can call the node (ws_hub.go, ws_dial.go, notify.go).  Sessions  *)
(* are kept in the hub, one per node; a new one replaces the old one, and  *)
(* one that is found broken or full is closed and forgotten.               *)
(*                                                                         *)
(* What a worker does with a version is the subject of ConfigSync.         *)
(***************************************************************************)
EXTENDS Integers, Sequences

CONSTANTS
    Nodes,            \* worker nodes
    Reachable,        \* nodes whose address the master can call
    SendCap,          \* capacity of a session's send channel
    MaxSessions,      \* bound: sessions of a node that exist at a time
    MaxVersion,       \* bound: versions
    MaxFaults,        \* bound: lost links and calls, worker crashes
    MaxMasterFaults,  \* bound: failed reads of the version, master crashes
    MaxRevocations,   \* bound: revoked nodes
    MaxClicks         \* bound: syncs an administrator asks for

ASSUME StreamAssumption ==
    /\ Reachable \subseteq Nodes
    /\ SendCap \in Nat \ {0} /\ MaxSessions \in Nat \ {0} /\ MaxVersion \in Nat \ {0}
    /\ MaxFaults \in Nat /\ MaxMasterFaults \in Nat
    /\ MaxRevocations \in Nat /\ MaxClicks \in Nat

VARIABLES
    version,   \* cluster_state.config_version
    active,    \* nodes that are registered and not revoked
    triggers,  \* Marks that have committed and not called TriggerPush yet
    push,      \* the push goroutine; pushPending says that it is not "off"
    pushV,     \* the version it has read
    todo,      \* nodes it has still to notify
    target,    \* the node in turn and the session found for it, 0 for none
    pushed,    \* node -> last version a push has handled for it
    hub,       \* node -> its session in the hub, 0 if none
    session,   \* node -> its sessions by number
    up,        \* nodes whose worker process runs
    stream,    \* node -> session it is connected to, 0 if none
    told,      \* node -> newest version its worker knows of
    faults, masterFaults, revocations, clicks

pushing == <<push, pushV, todo, target, pushed>>
streams == <<hub, session, stream>>
bounds  == <<faults, masterFaults, revocations, clicks>>
vars    == <<version, active, triggers, pushing, streams, up, told, bounds>>

NoTarget == <<>>
Ids      == 1..MaxSessions

\* A number that no session has, and a session: how far ServeStream is, the
\* version it has read, its send channel and what was sent since it opened.
Unused  == [stage |-> "none", ver |-> 0, closed |-> TRUE, queue |-> <<>>, sent |-> {}]

Init ==
    /\ version = 1 /\ active = Nodes /\ triggers = 0
    /\ push = "off" /\ pushV = 1 /\ todo = {} /\ target = NoTarget
    /\ pushed = [n \in Nodes |-> 0]
    /\ hub = [n \in Nodes |-> 0]
    /\ session = [n \in Nodes |-> [k \in Ids |-> Unused]]
    /\ up = Nodes
    /\ stream = [n \in Nodes |-> 0]
    /\ told = [n \in Nodes |-> 1]
    /\ faults = 0 /\ masterFaults = 0 /\ revocations = 0 /\ clicks = 0

Fault ==
    /\ faults < MaxFaults
    /\ faults' = faults + 1
    /\ UNCHANGED <<masterFaults, revocations, clicks>>

MasterFault ==
    /\ masterFaults < MaxMasterFaults
    /\ masterFaults' = masterFaults + 1
    /\ UNCHANGED <<faults, revocations, clicks>>

-----------------------------------------------------------------------------
(* The debounced push *)

Mark ==
    /\ version < MaxVersion
    /\ version' = version + 1
    /\ triggers' = triggers + 1
    /\ UNCHANGED <<active, pushing, streams, up, told, bounds>>

\* While a push is pending another one is not started.
TriggerPush ==
    /\ triggers > 0
    /\ triggers' = triggers - 1
    /\ push' = IF push = "off" THEN "debounce" ELSE push
    /\ UNCHANGED <<version, active, pushV, todo, target, pushed, streams, up, told, bounds>>

\* The timer has fired: pushToNodes reads the version and the active nodes.
PushRead ==
    /\ push = "debounce"
    /\ push' = "send"
    /\ pushV' = version
    /\ todo' = active
    /\ UNCHANGED <<version, active, triggers, target, pushed, streams, up, told, bounds>>

PushReadFails ==
    /\ push = "debounce" /\ MasterFault
    /\ push' = "send"
    /\ UNCHANGED <<version, active, triggers, pushV, todo, target, pushed, streams, up, told>>

\* Mutant: a session is used only after its first message has been sent.
MutFindSession(n) ==
    IF hub[n] # 0 /\ session[n][hub[n]].stage = "ready" THEN hub[n] ELSE 0

\* hub.push looks the session up under the lock and uses it after it.
FindSession(n) == hub[n]

PushLookup(n) ==
    /\ push = "send" /\ target = NoTarget /\ n \in todo
    /\ target' = <<n, FindSession(n)>>
    /\ UNCHANGED <<version, active, triggers, push, pushV, todo, pushed, streams, up, told,
                   bounds>>

Accepts(s) == ~s.closed /\ Len(s.queue) < SendCap

\* What was sent before a session was closed does not matter any more.
Close(s) == [s EXCEPT !.closed = TRUE, !.sent = {}]

\* Mutant: a message that does not fit is dropped.
MutSend(s, v) ==
    IF Accepts(s) THEN [s EXCEPT !.queue = Append(@, v), !.sent = @ \cup {v}] ELSE s

\* hub.send: a full channel closes the session, rather than lose the message.
Send(s, v) ==
    IF Accepts(s)
      THEN [s EXCEPT !.queue = Append(@, v), !.sent = @ \cup {v}]
      ELSE Close(s)

PushDone(n) ==
    /\ todo' = todo \ {n}
    /\ target' = NoTarget
    /\ pushed' = [pushed EXCEPT ![n] = pushV]
    /\ UNCHANGED <<push, pushV>>

PushSession(n, k) ==
    /\ target = <<n, k>>
    /\ session' = [session EXCEPT ![n][k] = Send(@, pushV)]
    /\ IF Accepts(session[n][k])
         THEN PushDone(n)
         ELSE target' = <<n, 0>> /\ UNCHANGED <<push, pushV, todo, pushed>>
    /\ UNCHANGED <<version, active, triggers, hub, stream, up, told, bounds>>

\* The worker hears a version; 0 makes it fetch whatever is current.
Hear(n, v) ==
    told' = [told EXCEPT ![n] = IF v = 0 THEN version ELSE IF v > @ THEN v ELSE @]

\* Without a session the node's address is called.
PushAddress(n) ==
    /\ target = <<n, 0>>
    /\ n \in Reachable \cap up
    /\ Hear(n, pushV)
    /\ PushDone(n)
    /\ UNCHANGED <<version, active, triggers, streams, up, bounds>>

\* There is no address, or every attempt has failed.
PushUnreachable(n) ==
    /\ target = <<n, 0>>
    /\ IF n \in Reachable \cap up THEN Fault ELSE UNCHANGED bounds
    /\ PushDone(n)
    /\ UNCHANGED <<version, active, triggers, streams, up, told>>

\* The goroutine's deferred function takes pushPending back.
PushEnd ==
    /\ push = "send" /\ todo = {}
    /\ push' = "off"
    /\ UNCHANGED <<version, active, triggers, pushV, todo, target, pushed, streams, up, told,
                   bounds>>

\* SyncNode: the current version is sent to one node, revoked or not, the way
\* a push does it; a failure is shown to the administrator.
SyncNode(n) ==
    LET k == hub[n]
        streamed == k # 0 /\ Accepts(session[n][k])
    IN  /\ clicks < MaxClicks
        /\ clicks' = clicks + 1
        /\ session' = IF k = 0 THEN session
                               ELSE [session EXCEPT ![n][k] = Send(@, version)]
        /\ \/ UNCHANGED told
           \/ ~streamed /\ n \in Reachable \cap up /\ Hear(n, version)
        /\ UNCHANGED <<version, active, triggers, pushing, hub, stream, up, faults,
                       masterFaults, revocations>>

-----------------------------------------------------------------------------
(* Sessions *)

\* A number can be used again when nothing refers to its session.
Free(n, k) ==
    /\ session[n][k].closed /\ session[n][k].stage \in {"none", "ready"}
    /\ hub[n] # k /\ stream[n] # k /\ target # <<n, k>>

\* The worker dials; the master registers the session under the node's name,
\* which replaces and closes the one the hub had.
StreamRegister(n, k) ==
    /\ n \in up \cap active /\ stream[n] = 0
    /\ Free(n, k)
    /\ hub' = [hub EXCEPT ![n] = k]
    /\ session' = [session EXCEPT ![n] =
           [j \in Ids |-> CASE j = k -> [Unused EXCEPT !.stage = "registered",
                                                       !.closed = FALSE]
                            [] j = hub[n] -> Close(@[j])
                            [] OTHER -> @[j]]]
    /\ stream' = [stream EXCEPT ![n] = k]
    /\ UNCHANGED <<version, active, triggers, pushing, up, told, bounds>>

\* ServeStream reads the version after that; an error is sent as version 0.
StreamRead(n, k) ==
    /\ session[n][k].stage = "registered"
    /\ \E v \in {version, 0} :
         /\ IF v = 0 THEN MasterFault ELSE UNCHANGED bounds
         /\ session' = [session EXCEPT ![n][k].stage = "read", ![n][k].ver = v]
    /\ UNCHANGED <<version, active, triggers, pushing, hub, stream, up, told>>

\* The state message.
StreamState(n, k) ==
    /\ session[n][k].stage = "read"
    /\ session' = [session EXCEPT ![n][k] =
           [Send(@, session[n][k].ver) EXCEPT !.stage = "ready", !.ver = 0]]
    /\ UNCHANGED <<version, active, triggers, pushing, hub, stream, up, told, bounds>>

\* writeLoop writes the next message and the worker hears it.  It may still do
\* so after the session was closed.
Deliver(n, k) ==
    /\ stream[n] = k
    /\ session[n][k].queue # <<>>
    /\ session' = [session EXCEPT ![n][k].queue = Tail(@)]
    /\ Hear(n, Head(session[n][k].queue))
    /\ UNCHANGED <<version, active, triggers, pushing, hub, stream, up, bounds>>

\* The link breaks and the worker's read fails.
LinkLost(n) ==
    /\ stream[n] # 0 /\ Fault
    /\ stream' = [stream EXCEPT ![n] = 0]
    /\ UNCHANGED <<version, active, triggers, pushing, hub, session, up, told>>

\* The master finds out by a read, a write or a ping that fails.
MarkClosed(n, k) ==
    /\ stream[n] # k /\ ~session[n][k].closed
    /\ session' = [session EXCEPT ![n][k] = [Close(@) EXCEPT !.queue = <<>>]]
    /\ UNCHANGED <<version, active, triggers, pushing, hub, stream, up, told, bounds>>

\* Mutant: whatever session the node has now is removed.
MutForget(n, k) ==
    /\ session[n][k].closed /\ session[n][k].stage # "none" /\ hub[n] # 0
    /\ hub' = [hub EXCEPT ![n] = 0]
    /\ UNCHANGED <<version, active, triggers, pushing, session, stream, up, told, bounds>>

\* forget: a closed session leaves the hub unless it has been replaced.
Forget(n, k) ==
    /\ session[n][k].closed /\ hub[n] = k
    /\ hub' = [hub EXCEPT ![n] = 0]
    /\ UNCHANGED <<version, active, triggers, pushing, session, stream, up, told, bounds>>

\* writeLoop closes the connection of a closed session.
Hangup(n, k) ==
    /\ session[n][k].closed /\ stream[n] = k
    /\ stream' = [stream EXCEPT ![n] = 0]
    /\ session' = [session EXCEPT ![n][k].queue = <<>>]
    /\ UNCHANGED <<version, active, triggers, pushing, hub, up, told, bounds>>

-----------------------------------------------------------------------------
(* Processes and administration *)

Crash(n) ==
    /\ n \in up /\ Fault
    /\ up' = up \ {n}
    /\ stream' = [stream EXCEPT ![n] = 0]
    /\ UNCHANGED <<version, active, triggers, pushing, hub, session, told>>

\* A worker syncs before it opens its session.
Start(n) ==
    /\ n \in active \ up
    /\ up' = up \cup {n}
    /\ Hear(n, 0)
    /\ UNCHANGED <<version, active, triggers, pushing, streams, bounds>>

\* The sessions, the pending push and the triggers go with the process.
MasterCrash ==
    /\ MasterFault
    /\ triggers' = 0 /\ push' = "off" /\ todo' = {} /\ target' = NoTarget
    /\ hub' = [n \in Nodes |-> 0]
    /\ session' = [n \in Nodes |-> [k \in Ids |-> Unused]]
    /\ stream' = [n \in Nodes |-> 0]
    /\ UNCHANGED <<version, active, pushV, pushed, up, told>>

\* DeleteNode leaves the node's session alone.
Revoke(n) ==
    /\ revocations < MaxRevocations /\ n \in active
    /\ active' = active \ {n}
    /\ revocations' = revocations + 1
    /\ UNCHANGED <<version, triggers, pushing, streams, up, told, faults, masterFaults,
                   clicks>>

PushStep ==
    \/ TriggerPush \/ PushRead \/ PushReadFails \/ PushEnd
    \/ \E n \in Nodes : \/ PushLookup(n) \/ PushAddress(n) \/ PushUnreachable(n)
                        \/ \E k \in Ids : PushSession(n, k)

ServeStep(n, k) == StreamRead(n, k) \/ StreamState(n, k) \/ Deliver(n, k)

EndStep(n, k) == MarkClosed(n, k) \/ Forget(n, k) \/ Hangup(n, k)

Dial(n) == \E k \in Ids : StreamRegister(n, k)

Next ==
    \/ Mark \/ PushStep \/ MasterCrash
    \/ \E n \in Nodes :
         \/ Dial(n) \/ \E k \in Ids : ServeStep(n, k) \/ EndStep(n, k)
         \/ SyncNode(n) \/ LinkLost(n) \/ Crash(n) \/ Start(n) \/ Revoke(n)

Spec == Init /\ [][Next]_vars

\* The goroutines of the master run, a worker is restarted and dials again,
\* and a broken link is noticed.
Fairness ==
    /\ WF_vars(PushStep)
    /\ \A n \in Nodes :
         /\ WF_vars(Dial(n)) /\ WF_vars(Start(n))
         /\ \A k \in Ids : WF_vars(ServeStep(n, k)) /\ WF_vars(EndStep(n, k))

FairSpec == Spec /\ Fairness

-----------------------------------------------------------------------------
(* Properties *)

\* A worker that connects while the master pushes misses nothing: an open
\* session that has sent its state message was sent the newest pushed version,
\* a newer one, or the order to fetch.
StreamHasNoGap ==
    \A n \in Nodes, k \in Ids :
        session[n][k].stage = "ready" /\ ~session[n][k].closed =>
            \E m \in session[n][k].sent : m = 0 \/ m >= pushed[n]

\* An open session is the one the hub pushes to, so a node has at most one and
\* the end of a replaced session does not take the node offline.
OpenSessionIsReachable ==
    \A n \in Nodes, k \in Ids : ~session[n][k].closed => hub[n] = k

\* A version that was pushed reaches every node that keeps its registration,
\* through lost links, replaced and full sessions and crashes.
PushesArrive ==
    \A n \in Nodes, v \in 1..MaxVersion :
        pushed[n] >= v ~> (told[n] >= v \/ n \notin active)

=============================================================================
