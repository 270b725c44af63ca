------------------------- MODULE ConfigStreamProofs -------------------------
(***************************************************************************)
(* OpenSessionIsReachable and StreamHasNoGap hold for any number of nodes, *)
(* sessions, versions and faults.  A push uses a session it has looked up  *)
(* earlier, so the point is what happens to the other sessions of the node *)
(* meanwhile: whoever connects after the lookup reads a version that is at *)
(* least the one being pushed (LateSessionsAreCovered).                    *)
(***************************************************************************)
EXTENDS ConfigStream, TLAPS

Session == [stage : {"none", "registered", "read", "ready"}, ver : Nat, closed : BOOLEAN,
            queue : Seq(Nat), sent : SUBSET Nat]

\* The types the argument needs.
StreamTypes ==
    /\ version \in Nat /\ pushV \in Nat /\ pushed \in [Nodes -> Nat]
    /\ hub \in [Nodes -> 0 .. MaxSessions]
    /\ session \in [Nodes -> [Ids -> Session]]
    /\ active \subseteq Nodes /\ todo \subseteq Nodes

\* A push tells no version that does not exist yet.
PushesAreCommitted == pushV <= version /\ \A n \in Nodes : pushed[n] <= version

\* Only a push that is sending has a node in turn, and that node is still to do.
TurnIsPending ==
    target # NoTarget =>
        /\ push = "send"
        /\ \E n \in todo, t \in 0 .. MaxSessions : target = <<n, t>>

\* A session whose client has heard, or will hear by its state message, v or a newer
\* version, or the order to fetch.
Covered(s, v) ==
    \/ s.closed \/ s.stage = "registered"
    \/ \E m \in s.sent : m = 0 \/ m >= v
    \/ s.stage = "read" /\ (s.ver = 0 \/ s.ver >= v)

SessionsAreCovered == \A n \in Nodes, k \in Ids : Covered(session[n][k], pushed[n])

\* What is not the session in turn was registered after the lookup.
LateSessionsAreCovered ==
    \A n \in Nodes, t \in 0 .. MaxSessions :
        target = <<n, t>> => \A k \in Ids \ {t} : Covered(session[n][k], pushV)

StreamInv ==
    /\ StreamTypes /\ PushesAreCommitted /\ TurnIsPending /\ OpenSessionIsReachable
    /\ SessionsAreCovered /\ LateSessionsAreCovered

-----------------------------------------------------------------------------
\* What Send leaves of a session: a message that does not fit closes it, whatever else
\* was sent stays.
LEMMA SendFacts ==
    ASSUME NEW s \in Session, NEW v \in Nat
    PROVE  /\ Send(s, v) \in Session
           /\ Send(s, v).stage = s.stage /\ Send(s, v).ver = s.ver
           /\ Accepts(s) => ~Send(s, v).closed /\ ~s.closed
           /\ ~Accepts(s) => Send(s, v).closed
           /\ ~Send(s, v).closed => Send(s, v).sent = s.sent \cup {v}
<1>1. CASE Accepts(s)
  <2>1. Send(s, v) = [s EXCEPT !.queue = Append(@, v), !.sent = @ \cup {v}]
    BY <1>1 DEF Send
  <2>2. Append(s.queue, v) \in Seq(Nat) /\ s.sent \cup {v} \in SUBSET Nat
    BY DEF Session
  <2> QED BY <1>1, <2>1, <2>2 DEF Session, Accepts
<1>2. CASE ~Accepts(s)
  <2>1. Send(s, v) = [s EXCEPT !.closed = TRUE, !.sent = {}]
    BY <1>2 DEF Send, Close
  <2> QED BY <1>2, <2>1 DEF Session
<1> QED BY <1>1, <1>2

\* A session that sends another message covers what it covered.
LEMMA SendCovers ==
    ASSUME NEW s \in Session, NEW v \in Nat, NEW w \in Nat, Covered(s, w)
    PROVE  Covered(Send(s, v), w)
BY SendFacts DEF Covered

\* An older version is covered by what covers a newer one.
LEMMA CoveredDown ==
    ASSUME NEW s \in Session, NEW v \in Nat, NEW w \in Nat, w <= v, Covered(s, v)
    PROVE  Covered(s, w)
<1>1. s.ver \in Nat /\ s.sent \subseteq Nat
  BY DEF Session
<1> QED BY <1>1 DEF Covered

\* A node in turn is not the absence of one.
LEMMA NoTargetIsNone == \A n, t : NoTarget # <<n, t>>
BY DEF NoTarget

\* A session that has just been registered.
LEMMA RegisteredFacts ==
    ASSUME NEW s \in Session
    PROVE  LET fresh == [s EXCEPT !.stage = "registered", !.closed = FALSE]
           IN  fresh \in Session /\ ~fresh.closed /\ fresh.stage = "registered"
BY DEF Session

\* A session of a node after another one was registered.
LEMMA ReplacedSession ==
    ASSUME NEW k, NEW h, h # k, NEW S, NEW fresh, NEW old, NEW new,
           new = [j \in S |-> CASE j = k -> fresh [] j = h -> Close(old[j]) [] OTHER -> old[j]]
    PROVE  \A j \in S : /\ j = k => new[j] = fresh
                        /\ j = h => new[j] = Close(old[j])
                        /\ j # k /\ j # h => new[j] = old[j]
OBVIOUS

\* The invariant holds in the beginning.
LEMMA StreamStarts == Init => StreamInv
<1> SUFFICES ASSUME Init PROVE StreamInv
  OBVIOUS
<1>1. Unused \in Session /\ Unused.closed
  BY DEF Unused, Session
<1>2. \A n \in Nodes, k \in Ids : session[n][k] = Unused
  BY DEF Init
<1>3. StreamTypes
  BY <1>1, StreamAssumption DEF Init, StreamTypes, Ids
<1>4. \A n \in Nodes, t \in 0 .. MaxSessions : target # <<n, t>>
  BY DEF Init, NoTarget
<1>5. TurnIsPending /\ PushesAreCommitted
  BY DEF Init, TurnIsPending, PushesAreCommitted
<1> QED BY <1>1, <1>2, <1>3, <1>4, <1>5
      DEF StreamInv, OpenSessionIsReachable, SessionsAreCovered, LateSessionsAreCovered, Covered

\* What the invariant is about, besides the sessions.
Rest == <<version, active, pushing, hub>>

\* A step that changes one session, which is not opened by it and covers what it covered.
LEMMA SessionStep ==
    ASSUME StreamInv, UNCHANGED Rest, NEW n \in Nodes, NEW k \in Ids, NEW new \in Session,
           session' = [session EXCEPT ![n][k] = new],
           ~new.closed => ~session[n][k].closed,
           \A v \in 0 .. version : Covered(session[n][k], v) => Covered(new, v)
    PROVE  StreamInv'
<1> USE DEF StreamInv, Rest, pushing
<1>1. StreamTypes'
  BY DEF StreamTypes
<1>2. PushesAreCommitted' /\ TurnIsPending'
  BY DEF PushesAreCommitted, TurnIsPending
<1>3. \A m \in Nodes, j \in Ids : session'[m][j] = IF m = n /\ j = k THEN new ELSE session[m][j]
  BY DEF StreamTypes
<1>4. OpenSessionIsReachable'
  BY <1>3 DEF OpenSessionIsReachable
<1>5. \A m \in Nodes, j \in Ids, v \in 0 .. version :
          Covered(session[m][j], v) => Covered(session'[m][j], v)
  BY <1>3
<1>6. pushV \in 0 .. version /\ \A m \in Nodes : pushed[m] \in 0 .. version
  BY DEF StreamTypes, PushesAreCommitted
<1>7. SessionsAreCovered'
  BY <1>5, <1>6 DEF SessionsAreCovered
<1>8. LateSessionsAreCovered'
  BY <1>5, <1>6 DEF LateSessionsAreCovered
<1> QED BY <1>1, <1>2, <1>4, <1>7, <1>8

-----------------------------------------------------------------------------
(* The steps of a session. *)

\* A session that has read a version, one with another channel, and one that ends.
ReadBy(s, v) == [s EXCEPT !.stage = "read", !.ver = v]
Queued(s, q) == [s EXCEPT !.queue = q]

\* What these changes leave of a session.
LEMMA PartFacts ==
    ASSUME NEW s \in Session, NEW v \in Nat, NEW q \in Seq(Nat)
    PROVE  /\ ReadBy(s, v) \in Session /\ ReadBy(s, v).closed = s.closed
           /\ ReadBy(s, v).stage = "read" /\ ReadBy(s, v).ver = v
           /\ Queued(s, q) \in Session /\ Queued(s, q).closed = s.closed
           /\ Queued(s, q).stage = s.stage /\ Queued(s, q).ver = s.ver
           /\ Queued(s, q).sent = s.sent
           /\ Close(s) \in Session /\ Close(s).closed
BY DEF Session, Close, ReadBy, Queued

\* What the hub sends to a session at an administrator's request.
LEMMA SyncNodeKeeps == ASSUME StreamInv, NEW n \in Nodes, SyncNode(n) PROVE StreamInv'
<1> DEFINE k == hub[n]
           s == session[n][k]
<1> USE DEF SyncNode
<1>1. UNCHANGED Rest
  BY DEF Rest
<1>2. CASE k = 0
  BY <1>1, <1>2 DEF StreamInv, StreamTypes, PushesAreCommitted, TurnIsPending, SessionsAreCovered,
     OpenSessionIsReachable, LateSessionsAreCovered, Rest, pushing
<1>3. CASE k # 0
  <2>1. k \in Ids /\ s \in Session /\ version \in Nat
    BY <1>3, StreamAssumption DEF StreamInv, StreamTypes, Ids
  <2>2. session' = [session EXCEPT ![n][k] = Send(s, version)]
    BY <1>3
  <2>3. Send(s, version) \in Session /\ (~Send(s, version).closed => ~s.closed)
    BY <2>1, SendFacts
  <2>4. \A v \in 0 .. version : Covered(s, v) => Covered(Send(s, version), v)
    BY <2>1, SendCovers
  <2> HIDE DEF k, s
  <2>5. s = session[n][k]
    BY DEF s
  <2> QED BY <1>1, <2>1, <2>2, <2>3, <2>4, <2>5, SessionStep
<1> QED BY <1>2, <1>3

\* A session reads a version that is at least every one pushed so far.
LEMMA StreamReadKeeps ==
    ASSUME StreamInv, NEW n \in Nodes, NEW k \in Ids, StreamRead(n, k) PROVE StreamInv'
<1> DEFINE s == session[n][k]
<1>1. UNCHANGED Rest /\ s.stage = "registered"
  BY DEF StreamRead, Rest
<1>2. s \in Session /\ version \in Nat
  BY DEF StreamInv, StreamTypes
<1>3. PICK v \in {version, 0} :
          session' = [session EXCEPT ![n][k].stage = "read", ![n][k].ver = v]
  BY DEF StreamRead
<1> DEFINE new == ReadBy(s, v)
<1>4. session' = [session EXCEPT ![n][k] = new]
  BY <1>2, <1>3 DEF StreamInv, StreamTypes, ReadBy
<1>5. new \in Session /\ new.closed = s.closed /\ new.stage = "read" /\ new.ver = v
  <2>1. v \in Nat /\ <<>> \in Seq(Nat)
    BY <1>2, <1>3
  <2> HIDE DEF s
  <2> QED BY <1>2, <2>1, PartFacts
<1>6. \A w \in 0 .. version : Covered(new, w)
  BY <1>2, <1>3, <1>5 DEF Covered
<1>7. s = session[n][k]
  OBVIOUS
<1> HIDE DEF new, s
<1> QED BY <1>1, <1>4, <1>5, <1>6, <1>7, SessionStep

\* The state message takes the place of the version that was read.
LEMMA StreamStateKeeps ==
    ASSUME StreamInv, NEW n \in Nodes, NEW k \in Ids, StreamState(n, k) PROVE StreamInv'
<1> DEFINE s == session[n][k]
           told1 == Send(s, s.ver)
           new == [told1 EXCEPT !.stage = "ready", !.ver = 0]
<1>1. UNCHANGED Rest /\ s.stage = "read"
  BY DEF StreamState, Rest
<1>2. s \in Session /\ s.ver \in Nat /\ s.sent \subseteq Nat
  BY DEF StreamInv, StreamTypes, Session
<1>3. session' = [session EXCEPT ![n][k] = new]
  BY DEF StreamState
<1>4. told1 \in Session /\ (~told1.closed => ~s.closed /\ told1.sent = s.sent \cup {s.ver})
  BY <1>2, SendFacts
<1> HIDE DEF told1
<1>5. new \in Session /\ new.closed = told1.closed /\ new.sent = told1.sent
  BY <1>4 DEF Session
<1>6. \A w \in 0 .. version : Covered(s, w) => Covered(new, w)
  BY <1>1, <1>2, <1>4, <1>5 DEF Covered
<1>7. s = session[n][k]
  OBVIOUS
<1> HIDE DEF new, s
<1> QED BY <1>1, <1>3, <1>4, <1>5, <1>6, <1>7, SessionStep

\* A message that leaves the channel was sent all the same.
LEMMA DeliverKeeps ==
    ASSUME StreamInv, NEW n \in Nodes, NEW k \in Ids, Deliver(n, k) PROVE StreamInv'
<1> DEFINE s == session[n][k]
           new == Queued(s, Tail(s.queue))
<1>1. UNCHANGED Rest
  BY DEF Deliver, Rest
<1>2. s \in Session /\ version \in Nat
  BY DEF StreamInv, StreamTypes
<1>3. session' = [session EXCEPT ![n][k] = new]
  BY DEF Deliver, StreamInv, StreamTypes, Queued
<1>4. /\ new \in Session /\ new.closed = s.closed /\ new.sent = s.sent
      /\ new.stage = s.stage /\ new.ver = s.ver
  <2>1. s.queue \in Seq(Nat) /\ s.queue # <<>>
    BY <1>2 DEF Session, Deliver
  <2>2. Tail(s.queue) \in Seq(Nat)
    BY <2>1
  <2> HIDE DEF s
  <2> QED BY <1>2, <2>2, PartFacts
<1>5. \A w \in 0 .. version : Covered(s, w) => Covered(new, w)
  BY <1>4 DEF Covered
<1>6. s = session[n][k]
  OBVIOUS
<1> HIDE DEF new, s
<1> QED BY <1>1, <1>3, <1>4, <1>5, <1>6, SessionStep

\* A session that ends owes nothing to anybody.
LEMMA SessionEnds ==
    ASSUME StreamInv, NEW n \in Nodes, NEW k \in Ids, MarkClosed(n, k) \/ Hangup(n, k)
    PROVE  StreamInv'
<1> DEFINE s == session[n][k]
           marked == Queued(Close(s), <<>>)
           hung == Queued(s, <<>>)
<1>1. UNCHANGED Rest
  BY DEF MarkClosed, Hangup, Rest
<1>2. s \in Session /\ version \in Nat /\ <<>> \in Seq(Nat)
  BY DEF StreamInv, StreamTypes
<1>3. marked \in Session /\ marked.closed /\ hung \in Session /\ hung.closed = s.closed
  <2> HIDE DEF s
  <2>1. Close(s) \in Session /\ Close(s).closed
    BY <1>2, PartFacts
  <2> QED BY <1>2, <2>1, PartFacts
<1>4. PICK new \in Session : new.closed /\ session' = [session EXCEPT ![n][k] = new]
  <2>1. CASE MarkClosed(n, k)
    <3>1. session' = [session EXCEPT ![n][k] = marked]
      BY <2>1 DEF MarkClosed, Queued
    <3> QED BY <1>3, <3>1
  <2>2. CASE Hangup(n, k)
    <3>1. session' = [session EXCEPT ![n][k] = hung]
      BY <2>2 DEF Hangup, StreamInv, StreamTypes, Queued
    <3> QED BY <1>3, <2>2, <3>1 DEF Hangup
  <2> QED BY <2>1, <2>2
<1>5. \A w \in 0 .. version : Covered(new, w)
  BY <1>4 DEF Covered
<1> QED BY <1>1, <1>4, <1>5, SessionStep

\* A new session replaces the hub's, which is closed: only the new one is open, and it has
\* still to read the version.
LEMMA StreamRegisterKeeps ==
    ASSUME StreamInv, NEW n \in Nodes, NEW k \in Ids, StreamRegister(n, k) PROVE StreamInv'
<1> DEFINE fresh == [Unused EXCEPT !.stage = "registered", !.closed = FALSE]
<1> USE DEF StreamInv
<1>1. UNCHANGED <<version, active, pushing>> /\ hub' = [hub EXCEPT ![n] = k]
  BY DEF StreamRegister
<1>2. hub[n] # k /\ target # <<n, k>>
  BY DEF StreamRegister, Free
<1>3. fresh \in Session /\ ~fresh.closed /\ fresh.stage = "registered"
  <2>1. Unused \in Session
    BY DEF Unused, Session
  <2> QED BY <2>1, RegisteredFacts
<1> HIDE DEF fresh
<1>4. \A j \in Ids : /\ j = k => session'[n][j] = fresh
                     /\ j = hub[n] => session'[n][j] = Close(session[n][j])
                     /\ j # k /\ j # hub[n] => session'[n][j] = session[n][j]
  <2>1. session' = [session EXCEPT ![n] = [j \in Ids |->
            CASE j = k -> fresh
              [] j = hub[n] -> Close(session[n][j])
              [] OTHER -> session[n][j]]]
    BY DEF StreamRegister, fresh
  <2>2. session'[n] = [j \in Ids |-> CASE j = k -> fresh
                                       [] j = hub[n] -> Close(session[n][j])
                                       [] OTHER -> session[n][j]]
    BY <2>1 DEF StreamTypes
  <2> HIDE DEF StreamInv
  <2> QED BY <1>2, <2>2, ReplacedSession
<1>5. \A m \in Nodes \ {n} : session'[m] = session[m] /\ hub'[m] = hub[m]
  BY <1>1 DEF StreamRegister, StreamTypes
<1>6. \A j \in Ids : session[n][j] \in Session /\ Close(session[n][j]) \in Session
                     /\ Close(session[n][j]).closed
  <2>1. \A s \in Session : Close(s) \in Session /\ Close(s).closed
    BY DEF Session, Close
  <2> QED BY <2>1 DEF StreamTypes
<1>7. StreamTypes'
  <2>1. session' \in [Nodes -> [Ids -> Session]]
    <3>1. session' = [session EXCEPT ![n] = session'[n]]
      BY DEF StreamRegister, StreamTypes
    <3>2. session'[n] \in [Ids -> Session]
      <4>1. session'[n] = [j \in Ids |-> session'[n][j]]
        BY DEF StreamRegister, StreamTypes
      <4>2. \A j \in Ids : session'[n][j] \in Session
        BY <1>3, <1>4, <1>6 DEF StreamTypes
      <4> QED BY <4>1, <4>2
    <3> QED BY <3>1, <3>2 DEF StreamTypes
  <2>2. hub' \in [Nodes -> 0 .. MaxSessions]
    BY <1>1, StreamAssumption DEF StreamTypes, Ids
  <2> QED BY <1>1, <2>1, <2>2 DEF StreamTypes, pushing
<1>8. OpenSessionIsReachable'
  <2>1. \A j \in Ids : ~session'[n][j].closed => hub'[n] = j
    BY <1>1, <1>4, <1>6 DEF OpenSessionIsReachable, StreamTypes
  <2> QED BY <1>5, <2>1 DEF OpenSessionIsReachable
<1>9. \A m \in Nodes, j \in Ids, v \in Nat :
          Covered(session[m][j], v) => Covered(session'[m][j], v)
  BY <1>3, <1>4, <1>5, <1>6 DEF Covered
<1>10. SessionsAreCovered' /\ PushesAreCommitted' /\ TurnIsPending'
  BY <1>1, <1>9 DEF SessionsAreCovered, PushesAreCommitted, TurnIsPending, StreamTypes, pushing
<1>11. LateSessionsAreCovered'
  BY <1>1, <1>9 DEF LateSessionsAreCovered, StreamTypes, pushing
<1> QED BY <1>7, <1>8, <1>10, <1>11

\* A session leaves the hub only when it is closed and still the hub's.
LEMMA ForgetKeeps ==
    ASSUME StreamInv, NEW n \in Nodes, NEW k \in Ids, Forget(n, k) PROVE StreamInv'
<1> USE DEF StreamInv
<1>1. UNCHANGED <<version, active, pushing, session>> /\ hub' = [hub EXCEPT ![n] = 0]
  BY DEF Forget
<1>2. StreamTypes'
  BY <1>1, StreamAssumption DEF StreamTypes, pushing
<1>3. OpenSessionIsReachable'
  BY <1>1 DEF OpenSessionIsReachable, Forget, StreamTypes
<1>4. /\ PushesAreCommitted' /\ TurnIsPending' /\ SessionsAreCovered'
      /\ LateSessionsAreCovered'
  BY <1>1 DEF PushesAreCommitted, TurnIsPending, SessionsAreCovered, LateSessionsAreCovered,
     pushing
<1> QED BY <1>2, <1>3, <1>4

-----------------------------------------------------------------------------
(* The steps of a push. *)

\* The steps that start a push, fail to read, choose a node and end.
LEMMA PushProceeds ==
    ASSUME StreamInv,
           TriggerPush \/ PushRead \/ PushReadFails \/ PushEnd \/ \E n \in Nodes : PushLookup(n)
    PROVE  StreamInv'
<1> USE DEF StreamInv
<1>1. UNCHANGED <<version, active, pushed, hub, session>>
  BY DEF TriggerPush, PushRead, PushReadFails, PushEnd, PushLookup, streams
<1>2. OpenSessionIsReachable' /\ SessionsAreCovered'
  BY <1>1 DEF OpenSessionIsReachable, SessionsAreCovered
<1>3. StreamTypes' /\ PushesAreCommitted'
  BY <1>1 DEF TriggerPush, PushRead, PushReadFails, PushEnd, PushLookup, StreamTypes,
     PushesAreCommitted
<1>4. CASE TriggerPush
  BY <1>1, <1>2, <1>3, <1>4 DEF TriggerPush, TurnIsPending, LateSessionsAreCovered
<1>5. CASE PushRead
  <2>1. target = NoTarget /\ target' = NoTarget
    BY <1>5 DEF PushRead, TurnIsPending
  <2> QED BY <1>2, <1>3, <2>1, NoTargetIsNone DEF TurnIsPending, LateSessionsAreCovered
<1>6. CASE PushReadFails
  <2>1. target = NoTarget /\ target' = NoTarget
    BY <1>6 DEF PushReadFails, TurnIsPending
  <2> QED BY <1>2, <1>3, <2>1, NoTargetIsNone DEF TurnIsPending, LateSessionsAreCovered
<1>7. CASE PushEnd
  <2>1. target = NoTarget /\ target' = NoTarget
    BY <1>7 DEF PushEnd, TurnIsPending
  <2> QED BY <1>2, <1>3, <2>1, NoTargetIsNone DEF TurnIsPending, LateSessionsAreCovered
<1>8. ASSUME NEW n \in Nodes, PushLookup(n) PROVE StreamInv'
  <2>1. /\ push = "send" /\ n \in todo /\ target' = <<n, hub[n]>>
        /\ UNCHANGED <<push, pushV, todo>>
    BY <1>8 DEF PushLookup, FindSession
  <2>2. hub[n] \in 0 .. MaxSessions
    BY DEF StreamTypes
  <2>3. \A k \in Ids \ {hub[n]} : Covered(session[n][k], pushV)
    BY DEF OpenSessionIsReachable, Covered
  <2>4. TurnIsPending'
    BY <2>1, <2>2 DEF TurnIsPending
  <2>5. LateSessionsAreCovered'
    BY <1>1, <2>1, <2>3 DEF LateSessionsAreCovered
  <2> QED BY <1>2, <1>3, <2>4, <2>5
<1> QED BY <1>4, <1>5, <1>6, <1>7, <1>8

\* A push is done with a node when all its sessions cover the version.
LEMMA PushDoneKeeps ==
    ASSUME StreamInv, NEW n \in Nodes, PushDone(n), UNCHANGED <<version, active, hub>>,
           session' \in [Nodes -> [Ids -> Session]], OpenSessionIsReachable',
           \A m \in Nodes \ {n} : session'[m] = session[m],
           \A k \in Ids : Covered(session'[n][k], pushV)
    PROVE  StreamInv'
<1> USE DEF StreamInv
<1>1. /\ UNCHANGED <<push, pushV>> /\ target' = NoTarget /\ todo' = todo \ {n}
      /\ pushed' = [pushed EXCEPT ![n] = pushV]
  BY DEF PushDone
<1>2. StreamTypes' /\ PushesAreCommitted'
  BY <1>1 DEF StreamTypes, PushesAreCommitted
<1>3. SessionsAreCovered'
  BY <1>1 DEF SessionsAreCovered, StreamTypes
<1>4. TurnIsPending' /\ LateSessionsAreCovered'
  BY <1>1, NoTargetIsNone DEF TurnIsPending, LateSessionsAreCovered
<1> QED BY <1>2, <1>3, <1>4

\* The session found takes the message, or is closed and the address is next.
LEMMA PushSessionKeeps ==
    ASSUME StreamInv, NEW n \in Nodes, NEW k \in Ids, PushSession(n, k) PROVE StreamInv'
<1> DEFINE s == session[n][k]
           new == Send(s, pushV)
<1> USE DEF StreamInv
<1>1. /\ target = <<n, k>> /\ UNCHANGED <<version, active, hub>>
      /\ session' = [session EXCEPT ![n][k] = new]
  BY DEF PushSession
<1>2. s \in Session /\ pushV \in Nat /\ k \in 0 .. MaxSessions
  BY StreamAssumption DEF StreamTypes, Ids
<1>3. /\ new \in Session /\ (Accepts(s) => ~new.closed /\ ~s.closed)
      /\ (~Accepts(s) => new.closed) /\ (~new.closed => new.sent = s.sent \cup {pushV})
  BY <1>2, SendFacts
<1>4. \A w \in Nat : Covered(s, w) => Covered(new, w)
  BY <1>2, SendCovers
<1>5. Covered(new, pushV)
  BY <1>2, <1>3 DEF Covered
<1>6. s = session[n][k]
  OBVIOUS
<1> HIDE DEF new, s
<1>7. session' \in [Nodes -> [Ids -> Session]]
  BY <1>1, <1>3 DEF StreamTypes
<1>8. \A m \in Nodes, j \in Ids : session'[m][j] = IF m = n /\ j = k THEN new ELSE session[m][j]
  BY <1>1 DEF StreamTypes
<1>9. OpenSessionIsReachable'
  BY <1>1, <1>3, <1>6, <1>8 DEF OpenSessionIsReachable
<1>10. \A j \in Ids : Covered(session'[n][j], pushV)
  BY <1>1, <1>2, <1>5, <1>8 DEF LateSessionsAreCovered
<1>11. CASE Accepts(s)
  <2>1. PushDone(n)
    BY <1>6, <1>11 DEF PushSession
  <2>2. \A m \in Nodes \ {n} : session'[m] = session[m]
    BY <1>1 DEF StreamTypes
  <2> QED BY <1>1, <1>7, <1>9, <1>10, <2>1, <2>2, PushDoneKeeps
<1>12. CASE ~Accepts(s)
  <2>1. target' = <<n, 0>> /\ UNCHANGED <<push, pushV, todo, pushed>>
    BY <1>6, <1>12 DEF PushSession
  <2>2. StreamTypes' /\ PushesAreCommitted'
    BY <1>1, <1>7, <2>1 DEF StreamTypes, PushesAreCommitted
  <2>3. push = "send" /\ n \in todo
    BY <1>1, NoTargetIsNone DEF TurnIsPending
  <2>4. TurnIsPending'
    BY <2>1, <2>3, StreamAssumption DEF TurnIsPending
  <2>5. SessionsAreCovered'
    BY <1>4, <1>6, <1>8, <2>1 DEF SessionsAreCovered, StreamTypes
  <2>6. LateSessionsAreCovered'
    BY <1>10, <2>1 DEF LateSessionsAreCovered
  <2> QED BY <1>9, <2>2, <2>4, <2>5, <2>6
<1> QED BY <1>11, <1>12

\* Without a session in turn every session of the node was registered after the lookup.
LEMMA PushCallKeeps ==
    ASSUME StreamInv, NEW n \in Nodes, PushAddress(n) \/ PushUnreachable(n) PROVE StreamInv'
<1> USE DEF StreamInv
<1>1. target = <<n, 0>> /\ PushDone(n) /\ UNCHANGED <<version, active, hub, session>>
  BY DEF PushAddress, PushUnreachable, streams
<1>2. 0 \in 0 .. MaxSessions /\ 0 \notin Ids
  BY StreamAssumption DEF Ids
<1>3. \A k \in Ids : Covered(session'[n][k], pushV)
  BY <1>1, <1>2 DEF LateSessionsAreCovered
<1>4. session' \in [Nodes -> [Ids -> Session]] /\ OpenSessionIsReachable'
  BY <1>1 DEF StreamTypes, OpenSessionIsReachable
<1> QED BY <1>1, <1>3, <1>4, PushDoneKeeps

-----------------------------------------------------------------------------
(* The other steps. *)

\* A new version is covered by nothing yet, and pushed by nobody.
LEMMA MarkKeeps == ASSUME StreamInv, Mark PROVE StreamInv'
<1>1. version' = version + 1 /\ UNCHANGED <<active, pushing, hub, session>>
  BY DEF Mark, streams
<1> QED BY <1>1 DEF StreamInv, StreamTypes, PushesAreCommitted, TurnIsPending, pushing,
    OpenSessionIsReachable, SessionsAreCovered, LateSessionsAreCovered

\* Links, workers and registrations come and go without a session of the master noticing.
LEMMA Untouched ==
    ASSUME StreamInv, UNCHANGED <<version, pushing, hub, session>>, active' \subseteq Nodes
    PROVE  StreamInv'
BY DEF StreamInv, StreamTypes, PushesAreCommitted, TurnIsPending, pushing,
   OpenSessionIsReachable, SessionsAreCovered, LateSessionsAreCovered

\* A master that starts again has neither sessions nor a push.
LEMMA MasterCrashKeeps == ASSUME StreamInv, MasterCrash PROVE StreamInv'
<1> USE DEF StreamInv
<1>1. Unused \in Session /\ Unused.closed
  BY DEF Unused, Session
<1>2. \A n \in Nodes, k \in Ids : session'[n][k] = Unused
  BY DEF MasterCrash
<1>3. StreamTypes' /\ PushesAreCommitted'
  BY <1>1, StreamAssumption DEF MasterCrash, StreamTypes, PushesAreCommitted, Ids
<1>4. target' = NoTarget
  BY DEF MasterCrash
<1> QED BY <1>1, <1>2, <1>3, <1>4, NoTargetIsNone DEF OpenSessionIsReachable, TurnIsPending,
    SessionsAreCovered, LateSessionsAreCovered, Covered

\* Every step keeps the invariant.
LEMMA StreamSteps == StreamInv /\ [Next]_vars => StreamInv'
<1> SUFFICES ASSUME StreamInv, [Next]_vars PROVE StreamInv'
  OBVIOUS
<1>1. active \subseteq Nodes
  BY DEF StreamInv, StreamTypes
<1>2. CASE Mark \/ MasterCrash
  BY <1>2, MarkKeeps, MasterCrashKeeps
<1>3. CASE PushStep
  BY <1>3, PushProceeds, PushSessionKeeps, PushCallKeeps DEF PushStep
<1>4. ASSUME NEW n \in Nodes, NEW k \in Ids,
             StreamRegister(n, k) \/ ServeStep(n, k) \/ EndStep(n, k)
      PROVE  StreamInv'
  BY <1>4, StreamRegisterKeeps, StreamReadKeeps, StreamStateKeeps, DeliverKeeps, SessionEnds,
     ForgetKeeps DEF ServeStep, EndStep
<1>5. ASSUME NEW n \in Nodes, SyncNode(n) PROVE StreamInv'
  BY <1>5, SyncNodeKeeps
<1>6. ASSUME NEW n \in Nodes, LinkLost(n) \/ Crash(n) \/ Start(n) \/ Revoke(n)
      PROVE  StreamInv'
  <2>1. UNCHANGED <<version, pushing, hub, session>> /\ active' \subseteq Nodes
    BY <1>1, <1>6 DEF LinkLost, Crash, Start, Revoke, streams
  <2> QED BY <2>1, Untouched
<1>7. CASE UNCHANGED vars
  BY <1>1, <1>7, Untouched DEF vars, streams
<1> QED BY <1>2, <1>3, <1>4, <1>5, <1>6, <1>7 DEF Next, Dial

\* The inductive invariant of pushes and sessions: whatever session of a node is not the
\* one in turn has sent, or will send, at least the version being pushed.
THEOREM StreamSafe == Spec => []StreamInv
BY StreamStarts, StreamSteps, PTL DEF Spec

\* ws_hub.go:146 and :166: an open session is the one the hub pushes to, whatever replaced, closed or
\* forgot the others.
THEOREM OpenSessionsAreReachable == Spec => []OpenSessionIsReachable
<1>1. StreamInv => OpenSessionIsReachable
  BY DEF StreamInv
<1> QED BY <1>1, StreamSafe, PTL

\* ws_hub.go:247: a worker that connects while the master pushes misses nothing.
THEOREM StreamsHaveNoGap == Spec => []StreamHasNoGap
<1>1. StreamInv => StreamHasNoGap
  BY DEF StreamInv, SessionsAreCovered, Covered, StreamHasNoGap
<1> QED BY <1>1, StreamSafe, PTL
=============================================================================
