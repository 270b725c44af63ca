-------------------------- MODULE MediaRelayProofs --------------------------
(***************************************************************************)
(* The keys requests are served with, for any number of requests, keys,    *)
(* channels and changes and any list of candidates: a revoked key is not   *)
(* served, first uses agree, a usage row names the key that answered and a *)
(* later call about a video reaches the account that made it.              *)
(***************************************************************************)
EXTENDS MediaRelay, TLAPS

CallFields == {"pc", "channel", "conversation", "nilExcluded", "excluded", "anyModel", "version",
               "rows", "available", "bound", "pick", "revoked"}
JobFields  == {"kind", "mode", "pc", "index", "key", "excluded", "attempts", "reason", "last",
               "lastKey", "answeredBy", "row"}
PollFields == {"pc", "task", "by", "route", "used"}
RouteFields == {"by", "mode", "channel", "key", "url"}

\* Stages of a call that has drawn a key.
KeyStages == {"insert", "replace", "bound", "remember", "chosen", "reload", "reloaded"}

CallTyped(q) ==
    /\ DOMAIN q = CallFields
    /\ q.pc # "idle" => q.channel \in Channels
    /\ q.version \in 0..version
    /\ q.rows \subseteq Creds /\ q.available \subseteq Creds /\ q.revoked \subseteq Creds
    /\ q.pc \in KeyStages => q.pick \in Creds

JobTyped(q) ==
    /\ DOMAIN q = JobFields
    /\ q.index \in 1..Len(candidates)
    /\ q.kind \notin {"chat", "talk"} \/ q.pc = "start" => q.excluded = {}

\* Every increment of the version was announced by a change.
Typed ==
    /\ DOMAIN status = Creds
    /\ pool \in [Channels -> [0..MaxChanges -> SUBSET Creds]]
    /\ DOMAIN memory = Channels /\ DOMAIN binding = Channels /\ DOMAIN bindingCache = Channels
    /\ admin \in Creds \cup {None}
    /\ version \in Nat /\ changes \in 0..MaxChanges
    /\ version <= changes /\ (admin # None => version < changes)
    /\ candidates \in Seq(Channels) /\ Len(candidates) # 0
    /\ DOMAIN job = Requests /\ \A r \in Requests : JobTyped(job[r])
    /\ DOMAIN call = Requests /\ \A r \in Requests : CallTyped(call[r])

-----------------------------------------------------------------------------
(* Revoked keys. *)

\* A key the console wrote off is cached under the current version only until
\* the console has ended its call, and no request that began since then ...
Clean(c) ==
    status[c] \in {"off", "deleted"}
    => c = admin /\ \A r \in Requests : c \notin call[r].revoked

\* ... holds one that was revoked before it.
Unrevoked(q) ==
    \A c \in q.revoked : /\ status[c] \in {"off", "deleted"}
                         /\ c \notin q.rows \cup q.available /\ c # q.pick

RevokedInv ==
    /\ \A r \in Requests : Unrevoked(call[r])
    /\ \A ch \in Channels : \A c \in pool[ch][version] : Clean(c)
    /\ \A ch \in Channels, v \in 0..MaxChanges : v > version => pool[ch][v] = {}
    /\ \A r \in Requests : call[r].pc = "store" /\ call[r].version = version
                           => \A c \in call[r].rows : Clean(c)

-----------------------------------------------------------------------------
(* First uses. *)

Steady == changes = 0 /\ \A r \in Requests : job[r].kind \notin {"chat", "talk"}

Enabled(ch) == {c \in Creds : ChannelOf[c] = ch /\ status[c] = "on"}

BindingStages == {"binding", "load", "loaded", "insert", "reload", "reloaded", "bound"}

FirstUse(q, b) ==
    q.pc # "idle" =>
       /\ ~ q.conversation /\ q.nilExcluded /\ q.excluded = {}
       /\ q.pc \notin {"replace", "affinity", "remember"}
       /\ q.pc \in {"store", "filter"} => q.rows = Enabled(q.channel)
       /\ q.pc \in BindingStages => q.available = Enabled(q.channel)
       /\ q.pc = "insert" => q.pick \in Enabled(q.channel)
       /\ q.pc \in {"loaded", "reloaded"} => q.bound = b[q.channel]
       /\ q.pc \in {"bound", "chosen"} => q.pick = b[q.channel]
       /\ q.pc \in {"loaded", "reload", "reloaded", "bound", "chosen"} => b[q.channel] # None

SteadyInv ==
    Steady => /\ cooldown = {} /\ cooling = {}
              /\ \A ch \in Channels, v \in 0..MaxChanges : pool[ch][v] \in {{}, Enabled(ch)}
              /\ \A ch \in Channels : /\ binding[ch] \in Enabled(ch) \cup {None}
                                      /\ bindingCache[ch] \in {binding[ch], None}
              /\ \A r \in Requests : FirstUse(call[r], binding)

-----------------------------------------------------------------------------
(* Rows. *)

Answering == {"speech", "transcription", "image"}

RowSafe(q) ==
    /\ q.row # NoRow => q.pc = "end" /\ q.kind \in Answering
    /\ q.kind \in Answering /\ q.answeredBy # None
         => \/ q.pc = "finish" /\ q.lastKey = q.answeredBy /\ q.last.status = "ok"
            \/ q.pc = "end" /\ (q.row = NoRow \/ (q.row.key = q.answeredBy /\ q.row.status = "ok"))

RowInv == \A r \in Requests : RowSafe(job[r])

-----------------------------------------------------------------------------
(* Tasks. *)

\* Requester r had task t made at channel ch with key c.
Made(r, ch, c, t) == [by |-> r, account |-> Account(ch, c)] \in creator[t]

\* A route, or the copy a later call works with, leads to where its task was made.
LeadsTo(x, t) ==
    /\ DOMAIN x = RouteFields /\ x.url \in {"none", "own", "other"}
    /\ x.channel \in Channels /\ Made(x.by, x.channel, x.key, t)

\* A task that waits to be stored was created where the request stands.
Pending(r) ==
    job[r].pc = "store" =>
        /\ job[r].answeredBy \in Tasks
        /\ candidates[job[r].index] \in Channels
        /\ Made(r, candidates[job[r].index], job[r].key, job[r].answeredBy)

PollSafe ==
    /\ poll.pc # "idle" => /\ poll.task \in Tasks /\ LeadsTo(poll.route, poll.task)
                           /\ poll.route.by = poll.by
    /\ poll.pc \in {"answered", "keep"} =>
           poll.used = Account(poll.route.channel, poll.route.key)
    /\ poll.pc = "fetched" => poll.used = Account(poll.route.channel, None)

TaskInv ==
    /\ DOMAIN creator = Tasks /\ DOMAIN route = Tasks /\ DOMAIN poll = PollFields
    /\ \A r \in Requests : Pending(r)
    /\ \A t \in Tasks : route[t] # None => LeadsTo(route[t], t)
    /\ PollSafe

-----------------------------------------------------------------------------
(* Calls, one request at a time. *)

\* One call goes on, the others stay where they are.
CallBecomes(r, n) ==
    DOMAIN call' = Requests /\ call'[r] = n /\ \A s \in Requests \ {r} : call'[s] = call[s]

\* A step of SelectCredential keeps what a call knows.
CallSafe(q) == CallTyped(q) /\ Unrevoked(q)

\* Rows about to be cached are listed a moment ago.
Listed(n) == n.pc = "store" => \A c \in n.rows : status[c] = "on"

CallAdvances(r) ==
    \E n : CallBecomes(r, n) /\ CallSafe(n) /\ n.revoked = call[r].revoked /\ Listed(n)

\* A call that returns a key.
LEMMA ChosenCall ==
    ASSUME Typed, NEW r \in Requests, Unrevoked(call[r]), call[r].pc # "idle", NEW c \in Creds,
           c \notin call[r].revoked, Chosen(r, c)
    PROVE  CallAdvances(r)
<1> DEFINE q == call[r]
           n == [Idle EXCEPT !.pc = "chosen", !.pick = c, !.channel = q.channel,
                             !.nilExcluded = q.nilExcluded, !.revoked = q.revoked]
<1>1. CallTyped(q)
  BY DEF Typed
<1>2. CallBecomes(r, n)
  BY DEF Typed, Chosen, CallBecomes
<1>3. /\ DOMAIN n = CallFields /\ n.pc = "chosen" /\ n.pick = c /\ n.channel = q.channel
      /\ n.version = 0 /\ n.rows = {} /\ n.available = {} /\ n.revoked = q.revoked
  BY DEF Idle, CallFields
<1> HIDE DEF n
<1>4. CallTyped(n)
  BY <1>1, <1>3 DEF CallTyped, Typed
<1>5. Unrevoked(n)
  BY <1>3 DEF Unrevoked
<1> QED BY <1>2, <1>3, <1>4, <1>5 DEF CallAdvances, CallSafe, Listed

\* What is cached under the current version.
LEMMA CachedKeys ==
    ASSUME Typed, NEW ch \in Channels
    PROVE  version \in 0..MaxChanges /\ pool[ch][version] \subseteq Creds
<1>1. version \in 0..MaxChanges
  BY PoolAssumption DEF Typed
<1> QED BY <1>1 DEF Typed

LEMMA ReadingSteps ==
    ASSUME Typed, RevokedInv, NEW r \in Requests,
           ReadCredentialCache(r) \/ ListEnabled(r) \/ WriteCredentialCache(r)
    PROVE  CallAdvances(r)
<1> DEFINE q == call[r]
<1>1. CallTyped(q) /\ Unrevoked(q) /\ DOMAIN q = CallFields
  BY DEF Typed, RevokedInv, CallTyped
<1>2. CASE ReadCredentialCache(r)
  <2> DEFINE hit == pool[q.channel][version]
             n == [q EXCEPT !.pc = IF hit = {} THEN "list" ELSE "filter", !.version = version,
                            !.rows = hit]
  <2>1. q.pc = "version" /\ CallBecomes(r, n)
    BY <1>2 DEF Typed, ReadCredentialCache, CallBecomes
  <2>2. hit \subseteq Creds /\ \A c \in hit : Clean(c)
    BY <1>1, <2>1, CachedKeys DEF CallTyped, RevokedInv
  <2>3. /\ DOMAIN n = CallFields /\ n.pc \in {"list", "filter"} /\ n.version = version
        /\ n.rows = hit /\ n.channel = q.channel /\ n.available = q.available
        /\ n.pick = q.pick /\ n.revoked = q.revoked
    <3> HIDE DEF hit
    <3> QED BY <1>1 DEF CallFields
  <2> HIDE DEF n, hit
  <2>4. CallTyped(n)
    BY <1>1, <2>1, <2>2, <2>3 DEF CallTyped, Typed, KeyStages
  <2>5. Unrevoked(n)
    BY <1>1, <2>2, <2>3 DEF Unrevoked, Clean
  <2> QED BY <2>1, <2>3, <2>4, <2>5 DEF CallAdvances, CallSafe, Listed
<1>3. CASE ListEnabled(r)
  <2> DEFINE list == {c \in Creds : ChannelOf[c] = q.channel /\ status[c] = "on"}
             n == [q EXCEPT !.pc = "store", !.rows = list]
  <2>1. q.pc = "list" /\ CallBecomes(r, n)
    BY <1>3 DEF Typed, ListEnabled, CallBecomes
  <2>2. list \subseteq Creds /\ \A c \in list : status[c] = "on"
    OBVIOUS
  <2>3. /\ DOMAIN n = CallFields /\ n.pc = "store" /\ n.version = q.version
        /\ n.rows = list /\ n.channel = q.channel /\ n.available = q.available
        /\ n.pick = q.pick /\ n.revoked = q.revoked
    <3> HIDE DEF list
    <3> QED BY <1>1 DEF CallFields
  <2> HIDE DEF n, list
  <2>4. CallTyped(n)
    BY <1>1, <2>1, <2>2, <2>3 DEF CallTyped, KeyStages
  <2>5. Unrevoked(n)
    BY <1>1, <2>2, <2>3 DEF Unrevoked
  <2> QED BY <2>1, <2>2, <2>3, <2>4, <2>5 DEF CallAdvances, CallSafe, Listed
<1>4. CASE WriteCredentialCache(r)
  <2> DEFINE n == [q EXCEPT !.pc = "filter"]
  <2>1. q.pc = "store" /\ CallBecomes(r, n)
    BY <1>4 DEF Typed, WriteCredentialCache, Goto, CallBecomes
  <2>2. /\ DOMAIN n = CallFields /\ n.pc = "filter" /\ n.version = q.version
        /\ n.rows = q.rows /\ n.channel = q.channel /\ n.available = q.available
        /\ n.pick = q.pick /\ n.revoked = q.revoked
    BY <1>1 DEF CallFields
  <2> HIDE DEF n
  <2>3. CallTyped(n)
    BY <1>1, <2>1, <2>2 DEF CallTyped, KeyStages
  <2>4. Unrevoked(n)
    BY <1>1, <2>2 DEF Unrevoked
  <2> QED BY <2>1, <2>2, <2>3, <2>4 DEF CallAdvances, CallSafe, Listed
<1> QED BY <1>2, <1>3, <1>4

\* A step within a call, which works with the keys it has.
LEMMA CallMoves ==
    ASSUME Typed, NEW r \in Requests, Unrevoked(call[r]), call[r].pc # "idle",
           NEW n, CallBecomes(r, n), DOMAIN n = CallFields, n.pc # "store",
           n.channel = call[r].channel, n.revoked = call[r].revoked,
           n.version \in {call[r].version, 0}, n.rows \subseteq call[r].rows,
           n.available \subseteq call[r].rows \cup call[r].available,
           n.pick = call[r].pick \/ n.pick \in call[r].rows \cup call[r].available,
           n.pc \in KeyStages => n.pick \in Creds
    PROVE  CallAdvances(r)
<1>1. CallTyped(call[r])
  BY DEF Typed
<1>2. CallTyped(n)
  BY <1>1 DEF CallTyped, Typed
<1>3. Unrevoked(n)
  BY DEF Unrevoked
<1> QED BY <1>2, <1>3 DEF CallAdvances, CallSafe, Listed

LEMMA FilterStep ==
    ASSUME Typed, RevokedInv, NEW r \in Requests, FilterAvailable(r)
    PROVE  CallAdvances(r)
<1> DEFINE q == call[r]
           unpaused == {c \in q.rows \ cooldown : q.anyModel \/ c \notin cooling}
           available == IF q.conversation THEN unpaused ELSE unpaused \ q.excluded
           left == (q.rows \ cooldown) \ q.excluded
           next == IF q.conversation THEN "affinity"
                   ELSE IF q.nilExcluded THEN "binding" ELSE "replace"
           filtered == [q EXCEPT !.version = 0, !.rows = {}, !.available = available,
                                 !.pc = next]
<1>1. Unrevoked(q) /\ DOMAIN q = CallFields /\ q.rows \subseteq Creds /\ q.pc = "filter"
  BY DEF Typed, RevokedInv, CallTyped, FilterAvailable
<1>2. available \subseteq q.rows /\ left \subseteq q.rows
  OBVIOUS
<1>3. next \in {"affinity", "binding", "replace"}
  OBVIOUS
<1>4. \/ available # {} /\ next = "replace"
         /\ \E c \in available : CallBecomes(r, [filtered EXCEPT !.pick = c])
      \/ available # {} /\ next # "replace" /\ CallBecomes(r, filtered)
      \/ CallBecomes(r, [q EXCEPT !.pc = "version", !.conversation = FALSE])
      \/ CallBecomes(r, [q EXCEPT !.pc = "none", !.available = left])
  BY DEF Typed, FilterAvailable, WeightedSelect, CallBecomes
<1>5. /\ DOMAIN filtered = CallFields /\ filtered.pc = next /\ filtered.version = 0
      /\ filtered.rows = {} /\ filtered.available = available
      /\ filtered.channel = q.channel /\ filtered.revoked = q.revoked
      /\ filtered.pick = q.pick
  <2> HIDE DEF available, next
  <2> QED BY <1>1 DEF CallFields
<1> HIDE DEF available, left, next, filtered
<1>6. ASSUME next = "replace", NEW c \in available,
             CallBecomes(r, [filtered EXCEPT !.pick = c])
      PROVE  CallAdvances(r)
  <2> DEFINE n == [filtered EXCEPT !.pick = c]
  <2>1. /\ DOMAIN n = CallFields /\ n.pc = "replace" /\ n.version = 0
        /\ n.rows = {} /\ n.available = available
        /\ n.channel = q.channel /\ n.revoked = q.revoked /\ n.pick = c
    BY <1>5, <1>6 DEF CallFields
  <2>2. CallBecomes(r, n)
    BY <1>6
  <2> HIDE DEF n
  <2> QED BY <1>1, <1>2, <2>1, <2>2, CallMoves
<1>7. CASE next # "replace" /\ CallBecomes(r, filtered)
  BY <1>1, <1>2, <1>3, <1>5, <1>7, CallMoves DEF KeyStages
<1>8. CASE CallBecomes(r, [q EXCEPT !.pc = "version", !.conversation = FALSE])
  <2> DEFINE n == [q EXCEPT !.pc = "version", !.conversation = FALSE]
  <2>1. /\ DOMAIN n = CallFields /\ n.pc = "version" /\ n.version = q.version
        /\ n.rows = q.rows /\ n.available = q.available
        /\ n.channel = q.channel /\ n.revoked = q.revoked /\ n.pick = q.pick
    BY <1>1 DEF CallFields
  <2>2. CallBecomes(r, n)
    BY <1>8
  <2> HIDE DEF n
  <2> QED BY <1>1, <2>1, <2>2, CallMoves DEF KeyStages
<1>9. CASE CallBecomes(r, [q EXCEPT !.pc = "none", !.available = left])
  <2> DEFINE n == [q EXCEPT !.pc = "none", !.available = left]
  <2>1. /\ DOMAIN n = CallFields /\ n.pc = "none" /\ n.version = q.version
        /\ n.rows = q.rows /\ n.available = left
        /\ n.channel = q.channel /\ n.revoked = q.revoked /\ n.pick = q.pick
    BY <1>1 DEF CallFields
  <2>2. CallBecomes(r, n)
    BY <1>9
  <2> HIDE DEF n
  <2> QED BY <1>1, <1>2, <2>1, <2>2, CallMoves DEF KeyStages
<1> QED BY <1>4, <1>6, <1>7, <1>8, <1>9

\* Steps that only move a call, or draw one of its keys.
LEMMA MoveTo ==
    ASSUME Typed, RevokedInv, NEW r \in Requests, call[r].pc # "idle", NEW p, p # "store",
           CallBecomes(r, [call[r] EXCEPT !.pc = p]), p \in KeyStages => call[r].pc \in KeyStages
    PROVE  CallAdvances(r)
<1> DEFINE q == call[r]
           n == [q EXCEPT !.pc = p]
<1>1. Unrevoked(q) /\ DOMAIN q = CallFields /\ (p \in KeyStages => q.pick \in Creds)
  BY DEF Typed, RevokedInv, CallTyped
<1>2. /\ DOMAIN n = CallFields /\ n.pc = p /\ n.version = q.version
      /\ n.rows = q.rows /\ n.available = q.available
      /\ n.channel = q.channel /\ n.revoked = q.revoked /\ n.pick = q.pick
  BY <1>1 DEF CallFields
<1> HIDE DEF n
<1>3. CallBecomes(r, n)
  BY DEF n
<1> QED BY <1>1, <1>2, <1>3, CallMoves

LEMMA DrawStep ==
    ASSUME Typed, RevokedInv, NEW r \in Requests, call[r].pc # "idle", NEW p, p # "store",
           NEW c \in call[r].available, CallBecomes(r, [call[r] EXCEPT !.pc = p, !.pick = c])
    PROVE  CallAdvances(r)
<1> DEFINE q == call[r]
           n == [q EXCEPT !.pc = p, !.pick = c]
<1>1. Unrevoked(q) /\ DOMAIN q = CallFields /\ q.available \subseteq Creds
  BY DEF Typed, RevokedInv, CallTyped
<1>2. /\ DOMAIN n = CallFields /\ n.pc = p /\ n.version = q.version
      /\ n.rows = q.rows /\ n.available = q.available
      /\ n.channel = q.channel /\ n.revoked = q.revoked /\ n.pick = c
  BY <1>1 DEF CallFields
<1> HIDE DEF n
<1>3. CallBecomes(r, n)
  BY DEF n
<1> QED BY <1>1, <1>2, <1>3, CallMoves

LEMMA BoundStep ==
    ASSUME Typed, RevokedInv, NEW r \in Requests, call[r].pc # "idle", NEW p,
           p \notin KeyStages \cup {"store"} \/ (p = "reloaded" /\ call[r].pc = "reload"), NEW c,
           CallBecomes(r, [call[r] EXCEPT !.pc = p, !.bound = c])
    PROVE  CallAdvances(r)
<1> DEFINE q == call[r]
           n == [q EXCEPT !.pc = p, !.bound = c]
<1>1. /\ Unrevoked(q) /\ DOMAIN q = CallFields
      /\ q.pc \in KeyStages => q.pick \in Creds
  BY DEF Typed, RevokedInv, CallTyped
<1>2. /\ DOMAIN n = CallFields /\ n.pc = p /\ n.version = q.version
      /\ n.rows = q.rows /\ n.available = q.available
      /\ n.channel = q.channel /\ n.revoked = q.revoked /\ n.pick = q.pick
  BY <1>1 DEF CallFields
<1> HIDE DEF n
<1>3. CallBecomes(r, n)
  BY DEF n
<1>4. p # "store" /\ (p \in KeyStages => q.pick \in Creds)
  BY <1>1 DEF KeyStages
<1> QED BY <1>1, <1>2, <1>3, <1>4, CallMoves

\* A key the call may be given.
LEMMA Given ==
    ASSUME Typed, RevokedInv, NEW r \in Requests, NEW c \in call[r].available, Chosen(r, c),
           call[r].pc # "idle"
    PROVE  CallAdvances(r)
<1>1. /\ Unrevoked(call[r]) /\ call[r].available \subseteq Creds
  BY DEF Typed, RevokedInv, CallTyped
<1>2. c \in Creds /\ c \notin call[r].revoked
  BY <1>1 DEF Unrevoked
<1> QED BY <1>1, <1>2, ChosenCall

LEMMA UseBindingStep ==
    ASSUME Typed, RevokedInv, NEW r \in Requests, call[r].pc # "idle", NEW bound,
           UseBinding(r, bound)
    PROVE  CallAdvances(r)
<1>1. CASE bound \in call[r].available /\ Chosen(r, bound)
  BY <1>1, Given
<1>2. ASSUME NEW c \in call[r].available, NEW p \in {"insert", "replace"},
             call' = [call EXCEPT ![r].pc = p, ![r].pick = c]
      PROVE  CallAdvances(r)
  <2>1. CallBecomes(r, [call[r] EXCEPT !.pc = p, !.pick = c])
    BY <1>2 DEF Typed, CallBecomes
  <2> QED BY <2>1, DrawStep
<1> QED BY <1>1, <1>2 DEF UseBinding, WeightedSelect

LEMMA ConversationSteps ==
    ASSUME Typed, RevokedInv, NEW r \in Requests,
           SelectForConversation(r) \/ WriteCredentialAffinity(r)
    PROVE  CallAdvances(r)
<1> DEFINE q == call[r]
<1>1. Unrevoked(q) /\ CallTyped(q)
  BY DEF Typed, RevokedInv
<1>2. CASE SelectForConversation(r)
  <2> DEFINE s == SelectConversationCredential(q.available, q.excluded, memory[q.channel])
             n == [q EXCEPT !.pc = "version", !.conversation = FALSE]
  <2>1. s.keep \subseteq q.available /\ s.draw \subseteq q.available /\ q.pc = "affinity"
    BY <1>2 DEF SelectConversationCredential, SelectForConversation
  <2> HIDE DEF s
  <2>2. \/ CallBecomes(r, n)
        \/ \E c \in q.available : Chosen(r, c)
        \/ \E c \in q.available : call' = [call EXCEPT ![r].pc = "remember", ![r].pick = c]
    BY <1>2, <2>1 DEF SelectForConversation, s, WeightedSelect, CallBecomes, Typed
  <2>3. CASE CallBecomes(r, n)
    <3>1. /\ DOMAIN n = CallFields /\ n.pc = "version" /\ n.version = q.version
          /\ n.rows = q.rows /\ n.available = q.available
          /\ n.channel = q.channel /\ n.revoked = q.revoked /\ n.pick = q.pick
      BY <1>1 DEF CallTyped, CallFields
    <3> HIDE DEF n
    <3> QED BY <1>1, <2>1, <2>3, <3>1, CallMoves DEF KeyStages
  <2>4. ASSUME NEW c \in q.available, call' = [call EXCEPT ![r].pc = "remember", ![r].pick = c]
        PROVE  CallAdvances(r)
    <3>1. CallBecomes(r, [call[r] EXCEPT !.pc = "remember", !.pick = c])
      BY <2>4 DEF Typed, CallBecomes
    <3> QED BY <2>1, <3>1, DrawStep
  <2> QED BY <2>1, <2>2, <2>3, <2>4, Given
<1>3. CASE WriteCredentialAffinity(r)
  <2>1. q.pc = "remember" /\ Chosen(r, q.pick)
    BY <1>3 DEF WriteCredentialAffinity
  <2>2. q.pick \in Creds /\ q.pick \notin q.revoked
    BY <1>1, <2>1 DEF CallTyped, KeyStages, Unrevoked
  <2> QED BY <1>1, <2>1, <2>2, ChosenCall
<1> QED BY <1>2, <1>3

LEMMA BindingSteps ==
    ASSUME Typed, RevokedInv, NEW r \in Requests,
           \/ ReadCredentialBindingCache(r) \/ LoadBinding(r)
           \/ WriteLoadedBinding(r) \/ BindFirstCredential(r) \/ ReloadBinding(r)
           \/ WriteReloadedBinding(r) \/ ReplaceCredentialBinding(r)
           \/ WriteCredentialBindingCache(r)
    PROVE  CallAdvances(r)
<1> DEFINE q == call[r]
<1>1. Unrevoked(q) /\ CallTyped(q)
  BY DEF Typed, RevokedInv
<1>2. ASSUME NEW p, Goto(r, p) PROVE CallBecomes(r, [q EXCEPT !.pc = p])
  BY <1>2 DEF Typed, Goto, CallBecomes
<1>3. ASSUME NEW p, NEW c, call' = [call EXCEPT ![r].pc = p, ![r].bound = c]
      PROVE  CallBecomes(r, [q EXCEPT !.pc = p, !.bound = c])
  BY <1>3 DEF Typed, CallBecomes
<1>4. CASE ReadCredentialBindingCache(r)
  <2>1. q.pc = "binding"
    BY <1>4 DEF ReadCredentialBindingCache
  <2>2. CASE Goto(r, "load")
    BY <1>2, <2>1, <2>2, MoveTo DEF KeyStages
  <2> QED BY <1>4, <2>1, <2>2, UseBindingStep DEF ReadCredentialBindingCache
<1>5. CASE LoadBinding(r)
  <2> DEFINE bound == binding[q.channel]
  <2>1. q.pc = "load"
    BY <1>5 DEF LoadBinding
  <2>2. CASE call' = [call EXCEPT ![r].pc = "loaded", ![r].bound = bound]
    <3>1. CallBecomes(r, [q EXCEPT !.pc = "loaded", !.bound = bound])
      BY <1>3, <2>2
    <3> QED BY <2>1, <3>1, BoundStep DEF KeyStages
  <2> QED BY <1>5, <2>1, <2>2, UseBindingStep DEF LoadBinding
<1>6. CASE WriteLoadedBinding(r)
  BY <1>6, UseBindingStep DEF WriteLoadedBinding
<1>7. CASE BindFirstCredential(r)
  <2>1. q.pc = "insert" /\ (Goto(r, "bound") \/ Goto(r, "reload"))
    BY <1>7 DEF BindFirstCredential
  <2> QED BY <1>2, <2>1, MoveTo DEF KeyStages
<1>8. CASE ReloadBinding(r)
  <2> DEFINE bound == binding[q.channel]
  <2>1. q.pc = "reload" /\ \E p \in {"failed", "reloaded"} :
                              call' = [call EXCEPT ![r].pc = p, ![r].bound = bound]
    BY <1>8 DEF ReloadBinding
  <2>2. PICK p \in {"failed", "reloaded"} : CallBecomes(r, [q EXCEPT !.pc = p, !.bound = bound])
    BY <1>3, <2>1
  <2> QED BY <2>1, <2>2, BoundStep DEF KeyStages
<1>9. CASE WriteReloadedBinding(r)
  <2>1. q.pc = "reloaded" /\ ((q.bound \in q.available /\ Chosen(r, q.bound)) \/ Goto(r, "replace"))
    BY <1>9 DEF WriteReloadedBinding
  <2>2. CASE Goto(r, "replace")
    BY <1>2, <2>1, <2>2, MoveTo DEF KeyStages
  <2> QED BY <2>1, <2>2, Given
<1>10. CASE ReplaceCredentialBinding(r)
  <2>1. q.pc = "replace" /\ (Goto(r, "failed") \/ Goto(r, "bound"))
    BY <1>10 DEF ReplaceCredentialBinding
  <2> QED BY <1>2, <2>1, MoveTo DEF KeyStages
<1>11. CASE WriteCredentialBindingCache(r)
  <2>1. q.pc = "bound" /\ Chosen(r, q.pick)
    BY <1>11 DEF WriteCredentialBindingCache
  <2>2. q.pick \in Creds /\ q.pick \notin q.revoked
    BY <1>1, <2>1 DEF CallTyped, KeyStages, Unrevoked
  <2> QED BY <1>1, <2>1, <2>2, ChosenCall
<1> QED BY <1>4, <1>5, <1>6, <1>7, <1>8, <1>9, <1>10, <1>11

-----------------------------------------------------------------------------
(* Handlers, one request at a time. *)

JobBecomes(r, m) ==
    DOMAIN job' = Requests /\ job'[r] = m /\ \A s \in Requests \ {r} : job'[s] = job[s]

\* What a handler keeps of its request.
JobKeeps(q, m) == JobTyped(m) /\ RowSafe(m) /\ m.kind = q.kind

\* A handler lets a call be, ends it, or begins one for a candidate.
CallStarts(r, m) ==
    \/ CallBecomes(r, call[r]) \/ CallBecomes(r, Idle)
    \/ \E i \in 1..Len(candidates), any \in BOOLEAN :
          CallBecomes(r, SelectCredential(candidates[i], m.kind = "talk",
                                          m.kind \notin {"chat", "talk"}, m.excluded, any))

HandlerAdvances(r) ==
    \E m : JobBecomes(r, m) /\ JobKeeps(job[r], m) /\ CallStarts(r, m)

LEMMA SelectingStarts ==
    ASSUME Typed, NEW r \in Requests, NEW i \in 1..Len(candidates), NEW m,
           m.kind = job[r].kind, Selecting(r, i, m.excluded)
    PROVE  CallStarts(r, m)
<1> DEFINE kind == m.kind
           n(any) == SelectCredential(candidates[i], kind = "talk", kind \notin {"chat", "talk"},
                                      m.excluded, any)
<1>1. PICK any \in BOOLEAN : call' = [call EXCEPT ![r] = n(any)]
  BY DEF Selecting
<1> HIDE DEF n
<1>2. CallBecomes(r, n(any))
  BY <1>1 DEF Typed, CallBecomes
<1> QED BY <1>2 DEF n, CallStarts

\* A request that stays on its candidate, or ends.
LEMMA NextCandidateStep ==
    ASSUME Typed, NEW r \in Requests, NEW q, NextCandidate(r, q), DOMAIN q = JobFields,
           q.kind = job[r].kind, q.index = job[r].index,
           q.kind \notin {"chat", "talk"} => q.excluded = {},
           q.row = NoRow, q.kind \in Answering => q.answeredBy = None
    PROVE  HandlerAdvances(r)
<1> DEFINE m == [q EXCEPT !.pc = "select", !.index = @ + 1]
           n == [q EXCEPT !.pc = "finish"]
<1>1. q.index \in 1..Len(candidates) /\ Len(candidates) \in Nat
  BY DEF Typed, JobTyped
<1>2. CASE job[r].index < Len(candidates)
  <2>1. JobBecomes(r, m) /\ Selecting(r, q.index + 1, q.excluded)
    BY <1>2 DEF NextCandidate, Typed, JobBecomes
  <2>2. /\ DOMAIN m = JobFields /\ m.index = q.index + 1 /\ m.kind = q.kind /\ m.pc = "select"
        /\ m.excluded = q.excluded /\ m.row = q.row /\ m.answeredBy = q.answeredBy
    BY DEF JobFields
  <2> HIDE DEF m
  <2>3. m.index \in 1..Len(candidates)
    BY <1>1, <1>2, <2>2
  <2>4. JobKeeps(job[r], m)
    BY <2>2, <2>3 DEF JobKeeps, JobTyped, RowSafe
  <2>5. CallStarts(r, m)
    BY <2>1, <2>2, <2>3, SelectingStarts
  <2> QED BY <2>1, <2>4, <2>5 DEF HandlerAdvances
<1>3. CASE ~ (job[r].index < Len(candidates))
  <2>1. JobBecomes(r, n) /\ CallBecomes(r, Idle)
    BY <1>3 DEF NextCandidate, Typed, JobBecomes, CallBecomes
  <2>2. /\ DOMAIN n = JobFields /\ n.index = q.index /\ n.kind = q.kind /\ n.pc = "finish"
        /\ n.excluded = q.excluded /\ n.row = q.row /\ n.answeredBy = q.answeredBy
    BY DEF JobFields
  <2> HIDE DEF n
  <2>3. JobKeeps(job[r], n)
    BY <1>1, <2>2 DEF JobKeeps, JobTyped, RowSafe
  <2> QED BY <2>1, <2>3 DEF HandlerAdvances, CallStarts
<1> QED BY <1>2, <1>3

\* A request that has not been answered.
LEMMA Unanswered ==
    ASSUME Typed, RowInv, NEW r \in Requests
    PROVE  /\ DOMAIN job[r] = JobFields /\ job[r].index \in 1..Len(candidates)
           /\ job[r].kind \notin {"chat", "talk"} \/ job[r].pc = "start" => job[r].excluded = {}
           /\ job[r].pc # "end" => job[r].row = NoRow
           /\ job[r].pc \notin {"finish", "end"} /\ job[r].kind \in Answering
                 => job[r].answeredBy = None
BY DEF Typed, JobTyped, RowInv, RowSafe

\* A request that only moves on.
LEMMA JobMoves ==
    ASSUME Typed, RowInv, NEW r \in Requests, NEW m, JobBecomes(r, m), CallStarts(r, m),
           DOMAIN m = JobFields, m.kind = job[r].kind, m.index = job[r].index,
           m.kind \notin {"chat", "talk"} => m.excluded = {}, m.row = NoRow, m.pc # "start",
           m.kind \in Answering => m.answeredBy = None
    PROVE  HandlerAdvances(r)
<1>1. JobKeeps(job[r], m)
  BY Unanswered DEF JobKeeps, JobTyped, RowSafe
<1> QED BY <1>1 DEF HandlerAdvances

LEMMA EnteringSteps ==
    ASSUME Typed, RowInv, NEW r \in Requests,
           \/ RejectAudio(r) \/ RejectImagesEdit(r) \/ RejectVideo(r) \/ AcceptRequest(r)
           \/ SkipCandidate(r)
    PROVE  HandlerAdvances(r)
<1> DEFINE q == job[r]
<1>1. CASE Refused(r)
  <2> DEFINE m == [q EXCEPT !.pc = "end"]
  <2>1. q.pc = "start" /\ JobBecomes(r, m) /\ CallBecomes(r, call[r])
    BY <1>1 DEF Refused, Typed, JobBecomes, CallBecomes, poolVars
  <2>2. /\ DOMAIN m = JobFields /\ m.index = q.index /\ m.kind = q.kind /\ m.pc = "end"
        /\ m.excluded = q.excluded /\ m.row = q.row /\ m.answeredBy = q.answeredBy
    BY Unanswered DEF JobFields
  <2> HIDE DEF m
  <2> QED BY <2>1, <2>2, Unanswered, JobMoves DEF CallStarts
<1>2. CASE AcceptRequest(r)
  <2> DEFINE m == [q EXCEPT !.pc = "select"]
  <2>1. q.pc = "start" /\ JobBecomes(r, m) /\ Selecting(r, 1, {})
    BY <1>2 DEF AcceptRequest, Typed, JobBecomes
  <2>2. /\ DOMAIN m = JobFields /\ m.index = q.index /\ m.kind = q.kind /\ m.pc = "select"
        /\ m.excluded = q.excluded /\ m.row = q.row /\ m.answeredBy = q.answeredBy
    BY Unanswered DEF JobFields
  <2> HIDE DEF m
  <2>3. 1 \in 1..Len(candidates)
    BY DEF Typed
  <2>4. CallStarts(r, m)
    BY <2>1, <2>2, <2>3, Unanswered, SelectingStarts
  <2> QED BY <2>1, <2>2, <2>4, Unanswered, JobMoves
<1>3. CASE SkipCandidate(r)
  <2> DEFINE reason == IF call[r].pc = "none" THEN UnavailableReason(r) ELSE "failed"
             last == [NoResult EXCEPT !.error = TRUE]
             m == [q EXCEPT !.last = last, !.lastKey = None, !.reason = reason]
  <2>1. q.pc = "select" /\ NextCandidate(r, m)
    BY <1>3 DEF SkipCandidate
  <2> HIDE DEF reason, last
  <2>2. /\ DOMAIN m = JobFields /\ m.index = q.index /\ m.kind = q.kind
        /\ m.excluded = q.excluded /\ m.row = q.row /\ m.answeredBy = q.answeredBy
    BY Unanswered DEF JobFields
  <2> HIDE DEF m
  <2> QED BY <2>1, <2>2, Unanswered, NextCandidateStep
<1> QED BY <1>1, <1>2, <1>3 DEF RejectAudio, RejectImagesEdit, RejectVideo

\* An attempt that answered ends the loop with the key that answered.
LEMMA AttemptStep ==
    ASSUME Typed, RowInv, NEW r \in Requests, job[r].pc = "select", job[r].kind \in Answering,
           NEW path, NEW result \in AudioResults(path),
           \/ LeaveLoop(r, Attempted(r, result))
           \/ ~ result.wrote /\ NextCandidate(r, Attempted(r, result))
    PROVE  HandlerAdvances(r)
<1> DEFINE q == job[r]
           c == Key(r)
           by == IF result.wrote THEN c ELSE q.answeredBy
           m == [q EXCEPT !.attempts = @ + 1, !.last = result, !.lastKey = c, !.answeredBy = by]
           n == [m EXCEPT !.pc = "finish"]
<1>1. result.wrote => result.status = "ok"
  BY DEF AudioResults, NoResult
<1>2. Attempted(r, result) = m /\ DOMAIN q = JobFields /\ q.kind \notin {"chat", "talk"}
  BY Unanswered DEF Attempted, JobFields, Answering
<1> HIDE DEF c, by
<1>3. /\ DOMAIN m = JobFields /\ m.index = q.index /\ m.kind = q.kind
      /\ m.excluded = q.excluded /\ m.row = q.row /\ m.answeredBy = by
      /\ m.last = result /\ m.lastKey = c
  BY <1>2 DEF JobFields
<1>4. ~ result.wrote => by = None
  BY Unanswered DEF by
<1> HIDE DEF m
<1>5. CASE ~ result.wrote /\ NextCandidate(r, m)
  BY <1>2, <1>3, <1>4, <1>5, Unanswered, NextCandidateStep
<1>6. CASE LeaveLoop(r, m)
  <2>1. JobBecomes(r, n) /\ CallBecomes(r, Idle)
    BY <1>6 DEF LeaveLoop, Typed, JobBecomes, CallBecomes
  <2>2. /\ DOMAIN n = JobFields /\ n.index = m.index /\ n.kind = m.kind /\ n.pc = "finish"
        /\ n.excluded = m.excluded /\ n.row = m.row /\ n.answeredBy = by
        /\ n.last = result /\ n.lastKey = c
    BY <1>3 DEF JobFields
  <2> HIDE DEF n
  <2>3. by # None => result.status = "ok" /\ by = c
    BY <1>1, <1>4 DEF by
  <2>4. JobKeeps(q, n)
    BY <1>2, <1>3, <2>2, <2>3, Unanswered DEF JobKeeps, JobTyped, RowSafe
  <2> QED BY <2>1, <2>4 DEF HandlerAdvances, CallStarts
<1> QED BY <1>2, <1>5, <1>6

LEMMA RecordStep ==
    ASSUME Typed, RowInv, NEW r \in Requests, job[r].kind \in Answering,
           NEW row \in {Row(r), NoRow}, Recorded(r, row)
    PROVE  HandlerAdvances(r)
<1> DEFINE q == job[r]
           m == [q EXCEPT !.pc = "end", !.last = NoResult, !.lastKey = None,
                          !.reason = "", !.attempts = 0, !.index = 1, !.row = row]
<1>1. q.pc = "finish" /\ JobBecomes(r, m) /\ CallBecomes(r, call[r])
  BY DEF Recorded, Typed, JobBecomes, CallBecomes, poolVars
<1>2. /\ DOMAIN m = JobFields /\ m.index = 1 /\ m.kind = q.kind /\ m.pc = "end"
      /\ m.excluded = q.excluded /\ m.row = row /\ m.answeredBy = q.answeredBy
  BY Unanswered DEF JobFields
<1> HIDE DEF m
<1>3. row # NoRow => row.key = q.lastKey /\ row.status = q.last.status
  BY DEF Row
<1>4. q.answeredBy # None => q.lastKey = q.answeredBy /\ q.last.status = "ok"
  BY <1>1 DEF RowInv, RowSafe
<1>5. 1 \in 1..Len(candidates)
  BY DEF Typed
<1>6. JobTyped(m)
  BY <1>2, <1>5, Unanswered DEF JobTyped
<1>7. RowSafe(m)
  BY <1>2, <1>3, <1>4 DEF RowSafe
<1> QED BY <1>1, <1>2, <1>6, <1>7 DEF HandlerAdvances, JobKeeps, CallStarts

LEMMA AnsweringSteps ==
    ASSUME Typed, RowInv, NEW r \in Requests,
           \/ AttemptAudio(r) \/ AttemptImagesEdit(r)
           \/ RecordAudioUsage(r) \/ RecordImagesEdit(r)
    PROVE  HandlerAdvances(r)
<1>1. \A path : \A result \in AudioResults(path) :
          result.wrote => result.status = "ok" /\ result.handled
  BY DEF AudioResults, NoResult
<1>2. CASE AttemptAudio(r)
  <2>1. job[r].pc = "select" /\ job[r].kind \in Answering
    BY <1>2 DEF AttemptAudio, Picked, Answering
  <2> QED BY <1>1, <1>2, <2>1, AttemptStep DEF AttemptAudio
<1>3. CASE AttemptImagesEdit(r)
  <2>1. job[r].pc = "select" /\ job[r].kind \in Answering
    BY <1>3 DEF AttemptImagesEdit, Picked, Answering
  <2> QED BY <1>1, <1>3, <2>1, AttemptStep DEF AttemptImagesEdit, ImagesEditResults
<1>4. CASE RecordAudioUsage(r) \/ RecordImagesEdit(r)
  BY <1>4, RecordStep DEF RecordAudioUsage, RecordImagesEdit, Answering
<1> QED BY <1>2, <1>3, <1>4

LEMMA ChatSteps ==
    ASSUME Typed, RowInv, NEW r \in Requests, AttemptChat(r) \/ EndChat(r)
    PROVE  HandlerAdvances(r)
<1> DEFINE q == job[r]
<1>1. CASE EndChat(r)
  <2> DEFINE m == [q EXCEPT !.pc = "end"]
  <2>1. /\ q.pc = "finish" /\ q.kind \notin Answering
        /\ JobBecomes(r, m) /\ CallBecomes(r, call[r])
    BY <1>1 DEF EndChat, Typed, JobBecomes, CallBecomes, poolVars, Answering
  <2>2. /\ DOMAIN m = JobFields /\ m.index = q.index /\ m.kind = q.kind /\ m.pc = "end"
        /\ m.excluded = q.excluded /\ m.row = q.row /\ m.answeredBy = q.answeredBy
    BY Unanswered DEF JobFields
  <2> HIDE DEF m
  <2> QED BY <2>1, <2>2, Unanswered, JobMoves DEF CallStarts
<1>2. CASE AttemptChat(r)
  <2> DEFINE excluded == q.excluded \cup {Key(r)}
             m == [q EXCEPT !.pc = "end", !.excluded = {}, !.index = 1]
             n == [q EXCEPT !.pc = "select", !.excluded = excluded]
  <2>1. q.pc = "select" /\ q.kind \in {"chat", "talk"}
    BY <1>2 DEF AttemptChat, Picked
  <2>2. \/ JobBecomes(r, m) /\ CallBecomes(r, Idle)
        \/ JobBecomes(r, n) /\ Selecting(r, q.index, excluded)
    BY <1>2 DEF AttemptChat, Typed, JobBecomes, CallBecomes
  <2> HIDE DEF excluded
  <2>3. /\ DOMAIN m = JobFields /\ m.index = 1 /\ m.kind = q.kind /\ m.pc = "end"
        /\ m.excluded = {} /\ m.row = q.row
    BY Unanswered DEF JobFields
  <2>4. /\ DOMAIN n = JobFields /\ n.index = q.index /\ n.kind = q.kind /\ n.pc = "select"
        /\ n.excluded = excluded /\ n.row = q.row
    BY Unanswered DEF JobFields
  <2> HIDE DEF m, n
  <2>5. CASE JobBecomes(r, m) /\ CallBecomes(r, Idle)
    <3>1. 1 \in 1..Len(candidates)
      BY DEF Typed
    <3>2. JobKeeps(q, m)
      BY <2>1, <2>3, <3>1, Unanswered DEF JobKeeps, JobTyped, RowSafe, Answering
    <3> QED BY <2>5, <3>2 DEF HandlerAdvances, CallStarts
  <2>6. CASE JobBecomes(r, n) /\ Selecting(r, q.index, excluded)
    <3>1. CallStarts(r, n)
      BY <2>4, <2>6, Unanswered, SelectingStarts
    <3> QED BY <2>1, <2>4, <2>6, <3>1, Unanswered, JobMoves DEF Answering
  <2> QED BY <2>2, <2>5, <2>6
<1> QED BY <1>1, <1>2

LEMMA VideoSteps ==
    ASSUME Typed, RowInv, NEW r \in Requests, CreateVideo(r) \/ StoreVideoTaskRoute(r)
    PROVE  HandlerAdvances(r)
<1> DEFINE q == job[r]
           ended == [q EXCEPT !.pc = "end"]
<1>1. /\ DOMAIN ended = JobFields /\ ended.index = q.index /\ ended.kind = q.kind
      /\ ended.pc = "end" /\ ended.excluded = q.excluded /\ ended.row = q.row
      /\ ended.answeredBy = q.answeredBy
  BY Unanswered DEF JobFields
<1>2. CASE StoreVideoTaskRoute(r)
  <2>1. q.pc = "store" /\ JobBecomes(r, ended) /\ CallBecomes(r, call[r])
    BY <1>2 DEF StoreVideoTaskRoute, Typed, JobBecomes, CallBecomes, poolVars
  <2> HIDE DEF ended
  <2> QED BY <1>1, <2>1, Unanswered, JobMoves DEF CallStarts
<1>3. CASE CreateVideo(r)
  <2> DEFINE c == Key(r)
             last == [NoResult EXCEPT !.error = TRUE]
             failed == [q EXCEPT !.last = last, !.lastKey = c]
             stored(t) == [q EXCEPT !.pc = "store", !.key = c, !.answeredBy = t]
  <2>1. q.pc = "select" /\ q.kind = "video"
    BY <1>3 DEF CreateVideo, Picked
  <2>2. \/ NextCandidate(r, failed)
        \/ JobBecomes(r, ended) /\ CallBecomes(r, Idle)
        \/ \E t \in Tasks : JobBecomes(r, stored(t)) /\ CallBecomes(r, Idle)
    BY <1>3 DEF CreateVideo, Typed, JobBecomes, CallBecomes
  <2> HIDE DEF c, last, ended
  <2>3. /\ DOMAIN failed = JobFields /\ failed.index = q.index /\ failed.kind = q.kind
        /\ failed.excluded = q.excluded /\ failed.row = q.row
        /\ failed.answeredBy = q.answeredBy
    BY Unanswered DEF JobFields
  <2>4. \A t \in Tasks :
           /\ DOMAIN stored(t) = JobFields /\ stored(t).index = q.index
           /\ stored(t).kind = q.kind /\ stored(t).pc = "store"
           /\ stored(t).excluded = q.excluded /\ stored(t).row = q.row
    BY Unanswered DEF JobFields
  <2> HIDE DEF failed, stored
  <2>5. CASE NextCandidate(r, failed)
    BY <2>1, <2>3, <2>5, Unanswered, NextCandidateStep
  <2>6. CASE JobBecomes(r, ended) /\ CallBecomes(r, Idle)
    BY <1>1, <2>1, <2>6, Unanswered, JobMoves DEF CallStarts
  <2>7. ASSUME NEW t \in Tasks, JobBecomes(r, stored(t)), CallBecomes(r, Idle)
        PROVE  HandlerAdvances(r)
    <3>1. CallStarts(r, stored(t))
      BY <2>7 DEF CallStarts
    <3> QED BY <2>1, <2>4, <2>7, <3>1, Unanswered, JobMoves DEF Answering
  <2> QED BY <2>2, <2>5, <2>6, <2>7
<1> QED BY <1>2, <1>3

-----------------------------------------------------------------------------
(* The invariant of revoked keys. *)

\* A call stores the rows it listed under the version it read.
PoolStored(r) ==
    /\ call[r].pc = "store"
    /\ pool' = [pool EXCEPT ![call[r].channel][call[r].version] = call[r].rows]

LEMMA PoolStoredType ==
    ASSUME Typed, NEW r \in Requests, PoolStored(r)
    PROVE  /\ call[r].channel \in Channels /\ call[r].version \in 0..version
           /\ pool' \in [Channels -> [0..MaxChanges -> SUBSET Creds]]
           /\ \A ch \in Channels, v \in 0..MaxChanges :
                 pool'[ch][v] = IF ch = call[r].channel /\ v = call[r].version
                                THEN call[r].rows ELSE pool[ch][v]
<1>1. /\ call[r].channel \in Channels /\ call[r].version \in 0..version
      /\ call[r].rows \in SUBSET Creds
  BY DEF Typed, CallTyped, PoolStored
<1>2. call[r].version \in 0..MaxChanges
  BY <1>1, PoolAssumption DEF Typed
<1> QED BY <1>1, <1>2 DEF Typed, PoolStored

\* A step of one call, which began now or was there before.
LEMMA CallKeepsRevoked ==
    ASSUME Typed, RevokedInv, NEW r \in Requests, NEW n, CallBecomes(r, n), CallSafe(n),
           n.revoked \subseteq call[r].revoked \cup Revoked,
           n = call[r] \/ Listed(n), UNCHANGED envVars,
           pool' = pool \/ PoolStored(r)
    PROVE  RevokedInv'
<1>1. UNCHANGED <<status, version, admin>> /\ version \in 0..MaxChanges
  BY PoolAssumption DEF envVars, Typed
<1>2. ASSUME NEW c \in Creds, Clean(c) PROVE Clean(c)'
  BY <1>1, <1>2 DEF Clean, CallBecomes, Revoked
<1>3. ASSUME NEW s \in Requests PROVE Unrevoked(call[s])'
  <2>1. Unrevoked(call'[s])
    BY DEF RevokedInv, CallBecomes, CallSafe
  <2> QED BY <1>1, <2>1 DEF Unrevoked
<1>4. \A c \in Creds : status[c] = "on" => Clean(c)'
  BY <1>1 DEF Clean
<1>5. \A s \in Requests : call'[s].rows \subseteq Creds
  BY DEF Typed, CallTyped, CallBecomes, CallSafe
<1>6. ASSUME NEW s \in Requests, (call[s].pc = "store" /\ call[s].version = version)',
             NEW c \in call'[s].rows
      PROVE  Clean(c)'
  BY <1>1, <1>2, <1>4, <1>5, <1>6 DEF RevokedInv, CallBecomes, Listed
<1>7. ASSUME NEW ch \in Channels, NEW c \in (pool[ch][version])' PROVE Clean(c)'
  <2>1. CASE pool' = pool
    <3>1. pool[ch][version] \subseteq Creds
      BY CachedKeys
    <3> QED BY <1>1, <1>2, <1>7, <2>1, <3>1 DEF RevokedInv
  <2>2. CASE PoolStored(r)
    <3>1. pool[ch][version] \subseteq Creds /\ call[r].rows \subseteq Creds
      BY CachedKeys DEF Typed, CallTyped
    <3>2. \/ c \in pool[ch][version]
          \/ c \in call[r].rows /\ call[r].version = version /\ call[r].pc = "store"
      BY <1>1, <1>7, <2>2, PoolStoredType DEF PoolStored
    <3>3. Clean(c)
      BY <3>2 DEF RevokedInv
    <3> QED BY <1>2, <3>1, <3>2, <3>3
  <2> QED BY <2>1, <2>2
<1>8. ASSUME NEW ch \in Channels, NEW v \in 0..MaxChanges, v > version PROVE pool'[ch][v] = {}
  <2>1. pool[ch][v] = {}
    BY <1>8 DEF RevokedInv
  <2>2. CASE PoolStored(r)
    <3>1. v # call[r].version
      BY <1>8, <2>2, PoolStoredType DEF Typed
    <3> QED BY <2>1, <2>2, <3>1, PoolStoredType
  <2> QED BY <2>1, <2>2
<1>9. (\A s \in Requests : call[s].pc = "store" /\ call[s].version = version
                          => \A c \in call[s].rows : Clean(c))'
  BY <1>6
<1>10. (\A ch \in Channels, v \in 0..MaxChanges : v > version => pool[ch][v] = {})'
  BY <1>1, <1>8
<1> QED BY <1>3, <1>7, <1>9, <1>10 DEF RevokedInv

\* What a step of a request leaves to the console.
LEMMA SelectionFrame ==
    ASSUME Typed, NEW r \in Requests, Selection(r)
    PROVE  /\ UNCHANGED envVars
           /\ pool' = pool \/ PoolStored(r)
           /\ DOMAIN memory' = Channels /\ DOMAIN binding' = Channels
           /\ DOMAIN bindingCache' = Channels
BY DEF Typed, Selection, ReadCredentialCache, ListEnabled, WriteCredentialCache, FilterAvailable,
       SelectForConversation, WriteCredentialAffinity, ReadCredentialBindingCache, LoadBinding,
       WriteLoadedBinding, BindFirstCredential, ReloadBinding, WriteReloadedBinding,
       ReplaceCredentialBinding, WriteCredentialBindingCache, PoolStored

LEMMA HandlerFrame ==
    ASSUME NEW r \in Requests, Handler(r)
    PROVE  UNCHANGED <<envVars, pool, memory, binding, bindingCache, candidates>>
BY DEF Handler, RejectAudio, RejectImagesEdit, RejectVideo, Refused, AcceptRequest, SkipCandidate,
       AttemptAudio, AttemptImagesEdit, RecordAudioUsage, RecordImagesEdit, Recorded, AttemptChat,
       EndChat, CreateVideo, StoreVideoTaskRoute, poolVars, envVars

LEMMA HandlerStep ==
    ASSUME Typed, RowInv, NEW r \in Requests, Handler(r)
    PROVE  HandlerAdvances(r)
BY EnteringSteps, AnsweringSteps, ChatSteps, VideoSteps DEF Handler

LEMMA SelectionStep ==
    ASSUME Typed, RevokedInv, NEW r \in Requests, Selection(r)
    PROVE  CallAdvances(r)
BY ReadingSteps, FilterStep, ConversationSteps, BindingSteps DEF Selection

\* A call a handler ends or begins.
LEMMA StartedCall ==
    ASSUME Typed, RevokedInv, NEW r \in Requests, NEW m, CallStarts(r, m)
    PROVE  \E n : /\ CallBecomes(r, n) /\ CallSafe(n)
                  /\ n.revoked \subseteq call[r].revoked \cup Revoked
                  /\ n = call[r] \/ Listed(n)
<1>1. CASE CallBecomes(r, call[r])
  BY <1>1 DEF Typed, RevokedInv, CallSafe
<1>2. CASE CallBecomes(r, Idle)
  <2>1. /\ DOMAIN Idle = CallFields /\ Idle.pc = "idle" /\ Idle.version = 0 /\ Idle.rows = {}
        /\ Idle.available = {} /\ Idle.revoked = {}
    BY DEF Idle, CallFields
  <2>2. CallTyped(Idle)
    BY <2>1 DEF CallTyped, KeyStages, Typed
  <2>3. Unrevoked(Idle) /\ Listed(Idle)
    BY <2>1 DEF Unrevoked, Listed
  <2> QED BY <1>2, <2>1, <2>2, <2>3 DEF CallSafe
<1>3. ASSUME NEW ch \in Channels, NEW conversation, NEW nilExcluded, NEW excluded, NEW any,
             CallBecomes(r, SelectCredential(ch, conversation, nilExcluded, excluded, any))
      PROVE  \E n : /\ CallBecomes(r, n) /\ CallSafe(n)
                    /\ n.revoked \subseteq call[r].revoked \cup Revoked
                    /\ n = call[r] \/ Listed(n)
  <2> DEFINE n == SelectCredential(ch, conversation, nilExcluded, excluded, any)
  <2>1. /\ DOMAIN n = CallFields /\ n.pc = "version" /\ n.version = 0 /\ n.rows = {}
        /\ n.available = {} /\ n.revoked = Revoked /\ n.pick = None /\ n.channel = ch
    BY DEF SelectCredential, Idle, CallFields
  <2> HIDE DEF n
  <2>2. CallBecomes(r, n)
    BY <1>3 DEF n
  <2>3. Revoked \subseteq Creds /\ \A c \in Revoked : status[c] \in {"off", "deleted"} /\ c # None
    BY PoolAssumption DEF Revoked
  <2>4. CallTyped(n)
    BY <2>1, <2>3 DEF CallTyped, KeyStages, Typed
  <2>5. Unrevoked(n) /\ Listed(n)
    BY <2>1, <2>3 DEF Unrevoked, Listed
  <2> QED BY <2>1, <2>2, <2>4, <2>5 DEF CallSafe
<1>4. \A i \in 1..Len(candidates) : candidates[i] \in Channels
  BY DEF Typed
<1> QED BY <1>1, <1>2, <1>3, <1>4 DEF CallStarts

\* The types after a step of one request.
LEMMA RequestKeepsTypes ==
    ASSUME Typed, NEW r \in Requests, NEW n, CallBecomes(r, n), CallTyped(n),
           UNCHANGED <<envVars, candidates>>, pool' = pool \/ PoolStored(r),
           DOMAIN memory' = Channels, DOMAIN binding' = Channels, DOMAIN bindingCache' = Channels,
           job' = job \/ \E m : JobBecomes(r, m) /\ JobTyped(m)
    PROVE  Typed'
<1>1. UNCHANGED <<status, version, admin, changes, candidates>>
  BY DEF envVars
<1>2. pool' \in [Channels -> [0..MaxChanges -> SUBSET Creds]]
  BY PoolStoredType DEF Typed
<1>3. \A s \in Requests : CallTyped(call'[s])
  BY DEF Typed, CallBecomes
<1>4. (\A s \in Requests : CallTyped(call[s]))'
  BY <1>1, <1>3 DEF CallTyped
<1>5. DOMAIN job' = Requests /\ \A s \in Requests : JobTyped(job'[s])
  BY DEF Typed, JobBecomes
<1>6. (\A s \in Requests : JobTyped(job[s]))'
  BY <1>1, <1>5 DEF JobTyped
<1> QED BY <1>1, <1>2, <1>4, <1>5, <1>6 DEF Typed, CallBecomes

\* The requests keep the invariant.
LEMMA RequestsKeep ==
    ASSUME Typed, RevokedInv, RowInv, NEW r \in Requests,
           Handler(r) \/ (Selection(r) /\ UNCHANGED mediaVars)
    PROVE  Typed' /\ RevokedInv' /\ RowInv'
<1>1. CASE Handler(r)
  <2>1. UNCHANGED <<envVars, pool, memory, binding, bindingCache, candidates>>
    BY <1>1, HandlerFrame
  <2>2. PICK m : JobBecomes(r, m) /\ JobKeeps(job[r], m) /\ CallStarts(r, m)
    BY <1>1, HandlerStep DEF HandlerAdvances
  <2>3. PICK n : /\ CallBecomes(r, n) /\ CallSafe(n)
                 /\ n.revoked \subseteq call[r].revoked \cup Revoked
                 /\ n = call[r] \/ Listed(n)
    BY <2>2, StartedCall
  <2>4. Typed'
    BY <2>1, <2>2, <2>3, RequestKeepsTypes DEF Typed, CallSafe, JobKeeps
  <2>5. RevokedInv'
    BY <2>1, <2>3, CallKeepsRevoked
  <2>6. RowInv'
    BY <2>2 DEF RowInv, JobBecomes, JobKeeps
  <2> QED BY <2>4, <2>5, <2>6
<1>2. CASE Selection(r) /\ UNCHANGED mediaVars
  <2>1. UNCHANGED <<candidates, job>>
    BY <1>2 DEF mediaVars
  <2>2. PICK n : /\ CallBecomes(r, n) /\ CallSafe(n) /\ n.revoked = call[r].revoked
                 /\ Listed(n)
    BY <1>2, SelectionStep DEF CallAdvances
  <2>3. Typed'
    BY <1>2, <2>1, <2>2, SelectionFrame, RequestKeepsTypes DEF CallSafe
  <2>4. RevokedInv'
    BY <1>2, <2>2, SelectionFrame, CallKeepsRevoked
  <2> QED BY <2>1, <2>3, <2>4 DEF RowInv
<1> QED BY <1>1, <1>2

\* A change that writes no key off and serves nothing new.
LEMMA HarmlessChange ==
    ASSUME Typed, RevokedInv, UNCHANGED <<version, call, admin>>,
           pool' \in [Channels -> [0..MaxChanges -> SUBSET Creds]],
           \A ch \in Channels, v \in 0..MaxChanges : pool'[ch][v] \subseteq pool[ch][v],
           \A c \in Creds : status'[c] \in {"off", "deleted"} <=> status[c] \in {"off", "deleted"}
    PROVE  RevokedInv'
<1>1. \A c \in Creds : Clean(c) => Clean(c)'
  BY DEF Clean
<1>2. \A r \in Requests : call[r].rows \subseteq Creds /\ call[r].revoked \subseteq Creds
  BY DEF Typed, CallTyped
<1>3. version \in 0..MaxChanges /\ \A ch \in Channels : pool[ch][version] \subseteq Creds
  BY CachedKeys, PoolAssumption DEF Typed
<1>4. (\A r \in Requests : Unrevoked(call[r]))'
  BY <1>2 DEF RevokedInv, Unrevoked
<1>5. (\A ch \in Channels : \A c \in pool[ch][version] : Clean(c))'
  BY <1>1, <1>3 DEF RevokedInv
<1>6. (\A ch \in Channels, v \in 0..MaxChanges : v > version => pool[ch][v] = {})'
  BY DEF RevokedInv
<1>7. (\A r \in Requests : call[r].pc = "store" /\ call[r].version = version
                          => \A c \in call[r].rows : Clean(c))'
  BY <1>1, <1>2 DEF RevokedInv
<1> QED BY <1>4, <1>5, <1>6, <1>7 DEF RevokedInv

\* The console writes a key off, or switches it on again.
LEMMA SetStatusKeeps ==
    ASSUME Typed, RevokedInv, NEW c \in Creds, UNCHANGED <<version, pool>>,
           admin = None, admin' = c, NEW s \in {"on", "off", "deleted"},
           status[c] \in {"on", "off", "auto"}, status' = [status EXCEPT ![c] = s],
           s = "on" => call' = [r \in Requests |-> [call[r] EXCEPT !.revoked = @ \ {c}]],
           s # "on" => call' = call
    PROVE  /\ RevokedInv'
           /\ DOMAIN call' = Requests /\ \A r \in Requests : CallTyped(call'[r])
<1>1. \A r \in Requests : DOMAIN call[r] = CallFields /\ CallTyped(call[r])
  BY DEF Typed, CallTyped
<1>2. ASSUME NEW r \in Requests
      PROVE  /\ DOMAIN call'[r] = CallFields /\ call'[r].pc = call[r].pc
             /\ call'[r].channel = call[r].channel /\ call'[r].version = call[r].version
             /\ call'[r].rows = call[r].rows /\ call'[r].available = call[r].available
             /\ call'[r].pick = call[r].pick
             /\ call'[r].revoked = IF s = "on" THEN call[r].revoked \ {c} ELSE call[r].revoked
  <2>1. CASE s = "on"
    <3>1. call'[r] = [call[r] EXCEPT !.revoked = @ \ {c}]
      BY <2>1
    <3> QED BY <1>1, <2>1, <3>1 DEF CallFields
  <2> QED BY <1>1, <2>1
<1>3. /\ status'[c] = s /\ DOMAIN status' = Creds
      /\ \A d \in Creds \ {c} : status'[d] = status[d]
  BY DEF Typed
<1>4. \A r \in Requests : CallTyped(call'[r])
  BY <1>1, <1>2 DEF CallTyped
<1>5. DOMAIN call' = Requests
  BY DEF Typed
<1>6. (\A r \in Requests : Unrevoked(call[r]))'
  <2> SUFFICES ASSUME NEW r \in Requests, NEW d \in call'[r].revoked
               PROVE  /\ status'[d] \in {"off", "deleted"}
                      /\ d \notin call'[r].rows \cup call'[r].available /\ d # call'[r].pick
    BY DEF Unrevoked
  <2>1. d \in call[r].revoked /\ (s = "on" => d # c)
    BY <1>2
  <2>2. /\ status[d] \in {"off", "deleted"}
        /\ d \notin call[r].rows \cup call[r].available /\ d # call[r].pick
    BY <2>1 DEF RevokedInv, Unrevoked
  <2>3. d \in Creds
    BY <1>1, <2>1 DEF CallTyped
  <2> QED BY <1>2, <1>3, <2>1, <2>2, <2>3
<1>7. ASSUME NEW d \in Creds, Clean(d) PROVE Clean(d)'
  <2> SUFFICES ASSUME status'[d] \in {"off", "deleted"}
               PROVE  d = admin' /\ \A r \in Requests : d \notin call'[r].revoked
    BY DEF Clean
  <2>1. CASE status[d] \in {"off", "deleted"}
    BY <1>7, <2>1, PoolAssumption DEF Clean
  <2>2. CASE status[d] \notin {"off", "deleted"}
    <3>1. d = c /\ s # "on"
      BY <1>3, <2>2
    <3>2. \A r \in Requests : d \notin call[r].revoked
      BY <2>2 DEF RevokedInv, Unrevoked
    <3> QED BY <1>2, <3>1, <3>2
  <2> QED BY <2>1, <2>2
<1>8. (\A ch \in Channels : \A d \in pool[ch][version] : Clean(d))'
  BY <1>7, CachedKeys DEF RevokedInv
<1>9. (\A r \in Requests : call[r].pc = "store" /\ call[r].version = version
                          => \A d \in call[r].rows : Clean(d))'
  BY <1>1, <1>2, <1>7 DEF RevokedInv, CallTyped
<1> QED BY <1>4, <1>5, <1>6, <1>8, <1>9 DEF RevokedInv

\* A new version has an empty cache, whatever was stored under the old one.
LEMMA NewVersion ==
    ASSUME Typed, RevokedInv, version' = version + 1, UNCHANGED <<status, pool, call>>,
           version' \in 0..MaxChanges
    PROVE  RevokedInv' /\ \A r \in Requests : CallTyped(call[r])'
<1>1. \A ch \in Channels : pool[ch][version + 1] = {}
  BY DEF Typed, RevokedInv
<1>2. \A r \in Requests : call[r].version <= version /\ call[r].version \in Nat
  BY DEF Typed, CallTyped
<1>3. (\A r \in Requests : Unrevoked(call[r]))'
  BY DEF RevokedInv, Unrevoked
<1>4. (\A ch \in Channels : \A c \in pool[ch][version] : Clean(c))'
  BY <1>1
<1>5. (\A ch \in Channels, v \in 0..MaxChanges : v > version => pool[ch][v] = {})'
  BY DEF RevokedInv, Typed
<1>6. (\A r \in Requests : call[r].pc = "store" /\ call[r].version = version
                          => \A c \in call[r].rows : Clean(c))'
  BY <1>2 DEF Typed
<1>7. ASSUME NEW r \in Requests PROVE CallTyped(call[r])'
  BY <1>2 DEF Typed, CallTyped
<1> QED BY <1>3, <1>4, <1>5, <1>6, <1>7 DEF RevokedInv

\* The cache only loses entries.
LEMMA ExpiredPool ==
    ASSUME Typed, NEW ch \in Channels, NEW v \in 0..MaxChanges,
           pool' = [pool EXCEPT ![ch][v] = {}]
    PROVE  /\ pool' \in [Channels -> [0..MaxChanges -> SUBSET Creds]]
           /\ \A k \in Channels, w \in 0..MaxChanges :
                 pool'[k][w] = IF k = ch /\ w = v THEN {} ELSE pool[k][w]
BY DEF Typed

LEMMA CredentialSteps ==
    ASSUME Typed, RevokedInv, NEW c \in Creds, UNCHANGED <<candidates, job>>,
           \/ CreateCredential(c) \/ DeleteCredential(c) \/ AutoChange(c)
           \/ Cool(c) \/ CooldownEnds(c)
           \/ \E on \in BOOLEAN : SetCredentialStatus(c, on)
    PROVE  Typed' /\ RevokedInv'
<1> USE DEF Change
<1>1. changes \in 0..MaxChanges /\ MaxChanges \in Nat /\ DOMAIN status = Creds /\ version \in Nat
  BY PoolAssumption DEF Typed
<1>2. \A r \in Requests : JobTyped(job[r])' /\ (UNCHANGED <<call, version>> => CallTyped(call[r])')
  BY DEF Typed, JobTyped, CallTyped
<1>3. pool \in [Channels -> [0..MaxChanges -> SUBSET Creds]]
  BY DEF Typed
<1>4. CASE CreateCredential(c)
  <2>1. UNCHANGED <<version, pool, memory, binding, bindingCache, admin, call>>
    BY <1>4 DEF CreateCredential
  <2>2. /\ DOMAIN status' = Creds
        /\ \A d \in Creds : status'[d] \in {"off", "deleted"} <=> status[d] \in {"off", "deleted"}
    BY <1>1, <1>4 DEF CreateCredential
  <2>3. changes' \in 0..MaxChanges /\ changes' = changes + 1
    BY <1>1, <1>4 DEF CreateCredential
  <2>4. Typed'
    BY <1>1, <1>2, <2>1, <2>2, <2>3 DEF Typed
  <2>5. RevokedInv'
    BY <1>3, <2>1, <2>2, HarmlessChange
  <2> QED BY <2>4, <2>5
<1>5. CASE AutoChange(c)
  <2>1. UNCHANGED <<version, pool, memory, binding, bindingCache, admin, call>>
    BY <1>5 DEF AutoChange
  <2>2. /\ DOMAIN status' = Creds
        /\ \A d \in Creds : status'[d] \in {"off", "deleted"} <=> status[d] \in {"off", "deleted"}
    BY <1>1, <1>5 DEF AutoChange
  <2>3. changes' \in 0..MaxChanges /\ changes' = changes + 1
    BY <1>1, <1>5 DEF AutoChange
  <2>4. Typed'
    BY <1>1, <1>2, <2>1, <2>2, <2>3 DEF Typed
  <2>5. RevokedInv'
    BY <1>3, <2>1, <2>2, HarmlessChange
  <2> QED BY <2>4, <2>5
<1>6. CASE Cool(c) \/ CooldownEnds(c)
  <2>1. UNCHANGED <<status, version, pool, memory, binding, bindingCache, admin, call>>
    BY <1>6 DEF Cool, CooldownEnds
  <2>2. changes' \in 0..MaxChanges /\ changes' >= changes
    BY <1>1, <1>6 DEF Cool, CooldownEnds
  <2>3. Typed'
    BY <1>1, <1>2, <2>1, <2>2 DEF Typed
  <2>4. RevokedInv'
    BY <1>3, <2>1, HarmlessChange
  <2> QED BY <2>3, <2>4
<1>7. ASSUME NEW s \in {"on", "off", "deleted"}, UNCHANGED <<version, pool, memory, bindingCache>>,
             DOMAIN binding' = Channels, Change, admin = None, admin' = c,
             status[c] \in {"on", "off", "auto"}, status' = [status EXCEPT ![c] = s],
             s = "on" => call' = [r \in Requests |-> [call[r] EXCEPT !.revoked = @ \ {c}]],
             s # "on" => call' = call
      PROVE  Typed' /\ RevokedInv'
  <2>1. /\ RevokedInv'
        /\ DOMAIN call' = Requests /\ \A r \in Requests : CallTyped(call'[r])
    BY <1>7, SetStatusKeeps
  <2>2. (\A r \in Requests : CallTyped(call[r]))'
    BY <1>7, <2>1 DEF CallTyped
  <2>3. changes' \in 0..MaxChanges /\ changes' = changes + 1 /\ version' < changes'
    BY <1>1, <1>7 DEF Typed
  <2>4. DOMAIN status' = Creds
    BY <1>1, <1>7
  <2>5. Typed'
    BY <1>1, <1>2, <1>7, <2>1, <2>2, <2>3, <2>4 DEF Typed
  <2> QED BY <2>1, <2>5
<1>8. CASE DeleteCredential(c)
  <2>1. DOMAIN binding' = Channels
    BY <1>8 DEF DeleteCredential
  <2> QED BY <1>7, <1>8, <2>1 DEF DeleteCredential
<1>9. ASSUME NEW on \in BOOLEAN, SetCredentialStatus(c, on) PROVE Typed' /\ RevokedInv'
  <2>1. DOMAIN binding' = Channels
    BY <1>9 DEF SetCredentialStatus, Typed
  <2>2. CASE on
    BY <1>7, <1>9, <2>1, <2>2 DEF SetCredentialStatus
  <2>3. CASE ~ on
    BY <1>7, <1>9, <2>1, <2>3 DEF SetCredentialStatus
  <2> QED BY <2>2, <2>3
<1> QED BY <1>4, <1>5, <1>6, <1>8, <1>9

LEMMA EnvironmentKeeps ==
    ASSUME Typed, RevokedInv, Environment, UNCHANGED <<candidates, job>>
    PROVE  Typed' /\ RevokedInv'
<1>1. changes \in 0..MaxChanges /\ MaxChanges \in Nat /\ version \in Nat
  BY PoolAssumption DEF Typed
<1>2. \A r \in Requests : JobTyped(job[r])' /\ (UNCHANGED <<call, version>> => CallTyped(call[r])')
  BY DEF Typed, JobTyped, CallTyped
<1>3. CASE ClearCredentialTransient \/ SetCredentialManagementKey
  <2>1. /\ version' = version + 1 /\ version' <= changes'
        /\ version' \in 0..MaxChanges /\ changes' \in 0..MaxChanges
        /\ admin' = None
        /\ UNCHANGED <<status, pool, memory, binding, bindingCache, call>>
    BY <1>1, <1>3 DEF ClearCredentialTransient, SetCredentialManagementKey, Change, Typed
  <2>2. RevokedInv' /\ \A r \in Requests : CallTyped(call[r])'
    BY <2>1, NewVersion
  <2>3. Typed'
    BY <1>1, <1>2, <2>1, <2>2 DEF Typed
  <2> QED BY <2>2, <2>3
<1>4. ASSUME NEW ch \in Channels, NEW v \in 0..MaxChanges, PoolExpires(ch, v)
      PROVE  Typed' /\ RevokedInv'
  <2>1. UNCHANGED <<status, version, memory, binding, bindingCache, admin, changes, call>>
    BY <1>4 DEF PoolExpires, envVars
  <2>2. /\ pool' \in [Channels -> [0..MaxChanges -> SUBSET Creds]]
        /\ \A k \in Channels, w \in 0..MaxChanges : pool'[k][w] \subseteq pool[k][w]
    <3>1. pool' = [pool EXCEPT ![ch][v] = {}]
      BY <1>4 DEF PoolExpires
    <3>2. pool' \in [Channels -> [0..MaxChanges -> SUBSET Creds]]
      BY <3>1, ExpiredPool
    <3>3. ASSUME NEW k \in Channels, NEW w \in 0..MaxChanges PROVE pool'[k][w] \subseteq pool[k][w]
      <4>1. pool'[k][w] = IF k = ch /\ w = v THEN {} ELSE pool[k][w]
        BY <3>1, ExpiredPool
      <4> QED BY <4>1
    <3> QED BY <3>2, <3>3
  <2>3. Typed'
    BY <1>1, <1>2, <2>1, <2>2 DEF Typed
  <2>4. RevokedInv'
    BY <2>1, <2>2, HarmlessChange
  <2> QED BY <2>3, <2>4
<1>5. ASSUME NEW ch \in Channels, BindingExpires(ch) \/ AffinityExpires(ch)
      PROVE  Typed' /\ RevokedInv'
  <2>1. /\ UNCHANGED <<status, version, pool, binding, admin, call>>
        /\ changes' \in 0..MaxChanges /\ changes' >= changes
        /\ DOMAIN memory' = Channels /\ DOMAIN bindingCache' = Channels
    BY <1>1, <1>5 DEF BindingExpires, AffinityExpires, Change, Typed
  <2>2. Typed'
    BY <1>1, <1>2, <2>1 DEF Typed
  <2>3. pool \in [Channels -> [0..MaxChanges -> SUBSET Creds]]
    BY DEF Typed
  <2>4. RevokedInv'
    BY <2>1, <2>3, HarmlessChange
  <2> QED BY <2>2, <2>4
<1> QED BY <1>3, <1>4, <1>5, CredentialSteps DEF Environment

\* Later calls leave the requests alone.
LEMMA PollingFrame ==
    ASSUME Polling
    PROVE  UNCHANGED <<poolVars, candidates, job>>
BY DEF Polling, LoadVideoTaskRoute, QueryTaskOnUpstream, KeepResourceURL, DownloadAdapterVideo,
       EndPoll, RouteExpires

LEMMA UnchangedKeeps ==
    ASSUME Typed, RevokedInv, RowInv, UNCHANGED <<poolVars, candidates, job>>
    PROVE  Typed' /\ RevokedInv' /\ RowInv'
<1> USE DEF poolVars
<1>1. Typed'
  BY DEF Typed, JobTyped, CallTyped
<1>2. RevokedInv'
  BY DEF RevokedInv, Unrevoked, Clean
<1>3. RowInv'
  BY DEF RowInv, RowSafe
<1> QED BY <1>1, <1>2, <1>3

LEMMA NextKeeps ==
    ASSUME Typed, RevokedInv, RowInv, [Next]_vars
    PROVE  Typed' /\ RevokedInv' /\ RowInv'
<1>1. CASE UNCHANGED vars
  BY <1>1, UnchangedKeeps DEF vars, mediaVars
<1>2. CASE Polling
  BY <1>2, PollingFrame, UnchangedKeeps
<1>3. CASE Environment /\ UNCHANGED mediaVars
  <2>1. UNCHANGED <<candidates, job>>
    BY <1>3 DEF mediaVars
  <2>2. RowInv'
    BY <2>1 DEF RowInv, RowSafe
  <2> QED BY <1>3, <2>1, <2>2, EnvironmentKeeps
<1> QED BY <1>1, <1>2, <1>3, RequestsKeep DEF Next

LEMMA InitiallySafe ==
    ASSUME Init
    PROVE  Typed /\ RevokedInv /\ RowInv
<1>1. PICK m \in Mixes, mode \in {"legacy", "openai"} :
         /\ candidates = m.candidates
         /\ job = [r \in Requests |->
                 [kind |-> m.kind[r], mode |-> mode,
                  pc |-> IF m.kind[r] = "idle" THEN "end" ELSE "start", index |-> 1,
                  key |-> None, excluded |-> {}, attempts |-> 0, reason |-> "",
                  last |-> NoResult, lastKey |-> None, answeredBy |-> None, row |-> NoRow]]
  BY DEF Init
<1>2. candidates \in Seq(Channels) /\ Len(candidates) \in Nat \ {0}
  <2>1. candidates \in Seq(Channels) /\ candidates # <<>>
    BY <1>1, MediaAssumption
  <2> QED BY <2>1
<1>3. \A r \in Requests : /\ DOMAIN job[r] = JobFields /\ job[r].index = 1
                          /\ job[r].excluded = {} /\ job[r].row = NoRow
                          /\ job[r].answeredBy = None
  BY <1>1 DEF JobFields
<1>4. \A r \in Requests : JobTyped(job[r]) /\ RowSafe(job[r])
  BY <1>2, <1>3 DEF JobTyped, RowSafe
<1>5. /\ DOMAIN Idle = CallFields /\ Idle.pc = "idle" /\ Idle.version = 0 /\ Idle.rows = {}
      /\ Idle.available = {} /\ Idle.revoked = {}
  BY DEF Idle, CallFields
<1>6. PoolInit
  BY DEF Init
<1>7. CallTyped(Idle) /\ Unrevoked(Idle)
  BY <1>5, <1>6 DEF CallTyped, Unrevoked, KeyStages, PoolInit
<1>8. Typed
  <2>1. DOMAIN status = Creds /\ 0 \in 0..MaxChanges
    BY <1>6, PoolAssumption DEF PoolInit
  <2>2. pool \in [Channels -> [0..MaxChanges -> SUBSET Creds]]
    BY <1>6 DEF PoolInit
  <2>3. DOMAIN job = Requests /\ \A r \in Requests : JobTyped(job[r])
    BY <1>1, <1>4
  <2>4. DOMAIN call = Requests /\ \A r \in Requests : CallTyped(call[r])
    BY <1>6, <1>7 DEF PoolInit
  <2> QED BY <1>2, <1>6, <2>1, <2>2, <2>3, <2>4 DEF PoolInit, Typed
<1>9. RevokedInv
  BY <1>5, <1>6, <1>7, <1>8, CachedKeys DEF PoolInit, RevokedInv
<1> QED BY <1>4, <1>8, <1>9 DEF RowInv

THEOREM RequestsSafe == Spec => [](Typed /\ RevokedInv /\ RowInv)
<1>1. Init => Typed /\ RevokedInv /\ RowInv
  BY InitiallySafe
<1>2. Typed /\ RevokedInv /\ RowInv /\ [Next]_vars => (Typed /\ RevokedInv /\ RowInv)'
  BY NextKeeps
<1> QED BY <1>1, <1>2, PTL DEF Spec

\* A key that was disabled or deleted before a request began to choose is not
\* the one it gets (RevokedKeyIsNotServed), for any number of changes.
THEOREM RevokedKeysAreNotServed == Spec => []RevokedKeyIsNotServed
<1>1. RevokedInv => RevokedKeyIsNotServed
  BY DEF RevokedInv, Unrevoked, RevokedKeyIsNotServed
<1> QED BY <1>1, RequestsSafe, PTL

\* The usage row of an answered request names the key that answered
\* (RowNamesTheAnswerer), for any list of candidates.
THEOREM RowsNameTheAnswerer == Spec => []RowNamesTheAnswerer
<1>1. RowInv => RowNamesTheAnswerer
  BY DEF RowInv, RowSafe, RowNamesTheAnswerer
<1> QED BY <1>1, RequestsSafe, PTL

-----------------------------------------------------------------------------
(* The invariant of first uses. *)

\* A binding that is there stays.
BindingKept == \A ch \in Channels : binding[ch] # None => binding'[ch] = binding[ch]

\* One call goes on, and the binding with it.
FirstUseGoesOn(r) ==
    /\ \E n : CallBecomes(r, n) /\ FirstUse(n, binding')
    /\ BindingKept
    /\ \A ch \in Channels : /\ binding'[ch] \in Enabled(ch) \cup {None}
                           /\ bindingCache'[ch] \in {binding'[ch], None}

\* What a call is known to hold by its stage.
LEMMA FirstUseFacts ==
    ASSUME Typed, Steady, SteadyInv, NEW r \in Requests, call[r].pc # "idle"
    PROVE  LET q == call[r] IN
           /\ DOMAIN q = CallFields /\ q.channel \in Channels
           /\ q.pc \notin {"replace", "affinity", "remember"}
           /\ ~ q.conversation /\ q.nilExcluded /\ q.excluded = {}
           /\ q.pc \in {"store", "filter"} => q.rows = Enabled(q.channel)
           /\ q.pc \in BindingStages => q.available = Enabled(q.channel)
           /\ q.pc = "insert" => q.pick \in Enabled(q.channel)
           /\ q.pc \in {"loaded", "reloaded"} => q.bound = binding[q.channel]
           /\ q.pc = "bound" => q.pick = binding[q.channel]
           /\ q.pc \in {"loaded", "reload", "reloaded", "bound"} => binding[q.channel] # None
           /\ binding[q.channel] \in Enabled(q.channel) \cup {None}
           /\ bindingCache[q.channel] \in {binding[q.channel], None}
BY DEF Typed, CallTyped, SteadyInv, FirstUse

LEMMA BindingsStay ==
    ASSUME Steady, SteadyInv, UNCHANGED <<binding, bindingCache>>
    PROVE  /\ BindingKept
           /\ \A ch \in Channels : /\ binding'[ch] \in Enabled(ch) \cup {None}
                                  /\ bindingCache'[ch] \in {binding'[ch], None}
BY DEF SteadyInv, BindingKept

\* A call that returns the bound key.
LEMMA ChosenFirst ==
    ASSUME Typed, Steady, SteadyInv, NEW r \in Requests, call[r].pc # "idle", NEW c,
           Chosen(r, c), c = binding'[call[r].channel], c # None
    PROVE  \E n : CallBecomes(r, n) /\ FirstUse(n, binding')
<1> DEFINE q == call[r]
           n == [Idle EXCEPT !.pc = "chosen", !.pick = c, !.channel = q.channel,
                             !.nilExcluded = q.nilExcluded, !.revoked = q.revoked]
<1>1. CallBecomes(r, n)
  BY DEF Typed, Chosen, CallBecomes
<1>2. q.nilExcluded
  BY FirstUseFacts
<1>3. /\ n.pc = "chosen" /\ n.pick = c /\ n.channel = q.channel /\ n.excluded = {}
      /\ ~ n.conversation /\ n.nilExcluded
  BY <1>2 DEF Idle
<1> HIDE DEF n
<1>4. FirstUse(n, binding')
  BY <1>3 DEF FirstUse, BindingStages
<1> QED BY <1>1, <1>4

LEMMA FirstReading ==
    ASSUME Typed, Steady, SteadyInv, NEW r \in Requests,
           ReadCredentialCache(r) \/ ListEnabled(r) \/ WriteCredentialCache(r)
    PROVE  FirstUseGoesOn(r)
<1> DEFINE q == call[r]
<1>1. q.pc # "idle" /\ UNCHANGED <<binding, bindingCache, status>>
  BY DEF ReadCredentialCache, ListEnabled, WriteCredentialCache, envVars
<1>2. /\ DOMAIN q = CallFields /\ q.channel \in Channels
      /\ ~ q.conversation /\ q.nilExcluded /\ q.excluded = {}
      /\ q.pc = "store" => q.rows = Enabled(q.channel)
  BY <1>1, FirstUseFacts
<1>3. ASSUME NEW n, CallBecomes(r, n), n.channel = q.channel, n.excluded = {}, ~ n.conversation,
             n.nilExcluded, n.pc \in {"list", "store", "filter"},
             n.pc # "list" => n.rows = Enabled(q.channel)
      PROVE  FirstUseGoesOn(r)
  <2>1. FirstUse(n, binding')
    BY <1>1, <1>3 DEF FirstUse, BindingStages, Enabled
  <2> QED BY <1>1, <1>3, <2>1, BindingsStay DEF FirstUseGoesOn
<1>4. CASE ReadCredentialCache(r)
  <2> DEFINE hit == pool[q.channel][version]
             p == IF hit = {} THEN "list" ELSE "filter"
             n == [q EXCEPT !.pc = p, !.version = version, !.rows = hit]
  <2>1. CallBecomes(r, n)
    BY <1>4 DEF Typed, ReadCredentialCache, CallBecomes
  <2>2. hit \in {{}, Enabled(q.channel)}
    BY <1>2, CachedKeys DEF SteadyInv
  <2>3. p \in {"list", "filter"} /\ (p # "list" => hit = Enabled(q.channel))
    BY <2>2
  <2> HIDE DEF hit, p
  <2>4. /\ n.pc = p /\ n.rows = hit /\ n.channel = q.channel /\ n.excluded = {}
        /\ ~ n.conversation /\ n.nilExcluded
    BY <1>2 DEF CallFields
  <2> HIDE DEF n
  <2> QED BY <1>3, <2>1, <2>3, <2>4
<1>5. CASE ListEnabled(r)
  <2> DEFINE n == [q EXCEPT !.pc = "store", !.rows = Enabled(q.channel)]
  <2>1. CallBecomes(r, n)
    BY <1>5 DEF Typed, ListEnabled, CallBecomes, Enabled
  <2>2. /\ n.pc = "store" /\ n.rows = Enabled(q.channel) /\ n.channel = q.channel
        /\ n.excluded = {} /\ ~ n.conversation /\ n.nilExcluded
    BY <1>2 DEF CallFields
  <2> HIDE DEF n
  <2> QED BY <1>3, <2>1, <2>2
<1>6. CASE WriteCredentialCache(r)
  <2> DEFINE n == [q EXCEPT !.pc = "filter"]
  <2>1. q.pc = "store" /\ CallBecomes(r, n)
    BY <1>6 DEF Typed, WriteCredentialCache, Goto, CallBecomes
  <2>2. /\ n.pc = "filter" /\ n.rows = q.rows /\ n.channel = q.channel
        /\ n.excluded = {} /\ ~ n.conversation /\ n.nilExcluded
    BY <1>2 DEF CallFields
  <2> HIDE DEF n
  <2> QED BY <1>2, <1>3, <2>1, <2>2
<1> QED BY <1>4, <1>5, <1>6

\* Nothing is paused, so all enabled keys are available.
LEMMA FirstFilter ==
    ASSUME Typed, Steady, SteadyInv, NEW r \in Requests, FilterAvailable(r)
    PROVE  FirstUseGoesOn(r)
<1> DEFINE q == call[r]
           rows == {c \in q.rows \ cooldown : q.anyModel \/ c \notin cooling}
           n == [q EXCEPT !.version = 0, !.rows = {}, !.available = q.rows, !.pc = "binding"]
           left == (q.rows \ cooldown) \ q.excluded
           m == [q EXCEPT !.pc = "none", !.available = left]
<1>1. q.pc = "filter" /\ UNCHANGED <<binding, bindingCache, status>>
  BY DEF FilterAvailable, envVars
<1>2. /\ DOMAIN q = CallFields /\ q.channel \in Channels
      /\ ~ q.conversation /\ q.nilExcluded /\ q.excluded = {}
      /\ q.rows = Enabled(q.channel)
  BY <1>1, FirstUseFacts
<1>3. rows = q.rows /\ rows \ q.excluded = q.rows
  BY <1>2 DEF SteadyInv
<1>4. CallBecomes(r, n) \/ CallBecomes(r, m)
  <2>1. DOMAIN call = Requests
    BY DEF Typed
  <2>2. \/ call' = [call EXCEPT ![r] = n]
        \/ call' = [call EXCEPT ![r].pc = "none", ![r].available = left]
    BY <1>2, <1>3 DEF FilterAvailable
  <2>3. call' = [call EXCEPT ![r].pc = "none", ![r].available = left] => CallBecomes(r, m)
    BY <2>1 DEF CallBecomes
  <2> HIDE DEF n, m
  <2>4. call' = [call EXCEPT ![r] = n] => CallBecomes(r, n)
    BY <2>1 DEF CallBecomes
  <2> QED BY <2>2, <2>3, <2>4
<1> HIDE DEF left
<1>5. /\ n.pc = "binding" /\ n.available = q.rows /\ n.channel = q.channel
      /\ n.excluded = {} /\ ~ n.conversation /\ n.nilExcluded
  BY <1>2 DEF CallFields
<1>6. /\ m.pc = "none" /\ m.channel = q.channel
      /\ m.excluded = {} /\ ~ m.conversation /\ m.nilExcluded
  BY <1>2 DEF CallFields
<1> HIDE DEF n, m
<1>7. FirstUse(n, binding') /\ FirstUse(m, binding')
  BY <1>1, <1>2, <1>5, <1>6 DEF FirstUse, BindingStages, Enabled
<1> QED BY <1>1, <1>4, <1>7, BindingsStay DEF FirstUseGoesOn

\* A step that moves a call to another stage of its binding.
LEMMA FirstMove ==
    ASSUME Typed, Steady, SteadyInv, NEW r \in Requests, call[r].pc \in BindingStages,
           NEW p \in {"load", "loaded", "insert", "reload", "reloaded", "bound"},
           NEW bound, NEW c,
           CallBecomes(r, [call[r] EXCEPT !.pc = p, !.bound = bound, !.pick = c]),
           p = "insert" => c \in Enabled(call[r].channel),
           p \in {"loaded", "reloaded"} => bound = binding'[call[r].channel],
           p = "bound" => c = binding'[call[r].channel],
           p \in {"loaded", "reload", "reloaded", "bound"} => binding'[call[r].channel] # None
    PROVE  \E n : CallBecomes(r, n) /\ FirstUse(n, binding')
<1> DEFINE q == call[r]
           n == [q EXCEPT !.pc = p, !.bound = bound, !.pick = c]
<1>1. /\ DOMAIN q = CallFields /\ q.channel \in Channels
      /\ ~ q.conversation /\ q.nilExcluded /\ q.excluded = {}
      /\ q.available = Enabled(q.channel)
  BY FirstUseFacts DEF BindingStages
<1>2. /\ n.pc = p /\ n.available = q.available /\ n.channel = q.channel
      /\ n.excluded = {} /\ ~ n.conversation /\ n.nilExcluded
      /\ n.bound = bound /\ n.pick = c
  BY <1>1 DEF CallFields
<1>3. CallBecomes(r, n)
  OBVIOUS
<1> HIDE DEF n
<1>4. FirstUse(n, binding')
  BY <1>1, <1>2 DEF FirstUse, BindingStages
<1> QED BY <1>3, <1>4

\* The forms of such a step.
LEMMA MoveForms ==
    ASSUME Typed, NEW r \in Requests, NEW p, NEW c
    PROVE  LET q == call[r] IN
           /\ Goto(r, p)
                => CallBecomes(r, [q EXCEPT !.pc = p, !.bound = q.bound, !.pick = q.pick])
           /\ call' = [call EXCEPT ![r].pc = p, ![r].bound = c]
                => CallBecomes(r, [q EXCEPT !.pc = p, !.bound = c, !.pick = q.pick])
           /\ call' = [call EXCEPT ![r].pc = p, ![r].pick = c]
                => CallBecomes(r, [q EXCEPT !.pc = p, !.bound = q.bound, !.pick = c])
<1> DEFINE q == call[r]
<1>1. DOMAIN q = CallFields /\ DOMAIN call = Requests
  BY DEF Typed, CallTyped
<1>2. /\ [q EXCEPT !.pc = p] = [q EXCEPT !.pc = p, !.bound = q.bound, !.pick = q.pick]
      /\ [q EXCEPT !.pc = p, !.bound = c] = [q EXCEPT !.pc = p, !.bound = c, !.pick = q.pick]
      /\ [q EXCEPT !.pc = p, !.pick = c] = [q EXCEPT !.pc = p, !.bound = q.bound, !.pick = c]
  <2> HIDE DEF q
  <2> QED BY <1>1 DEF CallFields
<1>3. /\ Goto(r, p) => CallBecomes(r, [q EXCEPT !.pc = p])
      /\ call' = [call EXCEPT ![r].pc = p, ![r].bound = c]
           => CallBecomes(r, [q EXCEPT !.pc = p, !.bound = c])
      /\ call' = [call EXCEPT ![r].pc = p, ![r].pick = c]
           => CallBecomes(r, [q EXCEPT !.pc = p, !.pick = c])
  BY <1>1 DEF Goto, CallBecomes
<1> QED BY <1>2, <1>3

\* Writing the binding, or its copy, of one channel.
LEMMA BindingsWritten ==
    ASSUME Typed, Steady, SteadyInv, NEW ch \in Channels,
           \/ binding' = binding
           \/ binding[ch] = None /\ \E c \in Enabled(ch) : binding' = [binding EXCEPT ![ch] = c],
           \/ bindingCache' = bindingCache
           \/ bindingCache' = [bindingCache EXCEPT ![ch] = binding[ch]]
    PROVE  /\ BindingKept
           /\ \A k \in Channels : /\ binding'[k] \in Enabled(k) \cup {None}
                                 /\ bindingCache'[k] \in {binding'[k], None}
<1>1. \A k \in Channels : /\ binding[k] \in Enabled(k) \cup {None}
                         /\ bindingCache[k] \in {binding[k], None}
  BY DEF SteadyInv
<1>2. DOMAIN binding = Channels /\ DOMAIN bindingCache = Channels
  BY DEF Typed
<1> QED BY <1>1, <1>2 DEF BindingKept

LEMMA FirstBinding ==
    ASSUME Typed, Steady, SteadyInv, NEW r \in Requests,
           \/ ReadCredentialBindingCache(r) \/ LoadBinding(r)
           \/ WriteLoadedBinding(r) \/ BindFirstCredential(r) \/ ReloadBinding(r)
           \/ WriteReloadedBinding(r) \/ WriteCredentialBindingCache(r)
    PROVE  FirstUseGoesOn(r)
<1> DEFINE q == call[r]
           ch == q.channel
<1>1. q.pc \in BindingStages /\ q.pc # "idle"
  BY DEF ReadCredentialBindingCache, LoadBinding, WriteLoadedBinding, BindFirstCredential,
         ReloadBinding, WriteReloadedBinding, WriteCredentialBindingCache, BindingStages
<1>2. /\ ch \in Channels /\ q.available = Enabled(ch)
      /\ q.pc = "insert" => q.pick \in Enabled(ch)
      /\ q.pc \in {"loaded", "reloaded"} => q.bound = binding[ch]
      /\ q.pc = "bound" => q.pick = binding[ch]
      /\ q.pc \in {"loaded", "reload", "reloaded", "bound"} => binding[ch] # None
      /\ binding[ch] \in Enabled(ch) \cup {None}
      /\ bindingCache[ch] \in {binding[ch], None}
  BY <1>1, FirstUseFacts
<1>3. None \notin Enabled(ch)
  BY PoolAssumption DEF Enabled
<1>4. CASE ReadCredentialBindingCache(r)
  <2>1. UNCHANGED <<binding, bindingCache>> /\ q.pc = "binding"
    BY <1>4 DEF ReadCredentialBindingCache
  <2>2. CASE bindingCache[ch] = None
    <3>1. Goto(r, "load")
      BY <1>4, <2>2 DEF ReadCredentialBindingCache
    <3>2. CallBecomes(r, [q EXCEPT !.pc = "load", !.bound = q.bound, !.pick = q.pick])
      BY <3>1, MoveForms
    <3> QED BY <1>1, <2>1, <3>2, FirstMove, BindingsStay DEF FirstUseGoesOn
  <2>3. CASE bindingCache[ch] # None
    <3>1. Chosen(r, binding[ch]) /\ binding[ch] # None
      BY <1>2, <1>4, <2>3 DEF ReadCredentialBindingCache, UseBinding
    <3> QED BY <1>1, <2>1, <3>1, ChosenFirst, BindingsStay DEF FirstUseGoesOn
  <2> QED BY <2>2, <2>3
<1>5. CASE LoadBinding(r)
  <2>1. UNCHANGED <<binding, bindingCache>> /\ q.pc = "load"
    BY <1>5 DEF LoadBinding
  <2>2. CASE binding[ch] = None
    <3>1. PICK c \in Enabled(ch) : call' = [call EXCEPT ![r].pc = "insert", ![r].pick = c]
      BY <1>2, <1>3, <1>5, <2>2 DEF LoadBinding, UseBinding, WeightedSelect
    <3>2. CallBecomes(r, [q EXCEPT !.pc = "insert", !.bound = q.bound, !.pick = c])
      BY <3>1, MoveForms
    <3> QED BY <1>1, <2>1, <3>2, FirstMove, BindingsStay DEF FirstUseGoesOn
  <2>3. CASE binding[ch] # None
    <3>1. call' = [call EXCEPT ![r].pc = "loaded", ![r].bound = binding[ch]]
      BY <1>5, <2>3 DEF LoadBinding
    <3>2. CallBecomes(r, [q EXCEPT !.pc = "loaded", !.bound = binding[ch], !.pick = q.pick])
      BY <3>1, MoveForms
    <3> QED BY <1>1, <2>1, <2>3, <3>2, FirstMove, BindingsStay DEF FirstUseGoesOn
  <2> QED BY <2>2, <2>3
<1>6. CASE WriteLoadedBinding(r) \/ WriteReloadedBinding(r) \/ WriteCredentialBindingCache(r)
  <2>1. /\ Chosen(r, binding[ch]) /\ binding[ch] # None /\ UNCHANGED binding
        /\ bindingCache' = [bindingCache EXCEPT ![ch] = binding[ch]]
    <3>1. CASE WriteLoadedBinding(r)
      BY <1>2, <1>3, <3>1 DEF WriteLoadedBinding, UseBinding
    <3>2. CASE WriteReloadedBinding(r)
      BY <1>2, <1>3, <3>2 DEF WriteReloadedBinding
    <3>3. CASE WriteCredentialBindingCache(r)
      BY <1>2, <1>3, <3>3 DEF WriteCredentialBindingCache
    <3> QED BY <1>6, <3>1, <3>2, <3>3
  <2>2. \E n : CallBecomes(r, n) /\ FirstUse(n, binding')
    BY <1>1, <2>1, ChosenFirst
  <2> QED BY <1>2, <2>1, <2>2, BindingsWritten DEF FirstUseGoesOn
<1>7. CASE BindFirstCredential(r)
  <2>1. q.pc = "insert" /\ UNCHANGED bindingCache /\ status[q.pick] = "on"
    BY <1>2, <1>7 DEF BindFirstCredential, Enabled
  <2>2. CASE binding[ch] = None
    <3>1. Goto(r, "bound") /\ binding' = [binding EXCEPT ![ch] = q.pick]
      BY <1>7, <2>1, <2>2 DEF BindFirstCredential
    <3>2. binding'[ch] = q.pick /\ q.pick \in Enabled(ch) /\ q.pick # None
      BY <1>2, <1>3, <2>1, <3>1 DEF Typed
    <3>3. CallBecomes(r, [q EXCEPT !.pc = "bound", !.bound = q.bound, !.pick = q.pick])
      BY <3>1, MoveForms
    <3>4. \E n : CallBecomes(r, n) /\ FirstUse(n, binding')
      BY <1>1, <3>2, <3>3, FirstMove
    <3> QED BY <1>2, <2>1, <2>2, <3>1, <3>2, <3>4, BindingsWritten DEF FirstUseGoesOn
  <2>3. CASE binding[ch] # None
    <3>1. Goto(r, "reload") /\ binding' = binding
      BY <1>7, <2>1, <2>3 DEF BindFirstCredential
    <3>2. CallBecomes(r, [q EXCEPT !.pc = "reload", !.bound = q.bound, !.pick = q.pick])
      BY <3>1, MoveForms
    <3>3. \E n : CallBecomes(r, n) /\ FirstUse(n, binding')
      BY <1>1, <2>3, <3>1, <3>2, FirstMove
    <3> QED BY <2>1, <3>1, <3>3, BindingsStay DEF FirstUseGoesOn
  <2> QED BY <2>2, <2>3
<1>8. CASE ReloadBinding(r)
  <2>1. /\ UNCHANGED <<binding, bindingCache>> /\ binding[ch] # None
        /\ call' = [call EXCEPT ![r].pc = "reloaded", ![r].bound = binding[ch]]
    BY <1>2, <1>8 DEF ReloadBinding
  <2>2. CallBecomes(r, [q EXCEPT !.pc = "reloaded", !.bound = binding[ch], !.pick = q.pick])
    BY <2>1, MoveForms
  <2>3. \E n : CallBecomes(r, n) /\ FirstUse(n, binding')
    BY <1>1, <2>1, <2>2, FirstMove
  <2> QED BY <2>1, <2>3, BindingsStay DEF FirstUseGoesOn
<1> QED BY <1>4, <1>5, <1>6, <1>7, <1>8

LEMMA FirstSelection ==
    ASSUME Typed, Steady, SteadyInv, NEW r \in Requests, Selection(r)
    PROVE  FirstUseGoesOn(r)
<1>1. ~ SelectForConversation(r) /\ ~ WriteCredentialAffinity(r) /\ ~ ReplaceCredentialBinding(r)
  BY FirstUseFacts DEF SelectForConversation, WriteCredentialAffinity, ReplaceCredentialBinding
<1> QED BY <1>1, FirstReading, FirstFilter, FirstBinding DEF Selection

\* No key changes and no request of another kind appears while first uses last.
LEMMA SteadyBefore ==
    ASSUME Typed, RowInv, [Next]_vars, Steady'
    PROVE  Steady
<1>1. changes \in Nat /\ DOMAIN job = Requests
  BY PoolAssumption DEF Typed
<1>2. CASE \E r \in Requests : Handler(r)
  <2>1. PICK r \in Requests : Handler(r)
    BY <1>2
  <2>2. changes' = changes
    BY <2>1, HandlerFrame DEF envVars
  <2>3. PICK m : JobBecomes(r, m) /\ m.kind = job[r].kind
    BY <2>1, HandlerStep DEF HandlerAdvances, JobKeeps
  <2> QED BY <2>2, <2>3 DEF Steady, JobBecomes
<1>3. CASE \E r \in Requests : Selection(r) /\ UNCHANGED mediaVars
  BY <1>3, SelectionFrame DEF envVars, mediaVars, Steady
<1>4. CASE Environment /\ UNCHANGED mediaVars
  <2>1. changes' >= changes
    BY <1>1, <1>4 DEF Environment, Change, CreateCredential, DeleteCredential, AutoChange, Cool,
           CooldownEnds, SetCredentialStatus, ClearCredentialTransient,
           SetCredentialManagementKey, PoolExpires, BindingExpires, AffinityExpires, envVars
  <2> QED BY <1>1, <1>4, <2>1 DEF mediaVars, Steady
<1>5. CASE Polling \/ UNCHANGED vars
  BY <1>5, PollingFrame DEF vars, poolVars, mediaVars, Steady
<1> QED BY <1>2, <1>3, <1>4, <1>5 DEF Next

\* Without a change only cached pools expire.
LEMMA SteadyEnvironment ==
    ASSUME Typed, Steady, SteadyInv, Environment, changes' = 0
    PROVE  /\ UNCHANGED <<status, cooldown, cooling, binding, bindingCache, call>>
           /\ \A ch \in Channels, v \in 0..MaxChanges : pool'[ch][v] \in {{}, pool[ch][v]}
<1>1. changes = 0 /\ admin = None /\ ~ Change
  BY DEF Steady, Typed, Change
<1>2. cooldown = {} /\ cooling = {}
  BY DEF SteadyInv
<1>3. PICK ch \in Channels, v \in 0..MaxChanges : PoolExpires(ch, v)
  BY <1>1, <1>2 DEF Environment, CreateCredential, DeleteCredential, AutoChange, Cool,
         CooldownEnds, SetCredentialStatus, ClearCredentialTransient,
         SetCredentialManagementKey, BindingExpires, AffinityExpires
<1>4. pool' = [pool EXCEPT ![ch][v] = {}] /\ UNCHANGED <<envVars, binding, bindingCache, call>>
  BY <1>3 DEF PoolExpires
<1>5. \A k \in Channels, w \in 0..MaxChanges :
         pool'[k][w] = IF k = ch /\ w = v THEN {} ELSE pool[k][w]
  BY <1>4, ExpiredPool
<1>6. \A k \in Channels, w \in 0..MaxChanges : pool'[k][w] \in {{}, pool[k][w]}
  BY <1>5
<1> QED BY <1>4, <1>6 DEF envVars

LEMMA FirstUseKept ==
    ASSUME Typed, SteadyInv, Steady, BindingKept, NEW r \in Requests
    PROVE  FirstUse(call[r], binding')
<1>1. FirstUse(call[r], binding) /\ (call[r].pc # "idle" => call[r].channel \in Channels)
  BY DEF SteadyInv, Typed, CallTyped
<1> QED BY <1>1 DEF FirstUse, BindingKept

LEMMA SteadyKeeps ==
    ASSUME Typed, RowInv, SteadyInv, [Next]_vars
    PROVE  SteadyInv'
<1> SUFFICES ASSUME Steady' PROVE SteadyInv'
  BY DEF SteadyInv
<1>1. Steady
  BY SteadyBefore
<1>2. /\ cooldown = {} /\ cooling = {}
      /\ \A ch \in Channels, v \in 0..MaxChanges : pool[ch][v] \in {{}, Enabled(ch)}
  BY <1>1 DEF SteadyInv
<1>3. ASSUME UNCHANGED <<status, cooldown, cooling>>,
             \A ch \in Channels, v \in 0..MaxChanges : pool'[ch][v] \in {{}, Enabled(ch)},
             \A ch \in Channels : /\ binding'[ch] \in Enabled(ch) \cup {None}
                                /\ bindingCache'[ch] \in {binding'[ch], None},
             \A r \in Requests : FirstUse(call'[r], binding')
      PROVE  SteadyInv'
  <2>1. \A ch : Enabled(ch)' = Enabled(ch)
    BY <1>3 DEF Enabled
  <2>2. ASSUME NEW r \in Requests PROVE FirstUse(call[r], binding)'
    <3>1. FirstUse(call'[r], binding')
      BY <1>3
    <3> QED BY <2>1, <3>1 DEF FirstUse
  <2> QED BY <1>2, <1>3, <2>1, <2>2 DEF SteadyInv
<1>4. ASSUME NEW r \in Requests, NEW n, CallBecomes(r, n), FirstUse(n, binding'), BindingKept
      PROVE  \A s \in Requests : FirstUse(call'[s], binding')
  BY <1>1, <1>4, FirstUseKept DEF CallBecomes
<1>5. ASSUME UNCHANGED binding PROVE BindingKept
  BY <1>5 DEF BindingKept
<1>6. ASSUME NEW r \in Requests, Handler(r) PROVE SteadyInv'
  <2>1. UNCHANGED <<status, cooldown, cooling, pool, binding, bindingCache>>
    BY <1>6, HandlerFrame DEF envVars
  <2>2. PICK m : JobBecomes(r, m) /\ JobKeeps(job[r], m) /\ CallStarts(r, m)
    BY <1>6, HandlerStep DEF HandlerAdvances
  <2>3. m.kind \notin {"chat", "talk"} /\ m.excluded = {}
    BY <1>1, <2>2 DEF Steady, JobKeeps, JobTyped
  <2>4. \E n : CallBecomes(r, n) /\ FirstUse(n, binding')
    <3>1. CASE CallBecomes(r, call[r])
      BY <1>1, <1>5, <2>1, <3>1, FirstUseKept
    <3>2. CASE CallBecomes(r, Idle)
      BY <3>2 DEF FirstUse, Idle
    <3>3. ASSUME NEW ch, NEW any, CallBecomes(r, SelectCredential(ch, m.kind = "talk",
                                      m.kind \notin {"chat", "talk"}, m.excluded, any))
          PROVE  \E n : CallBecomes(r, n) /\ FirstUse(n, binding')
      <4> DEFINE n == SelectCredential(ch, m.kind = "talk", m.kind \notin {"chat", "talk"},
                                       m.excluded, any)
      <4>1. n.pc = "version" /\ ~ n.conversation /\ n.nilExcluded /\ n.excluded = {}
        BY <2>3 DEF SelectCredential, Idle
      <4>2. CallBecomes(r, n)
        BY <3>3
      <4> HIDE DEF n
      <4>3. FirstUse(n, binding')
        BY <4>1 DEF FirstUse, BindingStages
      <4> QED BY <4>2, <4>3
    <3> QED BY <2>2, <3>1, <3>2, <3>3 DEF CallStarts
  <2>5. \A s \in Requests : FirstUse(call'[s], binding')
    BY <1>4, <1>5, <2>1, <2>4
  <2> QED BY <1>1, <1>2, <1>3, <2>1, <2>5, BindingsStay DEF SteadyInv
<1>7. ASSUME NEW r \in Requests, Selection(r) PROVE SteadyInv'
  <2>1. UNCHANGED <<status, cooldown, cooling>> /\ (pool' = pool \/ PoolStored(r))
    BY <1>7, SelectionFrame DEF envVars
  <2>2. FirstUseGoesOn(r)
    BY <1>1, <1>7, FirstSelection
  <2>3. \A s \in Requests : FirstUse(call'[s], binding')
    BY <1>4, <2>2 DEF FirstUseGoesOn
  <2>4. ASSUME NEW ch \in Channels, NEW v \in 0..MaxChanges
        PROVE  pool'[ch][v] \in {{}, Enabled(ch)}
    <3>1. CASE PoolStored(r)
      <4>1. call[r].rows = Enabled(call[r].channel)
        BY <1>1, <3>1, FirstUseFacts DEF PoolStored
      <4>2. \/ pool'[ch][v] = pool[ch][v]
            \/ ch = call[r].channel /\ pool'[ch][v] = call[r].rows
        BY <3>1, PoolStoredType
      <4> QED BY <1>2, <4>1, <4>2
    <3> QED BY <1>2, <2>1, <3>1
  <2> QED BY <1>1, <1>3, <2>1, <2>2, <2>3, <2>4 DEF SteadyInv, FirstUseGoesOn
<1>8. CASE Environment
  <2>1. /\ UNCHANGED <<status, cooldown, cooling, binding, bindingCache, call>>
        /\ \A ch \in Channels, v \in 0..MaxChanges : pool'[ch][v] \in {{}, pool[ch][v]}
    BY <1>1, <1>8, SteadyEnvironment DEF Steady
  <2>2. \A s \in Requests : FirstUse(call'[s], binding')
    BY <1>1, <1>5, <2>1, FirstUseKept
  <2>3. \A ch \in Channels, v \in 0..MaxChanges : pool'[ch][v] \in {{}, Enabled(ch)}
    BY <1>2, <2>1
  <2> QED BY <1>1, <1>3, <2>1, <2>2, <2>3, BindingsStay DEF SteadyInv
<1>9. CASE Polling \/ UNCHANGED vars
  <2>1. UNCHANGED <<status, cooldown, cooling, pool, binding, bindingCache, call>>
    BY <1>9, PollingFrame DEF vars, poolVars
  <2>2. \A s \in Requests : FirstUse(call'[s], binding')
    BY <1>1, <1>5, <2>1, FirstUseKept
  <2> QED BY <1>1, <1>2, <1>3, <2>1, <2>2, BindingsStay DEF SteadyInv
<1> QED BY <1>6, <1>7, <1>8, <1>9 DEF Next, SteadyInv

\* Calls that use the API key on a channel for the first time get the same key
\* (FirstUseAgrees), for any number of requests, keys and channels.
THEOREM FirstUsesAgree == Spec => []FirstUseAgrees
<1>1. Init => SteadyInv
  <2> SUFFICES ASSUME PoolInit PROVE SteadyInv
    BY DEF Init
  <2>1. Idle.pc = "idle"
    BY DEF Idle
  <2>2. \A r \in Requests : FirstUse(call[r], binding)
    BY <2>1 DEF PoolInit, FirstUse
  <2> QED BY <2>2 DEF PoolInit, SteadyInv
<1>2. Typed /\ RowInv /\ SteadyInv /\ [Next]_vars => SteadyInv'
  BY SteadyKeeps
<1>3. SteadyInv => FirstUseAgrees
  BY DEF SteadyInv, FirstUse, Steady, FirstUseAgrees
<1> QED BY <1>1, <1>2, <1>3, RequestsSafe, PTL DEF Spec

-----------------------------------------------------------------------------
(* The invariant of video tasks. *)

\* Steps that create no task leave none to store.
LEMMA NothingToStore ==
    ASSUME Typed, RowInv, NEW r \in Requests, Handler(r), ~ CreateVideo(r)
    PROVE  job'[r].pc # "store" /\ UNCHANGED <<creator, poll>>
           /\ (route' = route \/ StoreVideoTaskRoute(r))
<1> DEFINE q == job[r]
<1>1. DOMAIN q = JobFields /\ DOMAIN job = Requests
  BY Unanswered DEF Typed
<1>2. ASSUME NEW n, DOMAIN n = JobFields, NextCandidate(r, n) PROVE job'[r].pc # "store"
  BY <1>1, <1>2 DEF NextCandidate, JobFields
<1>3. ASSUME Refused(r) PROVE job'[r].pc # "store"
  BY <1>1, <1>3 DEF Refused, JobFields
<1>4. ASSUME AcceptRequest(r) PROVE job'[r].pc # "store"
  BY <1>1, <1>4 DEF AcceptRequest, JobFields
<1>5. ASSUME SkipCandidate(r) PROVE job'[r].pc # "store"
  <2> DEFINE reason == IF call[r].pc = "none" THEN UnavailableReason(r) ELSE "failed"
             last == [NoResult EXCEPT !.error = TRUE]
             n == [q EXCEPT !.last = last, !.lastKey = None, !.reason = reason]
  <2>1. NextCandidate(r, n)
    BY <1>5 DEF SkipCandidate
  <2> HIDE DEF reason, last
  <2>2. DOMAIN n = JobFields
    BY <1>1 DEF JobFields
  <2> HIDE DEF n
  <2> QED BY <1>2, <2>1, <2>2
<1>6. ASSUME NEW result, \/ LeaveLoop(r, Attempted(r, result))
                         \/ NextCandidate(r, Attempted(r, result))
      PROVE  job'[r].pc # "store"
  <2> DEFINE n == Attempted(r, result)
  <2>1. DOMAIN n = JobFields
    BY <1>1 DEF Attempted, JobFields
  <2> HIDE DEF n
  <2>2. CASE LeaveLoop(r, n)
    BY <1>1, <2>1, <2>2 DEF LeaveLoop, JobFields
  <2> QED BY <1>2, <1>6, <2>1, <2>2 DEF n
<1>7. ASSUME NEW row, Recorded(r, row) PROVE job'[r].pc # "store"
  BY <1>1, <1>7 DEF Recorded, JobFields
<1>8. ASSUME EndChat(r) \/ StoreVideoTaskRoute(r) PROVE job'[r].pc # "store"
  BY <1>1, <1>8 DEF EndChat, StoreVideoTaskRoute, JobFields
<1>9. ASSUME AttemptChat(r) PROVE job'[r].pc # "store"
  BY <1>1, <1>9 DEF AttemptChat, JobFields
<1>10. job'[r].pc # "store"
  BY <1>3, <1>4, <1>5, <1>6, <1>7, <1>8, <1>9
     DEF Handler, RejectAudio, RejectImagesEdit, RejectVideo, AttemptAudio, AttemptImagesEdit,
         RecordAudioUsage, RecordImagesEdit
<1>11. UNCHANGED <<creator, poll>> /\ (route' = route \/ StoreVideoTaskRoute(r))
  BY DEF Handler, RejectAudio, RejectImagesEdit, RejectVideo, Refused, AcceptRequest,
         SkipCandidate, AttemptAudio, AttemptImagesEdit, RecordAudioUsage, RecordImagesEdit,
         Recorded, AttemptChat, EndChat, StoreVideoTaskRoute
<1> QED BY <1>10, <1>11

\* What was known of tasks holds on while what was made stays made.
LEMMA TasksKept ==
    ASSUME TaskInv, UNCHANGED candidates, \A t \in Tasks : creator[t] \subseteq creator'[t]
    PROVE  /\ \A r \in Requests : job'[r] = job[r] => Pending(r)'
           /\ \A t \in Tasks : \A x : LeadsTo(x, t) => LeadsTo(x, t)'
           /\ \A t \in Tasks : route'[t] = route[t] /\ route[t] # None
                                => LeadsTo(route[t], t)'
           /\ poll' = poll => PollSafe'
<1>1. \A t \in Tasks : \A x : LeadsTo(x, t) => LeadsTo(x, t)'
  BY DEF LeadsTo, Made, Account
<1>2. ASSUME NEW r \in Requests, job'[r] = job[r] PROVE Pending(r)'
  <2>1. Pending(r)
    BY DEF TaskInv
  <2> QED BY <1>2, <2>1 DEF Pending, Made, Account
<1>3. ASSUME NEW t \in Tasks, route'[t] = route[t], route[t] # None PROVE LeadsTo(route[t], t)'
  <2>1. LeadsTo(route[t], t)
    BY <1>3 DEF TaskInv
  <2> QED BY <1>3, <2>1 DEF LeadsTo, Made, Account
<1>4. ASSUME poll' = poll PROVE PollSafe'
  <2>1. PollSafe
    BY DEF TaskInv
  <2>2. poll.pc # "idle" => LeadsTo(poll.route, poll.task)'
    BY <1>4, <2>1 DEF PollSafe, LeadsTo, Made, Account
  <2> QED BY <1>4, <2>1, <2>2 DEF PollSafe, Account
<1> QED BY <1>1, <1>2, <1>3, <1>4

\* The upstream names a task; the request stores it, or does not learn of it.
LEMMA CreateVideoKeeps ==
    ASSUME Typed, RowInv, TaskInv, NEW r \in Requests, CreateVideo(r)
    PROVE  TaskInv'
<1> DEFINE q == job[r]
           ch == candidates[q.index]
           here == [by |-> r, account |-> Account(ch, Key(r))]
           last == [NoResult EXCEPT !.error = TRUE]
           failed == [q EXCEPT !.last = last, !.lastKey = Key(r)]
<1>1. /\ DOMAIN q = JobFields /\ DOMAIN job = Requests /\ q.index \in 1..Len(candidates)
      /\ DOMAIN creator = Tasks
  BY Unanswered DEF Typed, TaskInv
<1>2. ch \in Channels
  BY <1>1 DEF Typed
<1>3. UNCHANGED <<candidates, route, poll>>
  BY DEF CreateVideo
<1>4. DOMAIN failed = JobFields
  <2> HIDE DEF last
  <2> QED BY <1>1 DEF JobFields
<1>5. ASSUME NextCandidate(r, failed)
      PROVE  job'[r].pc # "store" /\ \A s \in Requests \ {r} : job'[s] = job[s]
  <2> HIDE DEF failed
  <2> QED BY <1>1, <1>4, <1>5 DEF NextCandidate, JobFields
<1>6. CASE job'[r].pc # "store" /\ (\A s \in Requests \ {r} : job'[s] = job[s])
           /\ \/ UNCHANGED creator
              \/ \E t \in Tasks : creator' = [creator EXCEPT ![t] = @ \cup {here}]
  <2>1. DOMAIN creator' = Tasks /\ \A t \in Tasks : creator[t] \subseteq creator'[t]
    <3> HIDE DEF here
    <3> QED BY <1>1, <1>6
  <2>2. /\ \A s \in Requests \ {r} : Pending(s)'
        /\ \A t \in Tasks : route[t] # None => LeadsTo(route[t], t)'
        /\ PollSafe'
    BY <1>3, <1>6, <2>1, TasksKept
  <2>3. Pending(r)'
    BY <1>6 DEF Pending
  <2> QED BY <1>3, <2>1, <2>2, <2>3 DEF TaskInv
<1>7. ASSUME NEW t \in Tasks, creator' = [creator EXCEPT ![t] = @ \cup {here}],
             job' = [job EXCEPT ![r].pc = "store", ![r].key = Key(r), ![r].answeredBy = t]
      PROVE  TaskInv'
  <2>1. /\ DOMAIN creator' = Tasks /\ here \in creator'[t]
        /\ \A u \in Tasks : creator[u] \subseteq creator'[u]
    <3> HIDE DEF here
    <3> QED BY <1>1, <1>7
  <2>2. \A s \in Requests \ {r} : job'[s] = job[s]
    BY <1>1, <1>7
  <2>3. job'[r].answeredBy = t /\ job'[r].index = q.index /\ job'[r].key = Key(r)
    BY <1>1, <1>7 DEF JobFields
  <2>4. Pending(r)'
    BY <1>2, <1>3, <2>1, <2>3 DEF Pending, Made, Account
  <2>5. /\ \A s \in Requests \ {r} : Pending(s)'
        /\ \A u \in Tasks : route[u] # None => LeadsTo(route[u], u)'
        /\ PollSafe'
    BY <1>3, <2>1, <2>2, TasksKept
  <2> QED BY <1>3, <2>1, <2>4, <2>5 DEF TaskInv
<1>8. \/ NextCandidate(r, failed) /\ UNCHANGED creator
      \/ \E t \in Tasks :
            /\ creator' = [creator EXCEPT ![t] = @ \cup {here}]
            /\ \/ NextCandidate(r, failed)
               \/ job' = [job EXCEPT ![r].pc = "store", ![r].key = Key(r), ![r].answeredBy = t]
               \/ job' = [job EXCEPT ![r].pc = "end"]
  BY DEF CreateVideo
<1>9. ASSUME job' = [job EXCEPT ![r].pc = "end"]
      PROVE  job'[r].pc # "store" /\ \A s \in Requests \ {r} : job'[s] = job[s]
  BY <1>1, <1>9 DEF JobFields
<1> HIDE DEF here, failed
<1> QED BY <1>5, <1>6, <1>7, <1>8, <1>9

LEMMA HandlersKeepTasks ==
    ASSUME Typed, RowInv, TaskInv, NEW r \in Requests, Handler(r)
    PROVE  TaskInv'
<1>1. CASE ~ CreateVideo(r)
  <2>1. /\ job'[r].pc # "store" /\ UNCHANGED <<creator, poll, candidates>>
        /\ (route' = route \/ StoreVideoTaskRoute(r))
    BY <1>1, NothingToStore, HandlerFrame
  <2>2. \A s \in Requests \ {r} : job'[s] = job[s]
    BY HandlerStep DEF HandlerAdvances, JobBecomes
  <2>3. DOMAIN creator' = Tasks /\ DOMAIN poll' = PollFields
    BY <2>1 DEF TaskInv
  <2>4. /\ \A s \in Requests \ {r} : Pending(s)'
        /\ \A t \in Tasks : route'[t] = route[t] /\ route[t] # None => LeadsTo(route[t], t)'
        /\ PollSafe'
    BY <2>1, <2>2, <2>3, TasksKept
  <2>5. Pending(r)'
    BY <2>1 DEF Pending
  <2>6. CASE route' = route
    BY <2>3, <2>4, <2>5, <2>6 DEF TaskInv
  <2>7. CASE route' # route
    <3> PICK t : t = job[r].answeredBy
      OBVIOUS
    <3> DEFINE x == [by |-> r, mode |-> job[r].mode, channel |-> candidates[job[r].index],
                     key |-> job[r].key, url |-> "none"]
    <3>1. job[r].pc = "store" /\ route' = [route EXCEPT ![t] = x]
      BY <2>1, <2>7 DEF StoreVideoTaskRoute
    <3>2. Pending(r) /\ DOMAIN route = Tasks
      BY DEF TaskInv
    <3>3. /\ t \in Tasks /\ x.channel \in Channels /\ Made(x.by, x.channel, x.key, t)
          /\ DOMAIN x = RouteFields /\ x.url = "none"
      BY <3>1, <3>2 DEF Pending, RouteFields
    <3> HIDE DEF x
    <3>4. /\ DOMAIN route' = Tasks /\ route'[t] = x
          /\ \A u \in Tasks \ {t} : route'[u] = route[u]
      BY <3>1, <3>2, <3>3
    <3>5. LeadsTo(route[t], t)'
      BY <2>1, <3>3, <3>4 DEF LeadsTo, Made, Account
    <3>6. \A u \in Tasks : route'[u] # None => LeadsTo(route[u], u)'
      BY <2>4, <3>4, <3>5
    <3> QED BY <2>3, <2>4, <2>5, <3>4, <3>6 DEF TaskInv
  <2> QED BY <2>6, <2>7
<1> QED BY <1>1, CreateVideoKeeps

\* A later call works with the route it loaded, and writes it back at most with
\* another address.
LEMMA PollingKeeps ==
    ASSUME TaskInv, Polling
    PROVE  TaskInv'
<1> DEFINE account == Account(poll.route.channel, poll.route.key)
<1>1. UNCHANGED <<candidates, job, creator>>
  BY DEF Polling, LoadVideoTaskRoute, QueryTaskOnUpstream, KeepResourceURL, DownloadAdapterVideo,
         EndPoll, RouteExpires
<1>2. /\ DOMAIN creator = Tasks /\ DOMAIN route = Tasks /\ DOMAIN poll = PollFields /\ PollSafe
      /\ \A t \in Tasks : route[t] # None => LeadsTo(route[t], t)
  BY DEF TaskInv
<1>3. (\A r \in Requests : Pending(r))'
  BY <1>1 DEF TaskInv, Pending, Made, Account
<1>4. \A t \in Tasks : \A x : LeadsTo(x, t)' <=> LeadsTo(x, t)
  BY <1>1 DEF LeadsTo, Made, Account
<1>5. ASSUME UNCHANGED route, DOMAIN poll' = PollFields, PollSafe' PROVE TaskInv'
  <2>1. (\A t \in Tasks : route[t] # None => LeadsTo(route[t], t))'
    BY <1>1, <1>2, <1>5 DEF LeadsTo, Made, Account
  <2> QED BY <1>1, <1>2, <1>3, <1>5, <2>1 DEF TaskInv
<1>6. CASE \E r \in Requests, t \in Tasks, content \in BOOLEAN : LoadVideoTaskRoute(r, t, content)
  <2>1. PICK r \in Requests, t \in Tasks, content \in BOOLEAN : LoadVideoTaskRoute(r, t, content)
    BY <1>6
  <2> DEFINE p == IF content THEN "content" ELSE "query"
  <2>2. /\ poll' = [pc |-> p, task |-> t, by |-> r, route |-> route[t], used |-> None]
        /\ UNCHANGED route /\ LeadsTo(route[t], t) /\ route[t].by = r
    BY <1>2, <2>1 DEF LoadVideoTaskRoute
  <2>3. p \in {"content", "query"}
    OBVIOUS
  <2> HIDE DEF p
  <2>4. /\ DOMAIN poll' = PollFields /\ poll'.pc = p /\ poll'.task = t /\ poll'.route = route[t]
        /\ poll'.by = r
    BY <2>2 DEF PollFields
  <2>5. PollSafe'
    BY <1>4, <2>2, <2>3, <2>4 DEF PollSafe
  <2> QED BY <1>5, <2>2, <2>4, <2>5
<1>7. ASSUME poll.pc \in {"query", "content"}, UNCHANGED route,
             NEW p \in {"answered", "keep"}, NEW x, LeadsTo(x, poll.task),
             x.by = poll.route.by, x.channel = poll.route.channel, x.key = poll.route.key,
             poll' = [poll EXCEPT !.used = account, !.pc = p, !.route = x]
      PROVE  TaskInv'
  <2>1. account = Account(x.channel, x.key) /\ poll.task \in Tasks /\ x.by = poll.by
    BY <1>2, <1>7 DEF PollSafe
  <2> HIDE DEF account
  <2>2. /\ DOMAIN poll' = PollFields /\ poll'.pc = p /\ poll'.task = poll.task
        /\ poll'.route = x /\ poll'.used = account /\ poll'.by = poll.by
    BY <1>2, <1>7 DEF PollFields
  <2>3. PollSafe'
    BY <1>4, <1>7, <2>1, <2>2 DEF PollSafe, Account
  <2> QED BY <1>5, <1>7, <2>2, <2>3
<1>8. CASE QueryTaskOnUpstream
  <2>1. poll.pc = "query" /\ UNCHANGED route /\ LeadsTo(poll.route, poll.task)
    BY <1>2, <1>8 DEF QueryTaskOnUpstream, PollSafe
  <2>2. CASE poll' = [Query EXCEPT !.pc = "answered"]
    <3>1. poll' = [poll EXCEPT !.used = account, !.pc = "answered", !.route = poll.route]
      <4> HIDE DEF account
      <4> QED BY <1>2, <2>2 DEF Query, PollFields, account
    <3> QED BY <1>7, <2>1, <3>1
  <2>3. ASSUME NEW origin \in {"own", "other"},
               poll' = [Query EXCEPT !.pc = "keep", !.route.url = origin]
        PROVE  TaskInv'
    <3> DEFINE x == [poll.route EXCEPT !.url = origin]
    <3>1. /\ LeadsTo(x, poll.task) /\ x.by = poll.route.by
          /\ x.channel = poll.route.channel /\ x.key = poll.route.key
      BY <2>1 DEF LeadsTo, RouteFields
    <3>2. poll' = [poll EXCEPT !.used = account, !.pc = "keep", !.route = x]
      <4> HIDE DEF account
      <4> QED BY <1>2, <2>3 DEF Query, PollFields, account
    <3> HIDE DEF x
    <3> QED BY <1>7, <2>1, <3>1, <3>2
  <2> QED BY <1>8, <2>2, <2>3 DEF QueryTaskOnUpstream
<1>9. CASE DownloadAdapterVideo
  <2>1. poll.pc = "content" /\ UNCHANGED route /\ LeadsTo(poll.route, poll.task)
    BY <1>2, <1>9 DEF DownloadAdapterVideo, PollSafe
  <2>2. CASE poll' = [Query EXCEPT !.pc = "answered"]
    <3>1. poll' = [poll EXCEPT !.used = account, !.pc = "answered", !.route = poll.route]
      <4> HIDE DEF account
      <4> QED BY <1>2, <2>2 DEF Query, PollFields, account
    <3> QED BY <1>7, <2>1, <3>1
  <2>3. CASE poll' = [poll EXCEPT !.pc = "fetched", !.used = Account(poll.route.channel, None)]
    <3> DEFINE bare == Account(poll.route.channel, None)
    <3>1. /\ DOMAIN poll' = PollFields /\ poll'.pc = "fetched" /\ poll'.task = poll.task
          /\ poll'.route = poll.route /\ poll'.used = bare /\ poll'.by = poll.by
      <4> HIDE DEF bare
      <4>1. poll' = [poll EXCEPT !.pc = "fetched", !.used = bare]
        BY <2>3 DEF bare
      <4> QED BY <1>2, <4>1 DEF PollFields
    <3>2. PollSafe'
      BY <1>2, <1>4, <2>1, <3>1 DEF PollSafe, Account
    <3> QED BY <1>5, <2>1, <3>1, <3>2
  <2>4. \/ poll' = [Query EXCEPT !.pc = "answered"]
        \/ poll' = [poll EXCEPT !.pc = "fetched", !.used = Account(poll.route.channel, None)]
    <3> DEFINE origins == IF VideoAdapter[poll.route.channel] = "openai" THEN {"own"}
                          ELSE IF poll.route.url # "none" THEN {poll.route.url}
                          ELSE {"none", "own", "other"}
               bare == Account(poll.route.channel, None)
    <3>1. \A origin \in origins : origin \in {"none", "own", "other"}
      BY <2>1 DEF LeadsTo
    <3>2. PICK origin \in origins :
             poll' = CASE origin = "own"   -> [Query EXCEPT !.pc = "answered"]
                       [] origin = "other" -> [poll EXCEPT !.pc = "fetched", !.used = bare]
                       [] origin = "none"  -> [Query EXCEPT !.pc = "answered"]
      BY <1>9 DEF DownloadAdapterVideo
    <3>3. origin \in {"none", "own", "other"}
      BY <3>1
    <3> HIDE DEF origins, bare
    <3>4. \/ poll' = [Query EXCEPT !.pc = "answered"]
          \/ poll' = [poll EXCEPT !.pc = "fetched", !.used = bare]
      BY <3>2, <3>3
    <3> QED BY <3>4 DEF bare
  <2> QED BY <2>2, <2>3, <2>4
<1>10. CASE KeepResourceURL
  <2>1. /\ poll.pc = "keep" /\ poll' = [poll EXCEPT !.pc = "answered"]
        /\ route' = route \/ route' = [route EXCEPT ![poll.task] = poll.route]
    BY <1>10 DEF KeepResourceURL
  <2>2. /\ DOMAIN poll' = PollFields /\ poll'.pc = "answered" /\ poll'.task = poll.task
        /\ poll'.route = poll.route /\ poll'.used = poll.used /\ poll'.by = poll.by
    BY <1>2, <2>1 DEF PollFields
  <2>3. PollSafe'
    BY <1>2, <1>4, <2>1, <2>2 DEF PollSafe, Account
  <2>4. DOMAIN route' = Tasks /\ \A t \in Tasks : route'[t] # None => LeadsTo(route'[t], t)
    BY <1>2, <2>1 DEF PollSafe
  <2>5. (\A t \in Tasks : route[t] # None => LeadsTo(route[t], t))'
    BY <1>1, <2>4 DEF LeadsTo, Made, Account
  <2> QED BY <1>1, <1>2, <1>3, <2>2, <2>3, <2>4, <2>5 DEF TaskInv
<1>11. CASE EndPoll
  <2>1. poll' = NoPoll /\ UNCHANGED route
    BY <1>11 DEF EndPoll
  <2>2. DOMAIN poll' = PollFields /\ PollSafe'
    BY <2>1 DEF NoPoll, PollFields, PollSafe
  <2> QED BY <1>5, <2>1, <2>2
<1>12. ASSUME NEW t \in Tasks, RouteExpires(t) PROVE TaskInv'
  <2>1. UNCHANGED poll /\ route' = [route EXCEPT ![t] = None]
    BY <1>12 DEF RouteExpires
  <2>2. PollSafe'
    BY <1>2, <1>4, <2>1 DEF PollSafe, Account
  <2>3. DOMAIN route' = Tasks /\ \A u \in Tasks : route'[u] # None => LeadsTo(route'[u], u)
    BY <1>2, <2>1
  <2>4. (\A u \in Tasks : route[u] # None => LeadsTo(route[u], u))'
    BY <1>1, <2>3 DEF LeadsTo, Made, Account
  <2> QED BY <1>1, <1>2, <1>3, <2>1, <2>2, <2>3, <2>4 DEF TaskInv
<1> QED BY <1>6, <1>8, <1>9, <1>10, <1>11, <1>12 DEF Polling

\* A call about a video goes to an account at which its caller had the task made,
\* and an address of another origin gets no key of the pool
\* (TaskReachesItsAccount), for any number of tasks and channels.
THEOREM TasksReachTheirAccounts == Spec => []TaskReachesItsAccount
<1>1. Init => TaskInv
  <2> SUFFICES ASSUME Init PROVE TaskInv
    OBVIOUS
  <2>1. \A r \in Requests : job[r].pc # "store"
    <3>1. \A r \in Requests : job[r].pc \in {"start", "end"}
      <4>1. PICK m \in Mixes, mode \in {"legacy", "openai"} :
               job = [r \in Requests |->
                  [kind |-> m.kind[r], mode |-> mode,
                   pc |-> IF m.kind[r] = "idle" THEN "end" ELSE "start", index |-> 1,
                   key |-> None, excluded |-> {}, attempts |-> 0, reason |-> "",
                   last |-> NoResult, lastKey |-> None, answeredBy |-> None, row |-> NoRow]]
        BY DEF Init
      <4> QED BY <4>1
    <3> QED BY <3>1
  <2>2. PollSafe /\ DOMAIN poll = PollFields
    BY DEF Init, NoPoll, PollSafe, PollFields
  <2> QED BY <2>1, <2>2 DEF Init, TaskInv, Pending
<1>2. Typed /\ RowInv /\ TaskInv /\ [Next]_vars => TaskInv'
  <2> SUFFICES ASSUME Typed, RowInv, TaskInv, [Next]_vars PROVE TaskInv'
    OBVIOUS
  <2>1. CASE UNCHANGED mediaVars
    BY <2>1 DEF mediaVars, TaskInv, Pending, PollSafe, LeadsTo, Made, Account
  <2> QED BY <2>1, HandlersKeepTasks, PollingKeeps DEF Next, vars
<1>3. TaskInv => TaskReachesItsAccount
  <2> SUFFICES ASSUME TaskInv PROVE TaskReachesItsAccount
    OBVIOUS
  <2>1. ASSUME poll.pc \in {"answered", "keep"}
        PROVE  [by |-> poll.by, account |-> poll.used] \in creator[poll.task]
    BY <2>1 DEF TaskInv, PollSafe, LeadsTo, Made
  <2>2. ASSUME poll.pc = "fetched" PROVE poll.used.key \notin Creds
    BY <2>2, MediaAssumption DEF TaskInv, PollSafe, LeadsTo, Account
  <2> QED BY <2>1, <2>2 DEF TaskReachesItsAccount
<1> QED BY <1>1, <1>2, <1>3, RequestsSafe, PTL DEF Spec
=============================================================================
