---------------------------- MODULE RelayRouting ----------------------------
(***************************************************************************)
(* Which channels a relayed request may use, and in which order.           *)
(*                                                                         *)
(* The static part of a route (enabled model mappings of active channels   *)
(* with a key) is resolved from the database and cached in Redis under a   *)
(* version number that every administrative write increments after its     *)
(* commit.  Closing windows, group policy, the key's model list and the    *)
(* weighted shuffle are applied to the cached value for each request, and  *)
(* a conversation remembers the order its first request was given.         *)
(*                                                                         *)
(* The database is a sequence of revisions of the configuration; a cache   *)
(* entry carries the revision it was resolved from.                        *)
(***************************************************************************)
EXTENDS Integers, FiniteSets, Sequences, SequencesExt

CONSTANTS
    RoutedRequests, \* relay requests of one model and one API key
    Channels,       \* upstream channels that map the model
    Groups,         \* channel groups
    Rank,           \* Channels -> Int: channels.priority
    Owner,          \* Channels -> the user who created the channel
    KeyUser,        \* the user of the API key
    KeyGroups,      \* the groups that user belongs to
    Model,          \* the model name the requests ask for
    AllowedModels,  \* the model list of the API key, {} = all
    PublicName,     \* Channels -> the public name of its mapping
    Talk,           \* RoutedRequests -> what identifies the conversation
    Window,         \* Channels -> set of closing windows of the model
    DayLength,      \* minutes of a day
    Writes,         \* pairs of a channel and the row an administrator may give it
    MaxTime,        \* bound: minutes the model runs for
    MaxRevision,    \* bound: administrative writes
    MaxFaults       \* bound: Redis operations that fail

Rows == [on : BOOLEAN, keys : BOOLEAN, groups : SUBSET Groups]
NoRoute == [revision |-> 0, creators |-> FALSE, groups |-> << >>]
NoChannel == << >>

ASSUME RoutingConstants ==
    /\ IsFiniteSet(Channels) /\ Rank \in [Channels -> Int]
    /\ KeyGroups \subseteq Groups /\ Writes \subseteq Channels \X Rows
    /\ DayLength \in Nat \ {0} /\ MaxTime \in Nat /\ MaxRevision \in Nat /\ MaxFaults \in Nat

VARIABLES
    config,     \* the committed channel rows: [on, keys, groups] of each channel
    revision,   \* how many writes have committed
    owed,       \* committed writes that have yet to increment the version
    version,    \* aiferry:routes:version
    announced,  \* version -> the newest revision committed when it was reached
    cache,      \* version -> cached static route, or NoRoute
    now,        \* minutes since Monday 00:00 in the window's time zone
    pinned,     \* conversation -> its remembered channel order
    pc,         \* where each request stands
    seen,       \* the version it read
    route,      \* the static route it uses
    order,      \* its ordered candidates
    since,      \* the revision announced when it read the version
    faults

routingVars == <<config, revision, owed, version, announced, cache, now, pinned,
                 pc, seen, route, order, since, faults>>

-----------------------------------------------------------------------------
(* Closing windows.                                                         *)

\* ISO weekday and minute of the day of an instant.
Weekday(t) == ((t \div DayLength) % 7) + 1
Minute(t) == t % DayLength

\* [start, end) of a day; equal ends mean the whole day, start > end wraps.
MatchesClock(minute, start, end) ==
    CASE start = end -> TRUE
      [] start < end -> start <= minute /\ minute < end
      [] OTHER       -> start <= minute \/ minute < end

CoversClock(ranges, t) == \E r \in ranges : MatchesClock(Minute(t), r[1], r[2])

ValidWindow(w) ==
    /\ w.weekdays \subseteq 1 .. 7
    /\ \A r \in w.ranges : r[1] \in 0 .. DayLength - 1 /\ r[2] \in 0 .. DayLength - 1

\* No time restriction at all: such a window is cleared instead of stored.
IsZero(w) == w.ranges = {} /\ (w.weekdays = {} \/ Cardinality(w.weekdays) = 7)

\* What NormalizeWindows stores: the valid list without the empty windows.
NormalizeWindows(ws) == {w \in ws : ~ IsZero(w)}

WindowContains(w, t) ==
    /\ w.ranges # {}
    /\ w.weekdays = {} \/ Weekday(t) \in w.weekdays
    /\ CoversClock(w.ranges, t)

\* The condition reading of the same structure, used by the price rules.
Allows(w, t) ==
    \/ IsZero(w)
    \/ /\ w.weekdays = {} \/ Weekday(t) \in w.weekdays
       /\ w.ranges = {} \/ CoversClock(w.ranges, t)

\* A list that does not parse closes nothing.
CandidateClosedAt(c, t) ==
    /\ \A w \in Window[c] : ValidWindow(w)
    /\ \E w \in NormalizeWindows(Window[c]) : WindowContains(w, t)

-----------------------------------------------------------------------------
(* Static resolution, policies and order.                                   *)

ActiveRouteChannels == {c \in Channels : config[c].on}
HasAvailableCredential(c) == config[c].keys
ChannelGroupIDs(c) == config[c].groups

\* routeStatic: with the groups of each candidate as they were read.
RouteStatic ==
    LET live == {c \in ActiveRouteChannels : HasAvailableCredential(c)}
    IN  [revision |-> revision, creators |-> TRUE,
         groups |-> [c \in live |-> ChannelGroupIDs(c)]]

FilterClosedCandidates(S, t) == {c \in S : ~ CandidateClosedAt(c, t)}

KeyAllowsGroupPolicy(c, groupIDs) ==
    \/ Owner[c] = KeyUser
    \/ groupIDs \cap KeyGroups # {}

FilterCandidates(entry, t) ==
    {c \in FilterClosedCandidates(DOMAIN entry.groups, t) :
        KeyAllowsGroupPolicy(c, entry.groups[c])}

\* Every weight is at least 1, so within one priority every order can be drawn.
CandidateWeight(weight, score, threshold) ==
    LET base == IF weight < 1 THEN 1 ELSE weight
        scaled == (base * (IF score < 0 THEN 0 ELSE score)) \div threshold
    IN  IF score >= threshold THEN base ELSE IF scaled = 0 THEN 1 ELSE scaled

WeightedOrders(S) ==
    {s \in SetToSeqs(S) : \A i, j \in DOMAIN s : i < j => Rank[s[i]] >= Rank[s[j]]}

\* Remembered channels first, the others keep their order behind them.
ApplyConversationChannelAffinity(s, pin) ==
    SelectSeq(pin, LAMBDA c : c \in Range(s)) \o SelectSeq(s, LAMBDA c : c \notin Range(pin))

\* The key's model list names public names; asking for a listed name lifts it.
FilterCandidatesByAllowedModels(S) ==
    IF AllowedModels = {} \/ Model \in AllowedModels THEN S
    ELSE {c \in S : PublicName[c] \in AllowedModels}

\* The client's session header, else the user of the metadata, else the first
\* user message of this key; a request without any is in no conversation.
ConversationKey(r) ==
    CASE Talk[r].session # "" -> <<"session", Talk[r].session>>
      [] Talk[r].user # ""    -> <<"metadata", Talk[r].user>>
      [] Talk[r].first # ""   -> <<"first", Talk[r].first>>
      [] OTHER                -> << >>

-----------------------------------------------------------------------------

Legacy == [revision |-> 0, creators |-> FALSE, groups |-> [c \in Channels |-> {}]]

StartRouting ==
    /\ config = [c \in Channels |-> [on |-> TRUE, keys |-> TRUE, groups |-> Groups]]
    /\ revision = 0 /\ owed = 0 /\ version = 0
    /\ announced = [v \in 0 .. MaxRevision |-> 0]
    /\ cache \in [0 .. MaxRevision -> {NoRoute}]
                 \cup {[v \in 0 .. MaxRevision |-> IF v = 0 THEN Legacy ELSE NoRoute]}
    /\ now = 0 /\ pinned = [k \in {ConversationKey(r) : r \in RoutedRequests} |-> NoChannel] /\ faults = 0
    /\ pc = [r \in RoutedRequests |-> "start"]
    /\ seen = [r \in RoutedRequests |-> 0]
    /\ route = [r \in RoutedRequests |-> NoRoute]
    /\ order = [r \in RoutedRequests |-> << >>]
    /\ since = [r \in RoutedRequests |-> 0]

Unread == UNCHANGED <<pc, seen, route, order, since>>

\* An administrative write commits: a channel, its keys or its groups change.
Commit(c, row) ==
    /\ revision < MaxRevision /\ row # config[c]
    /\ config' = [config EXCEPT ![c] = row]
    /\ revision' = revision + 1
    /\ owed' = owed + 1
    /\ UNCHANGED <<version, announced, cache, now, pinned, faults>> /\ Unread

\* Only then the version is incremented.
InvalidateRoutes ==
    /\ owed > 0
    /\ owed' = owed - 1
    /\ version' = version + 1
    /\ announced' = [announced EXCEPT ![version + 1] = revision]
    /\ UNCHANGED <<config, revision, cache, now, pinned, faults>> /\ Unread

\* The increment fails: a group write ignores the error, the others report it.
InvalidateRoutesFails ==
    /\ owed > 0 /\ faults < MaxFaults
    /\ owed' = owed - 1
    /\ faults' = faults + 1
    /\ UNCHANGED <<config, revision, version, announced, cache, now, pinned>> /\ Unread

Tick ==
    /\ now < MaxTime
    /\ now' = now + 1
    /\ UNCHANGED <<config, revision, owed, version, announced, cache, pinned, faults>> /\ Unread

\* TTLs: a route entry or the memory of the conversation expires.
CacheExpires(v) ==
    /\ cache[v] # NoRoute
    /\ cache' = [cache EXCEPT ![v] = NoRoute]
    /\ UNCHANGED <<config, revision, owed, version, announced, now, pinned, faults>> /\ Unread

PinExpires(k) ==
    /\ pinned[k] # NoChannel
    /\ pinned' = [pinned EXCEPT ![k] = NoChannel]
    /\ UNCHANGED <<config, revision, owed, version, announced, cache, now, faults>> /\ Unread

\* Bug: the version before the last increment is used.
MutReadVersion(r) ==
    /\ pc[r] = "start"
    /\ seen' = [seen EXCEPT ![r] = IF version > 0 THEN version - 1 ELSE 0]
    /\ since' = [since EXCEPT ![r] = announced[version]]
    /\ pc' = [pc EXCEPT ![r] = "lookup"]
    /\ UNCHANGED <<config, revision, owed, version, announced, cache, now, pinned, route, order, faults>>

\* routeCached reads the version.
ReadVersion(r) ==
    /\ pc[r] = "start"
    /\ seen' = [seen EXCEPT ![r] = version]
    /\ since' = [since EXCEPT ![r] = announced[version]]
    /\ pc' = [pc EXCEPT ![r] = "lookup"]
    /\ UNCHANGED <<config, revision, owed, version, announced, cache, now, pinned, route, order, faults>>

\* A Redis error reads as version 0, whose entry may be of any age.
ReadVersionFails(r) ==
    /\ pc[r] = "start" /\ faults < MaxFaults
    /\ seen' = [seen EXCEPT ![r] = 0]
    /\ since' = [since EXCEPT ![r] = 0]
    /\ faults' = faults + 1
    /\ pc' = [pc EXCEPT ![r] = "lookup"]
    /\ UNCHANGED <<config, revision, owed, version, announced, cache, now, pinned, route, order>>

\* Entries written before candidates carried their creator are not used.
RouteCacheCarriesCreator(entry) == entry.creators

ReadRouteCache(r) ==
    LET entry == cache[seen[r]]
        hit == entry # NoRoute /\ RouteCacheCarriesCreator(entry)
    IN  /\ pc[r] = "lookup"
        /\ pc' = [pc EXCEPT ![r] = IF hit THEN "filter" ELSE "resolve"]
        /\ route' = [route EXCEPT ![r] = IF hit THEN entry ELSE NoRoute]
        /\ UNCHANGED <<config, revision, owed, version, announced, cache, now, pinned, seen, order, since, faults>>

Resolve(r) ==
    /\ pc[r] = "resolve"
    /\ route' = [route EXCEPT ![r] = RouteStatic]
    /\ pc' = [pc EXCEPT ![r] = "store"]
    /\ UNCHANGED <<config, revision, owed, version, announced, cache, now, pinned, seen, order, since, faults>>

\* Bug: the version is read again when the route is stored.
MutWriteRouteCache(r) ==
    /\ pc[r] = "store"
    /\ cache' = IF DOMAIN route[r].groups = {} THEN cache
                ELSE [cache EXCEPT ![version] = route[r]]
    /\ pc' = [pc EXCEPT ![r] = "filter"]
    /\ UNCHANGED <<config, revision, owed, version, announced, now, pinned, seen, route, order, since, faults>>

\* The version is the one read at the start; an empty route is not cached.
WriteRouteCache(r) ==
    /\ pc[r] = "store"
    /\ cache' = IF DOMAIN route[r].groups = {} THEN cache
                ELSE [cache EXCEPT ![seen[r]] = route[r]]
    /\ pc' = [pc EXCEPT ![r] = "filter"]
    /\ UNCHANGED <<config, revision, owed, version, announced, now, pinned, seen, route, order, since, faults>>

WriteRouteCacheFails(r) ==
    /\ pc[r] = "store" /\ faults < MaxFaults
    /\ faults' = faults + 1
    /\ pc' = [pc EXCEPT ![r] = "filter"]
    /\ UNCHANGED <<config, revision, owed, version, announced, cache, now, pinned, seen, route, order, since>>

\* routeWithPolicy: filters and shuffle; with no candidate the request is refused.
RouteWithPolicy(r) ==
    /\ pc[r] = "filter"
    /\ \E s \in WeightedOrders(FilterCandidatesByAllowedModels(FilterCandidates(route[r], now))) :
        /\ order' = [order EXCEPT ![r] = s]
        /\ pc' = [pc EXCEPT ![r] = CASE s = << >> -> "refused"
                                     [] ConversationKey(r) = << >> -> "routed"
                                     [] OTHER -> "affinity"]
    /\ UNCHANGED <<config, revision, owed, version, announced, cache, now, pinned, seen, route, since, faults>>

\* A remembered order is applied, otherwise this request's order is remembered.
ReadConversationChannelAffinity(r) ==
    /\ pc[r] = "affinity"
    /\ IF pinned[ConversationKey(r)] = NoChannel
       THEN pc' = [pc EXCEPT ![r] = "pin"] /\ UNCHANGED order
       ELSE /\ order' = [order EXCEPT ![r] = ApplyConversationChannelAffinity(@, pinned[ConversationKey(r)])]
            /\ pc' = [pc EXCEPT ![r] = "routed"]
    /\ UNCHANGED <<config, revision, owed, version, announced, cache, now, pinned, seen, route, since, faults>>

WriteConversationChannelAffinity(r) ==
    /\ pc[r] = "pin"
    /\ pinned' = [pinned EXCEPT ![ConversationKey(r)] = order[r]]
    /\ pc' = [pc EXCEPT ![r] = "routed"]
    /\ UNCHANGED <<config, revision, owed, version, announced, cache, now, seen, route, order, since, faults>>

\* The next request of the conversation.
NextRequest(r) ==
    /\ pc[r] \in {"routed", "refused"}
    /\ pc' = [pc EXCEPT ![r] = "start"]
    /\ route' = [route EXCEPT ![r] = NoRoute]
    /\ order' = [order EXCEPT ![r] = << >>]
    /\ seen' = [seen EXCEPT ![r] = 0]
    /\ since' = [since EXCEPT ![r] = 0]
    /\ UNCHANGED <<config, revision, owed, version, announced, cache, now, pinned, faults>>

RoutingStep ==
    \/ \E w \in Writes : Commit(w[1], w[2])
    \/ InvalidateRoutes \/ InvalidateRoutesFails \/ Tick
    \/ \E k \in DOMAIN pinned : PinExpires(k)
    \/ \E v \in DOMAIN cache : CacheExpires(v)
    \/ \E r \in RoutedRequests :
        \/ ReadVersion(r) \/ ReadVersionFails(r) \/ ReadRouteCache(r) \/ Resolve(r)
        \/ WriteRouteCache(r) \/ WriteRouteCacheFails(r) \/ RouteWithPolicy(r)
        \/ ReadConversationChannelAffinity(r) \/ WriteConversationChannelAffinity(r)
        \/ NextRequest(r)

RoutingSpec == StartRouting /\ [][RoutingStep]_routingVars

-----------------------------------------------------------------------------
(* Properties.                                                              *)

\* A request that starts after an administrative write has committed and
\* incremented the version is never routed by a configuration older than that
\* write, however long another request took between reading the version,
\* resolving the route and storing it (routeCached).
FreshRoute ==
    \A r \in RoutedRequests :
        pc[r] \in {"filter", "affinity", "pin", "routed"} => route[r].revision >= since[r]

\* The entry stored under a version was resolved after that version was
\* reached, also when it is stored long after later increments.
EntriesFollowTheirVersion ==
    \A v \in DOMAIN cache :
        (cache[v] # NoRoute /\ RouteCacheCarriesCreator(cache[v]))
            => cache[v].revision >= announced[v]
=============================================================================
