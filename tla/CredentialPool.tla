--------------------------- MODULE CredentialPool ---------------------------
(***************************************************************************)
(* Choosing the upstream key of a request: SelectCredential in             *)
(* src/internal/logic/channel/credentials.go with credential_affinity.go   *)
(* and credential_diagnosis.go.                                            *)
(*                                                                         *)
(* The keys of a channel are rows of channel_credentials.  The enabled     *)
(* ones are cached in Redis under a key that embeds a global version; a    *)
(* writer that wants the cache dropped increments the version after its    *)
(* write.  A conversation remembers its key per channel (24 h), an API key *)
(* is bound to one key per channel by a table row that is cached for 60 s. *)
(*                                                                         *)
(* SelectCredential is a sequence of database and Redis calls, and every   *)
(* call is one step here: call[r] holds the local variables of request r   *)
(* and the point it has reached.  The model has one API key, one           *)
(* conversation and one model per channel.                                 *)
(*                                                                         *)
(* Redis answers every call.  The code discards the errors of the          *)
(* increment and of the deletions (credentials.go:467-470, 499-501): with  *)
(* a lost increment the old pool stays valid until it expires (5 min).     *)
(***************************************************************************)
EXTENDS Naturals, FiniteSets

CONSTANTS
    Channels, Creds,
    ChannelOf,      \* [Creds -> Channels]
    Initial,        \* the states of the keys at the start
    Requests,
    None,
    MaxChanges      \* bound on changes of keys, cooldowns, bindings and memories

ASSUME PoolAssumption == /\ ChannelOf \in [Creds -> Channels]
                         /\ Initial \subseteq [Creds -> {"new", "on", "off", "auto"}]
                         /\ None \notin Creds
                         /\ MaxChanges \in Nat

VARIABLES
    status,         \* channel_credentials: new (not yet a row), on, off, auto, deleted
    version,        \* aiferry:credentials:version
    pool,           \* cached rows by channel and version, {} when there is no entry
    cooldown,       \* keys with a Redis cooldown
    cooling,        \* keys whose combination with the model is paused
    memory,         \* the conversation's key by channel
    binding,        \* api_key_channel_credentials by channel
    bindingCache,   \* its 60 s copy in Redis
    admin,          \* the key whose transient state the console still has to clear
    changes,
    call

envVars == <<status, version, cooldown, cooling, admin, changes>>
poolVars == <<status, version, pool, cooldown, cooling, memory, binding,
              bindingCache, admin, changes, call>>

Idle == [pc |-> "idle", channel |-> None, conversation |-> FALSE, nilExcluded |-> FALSE,
         excluded |-> {}, anyModel |-> FALSE, version |-> 0, rows |-> {},
         available |-> {}, bound |-> None, pick |-> None, revoked |-> {}]

PoolInit ==
    /\ status \in Initial
    /\ version = 0
    /\ pool = [ch \in Channels |-> [v \in 0..MaxChanges |-> {}]]
    /\ cooldown = {} /\ cooling = {}
    /\ memory = [ch \in Channels |-> None]
    /\ binding = [ch \in Channels |-> None]
    /\ bindingCache = [ch \in Channels |-> None]
    /\ admin = None
    /\ changes = 0
    /\ call = [r \in Requests |-> Idle]

-----------------------------------------------------------------------------
(* The call. *)

\* The keys an operator has disabled or deleted, once the console's call is over.
Revoked == {c \in Creds : status[c] \in {"off", "deleted"} /\ c # admin}

\* The arguments of SelectCredential; nilExcluded tells a nil set from an empty
\* one, anyModel a call with model 0 (the pauses of combinations are ignored).
SelectCredential(ch, conversation, nilExcluded, excluded, anyModel) ==
    [Idle EXCEPT !.pc = "version", !.channel = ch, !.conversation = conversation,
                 !.nilExcluded = nilExcluded, !.excluded = excluded,
                 !.anyModel = anyModel, !.revoked = Revoked]

Goto(r, pc) == call' = [call EXCEPT ![r].pc = pc]

\* The return of the call; its local variables are gone.
Chosen(r, c) ==
    call' = [call EXCEPT ![r] = [Idle EXCEPT !.pc = "chosen", !.pick = c,
                                             !.channel = call[r].channel,
                                             !.nilExcluded = call[r].nilExcluded,
                                             !.revoked = call[r].revoked]]

\* A score of 0 still weighs 1, so any available key may be drawn.
WeightedSelect(available) == available

\* The version is read first; the list below belongs to that version.
ReadCredentialCache(r) ==
    LET hit == pool[call[r].channel][version]
    IN  /\ call[r].pc = "version"
        /\ call' = [call EXCEPT ![r].pc = IF hit = {} THEN "list" ELSE "filter",
                                ![r].version = version, ![r].rows = hit]
        /\ UNCHANGED <<envVars, pool, memory, binding, bindingCache>>

ListEnabled(r) ==
    /\ call[r].pc = "list"
    /\ call' = [call EXCEPT ![r].pc = "store",
                            ![r].rows = {c \in Creds : /\ ChannelOf[c] = call[r].channel
                                                       /\ status[c] = "on"}]
    /\ UNCHANGED <<envVars, pool, memory, binding, bindingCache>>

\* An empty list is not cached.
WriteCredentialCache(r) ==
    LET rows == call[r].rows
    IN  /\ call[r].pc = "store"
        /\ pool' = IF rows = {} THEN pool
                   ELSE [pool EXCEPT ![call[r].channel][call[r].version] = rows]
        /\ Goto(r, "filter")
        /\ UNCHANGED <<envVars, memory, binding, bindingCache>>

\* The memory wins while its key is available; a key the request itself has
\* excluded is replaced for this request only.
SelectConversationCredential(available, excluded, remembered) ==
    [keep |-> (available \ excluded) \cap {remembered}, draw |-> available \ excluded,
     persist |-> remembered \notin available]

\* Keys in cooldown and paused combinations are left out; with a conversation
\* the request's own exclusions come later.
FilterAvailable(r) ==
    LET me == call[r]
        unpaused == {c \in me.rows \ cooldown : me.anyModel \/ c \notin cooling}
        available == IF me.conversation THEN unpaused ELSE unpaused \ me.excluded
        next == IF me.conversation THEN "affinity"
                ELSE IF me.nilExcluded THEN "binding" ELSE "replace"
        filtered == [me EXCEPT !.version = 0, !.rows = {}, !.available = available, !.pc = next]
    IN  /\ me.pc = "filter"
        /\ IF available # {}
           THEN IF next = "replace"
                THEN \E c \in WeightedSelect(available) :
                        call' = [call EXCEPT ![r] = [filtered EXCEPT !.pick = c]]
                ELSE call' = [call EXCEPT ![r] = filtered]
           ELSE IF me.conversation
                THEN call' = [call EXCEPT ![r].pc = "version", ![r].conversation = FALSE]
                ELSE call' = [call EXCEPT ![r].pc = "none",
                                          ![r].available = (me.rows \ cooldown) \ me.excluded]
        /\ UNCHANGED <<envVars, pool, memory, binding, bindingCache>>

SelectForConversation(r) ==
    LET me == call[r]
        s == SelectConversationCredential(me.available, me.excluded, memory[me.channel])
    IN  /\ me.pc = "affinity"
        /\ IF s.draw = {}
           THEN call' = [call EXCEPT ![r].pc = "version", ![r].conversation = FALSE]
           ELSE IF s.keep # {}
                THEN \E c \in s.keep : Chosen(r, c)
                ELSE \E c \in WeightedSelect(s.draw) :
                        IF s.persist
                        THEN call' = [call EXCEPT ![r].pc = "remember", ![r].pick = c]
                        ELSE Chosen(r, c)
        /\ UNCHANGED <<envVars, pool, memory, binding, bindingCache>>

WriteCredentialAffinity(r) ==
    /\ call[r].pc = "remember"
    /\ memory' = [memory EXCEPT ![call[r].channel] = call[r].pick]
    /\ Chosen(r, call[r].pick)
    /\ UNCHANGED <<envVars, pool, binding, bindingCache>>

-----------------------------------------------------------------------------
(* The binding of the API key, for calls without an exclusion set. *)

\* What a binding leads to: its key when that is available, else a drawn one
\* that becomes the first binding or replaces the old one.
UseBinding(r, bound) ==
    IF bound \in call[r].available
    THEN Chosen(r, bound)
    ELSE \E c \in WeightedSelect(call[r].available) :
            call' = [call EXCEPT ![r].pc = IF bound = None THEN "insert" ELSE "replace",
                                 ![r].pick = c]

ReadCredentialBindingCache(r) ==
    LET cached == bindingCache[call[r].channel]
    IN  /\ call[r].pc = "binding"
        /\ IF cached # None THEN UseBinding(r, cached) ELSE Goto(r, "load")
        /\ UNCHANGED <<envVars, pool, memory, binding, bindingCache>>

LoadBinding(r) ==
    LET bound == binding[call[r].channel]
    IN  /\ call[r].pc = "load"
        /\ IF bound = None THEN UseBinding(r, None)
           ELSE call' = [call EXCEPT ![r].pc = "loaded", ![r].bound = bound]
        /\ UNCHANGED <<envVars, pool, memory, binding, bindingCache>>

WriteLoadedBinding(r) ==
    /\ call[r].pc = "loaded"
    /\ bindingCache' = [bindingCache EXCEPT ![call[r].channel] = call[r].bound]
    /\ UseBinding(r, call[r].bound)
    /\ UNCHANGED <<envVars, pool, memory, binding>>

\* Bug: the insert that finds a row is taken for a success.
MutBindFirstCredential(r) ==
    LET ch == call[r].channel
    IN  /\ call[r].pc = "insert"
        /\ binding' = [binding EXCEPT ![ch] = IF @ = None THEN call[r].pick ELSE @]
        /\ Goto(r, "bound")
        /\ UNCHANGED <<envVars, pool, memory, bindingCache>>

\* INSERT IGNORE: an existing row, or a key that was deleted meanwhile (the
\* foreign key), inserts nothing.
BindFirstCredential(r) ==
    LET ch == call[r].channel
        inserts == binding[ch] = None /\ status[call[r].pick] # "deleted"
    IN  /\ call[r].pc = "insert"
        /\ binding' = IF inserts THEN [binding EXCEPT ![ch] = call[r].pick] ELSE binding
        /\ Goto(r, IF inserts THEN "bound" ELSE "reload")
        /\ UNCHANGED <<envVars, pool, memory, bindingCache>>

\* The row of the concurrent first use; without one the call fails.
ReloadBinding(r) ==
    LET bound == binding[call[r].channel]
    IN  /\ call[r].pc = "reload"
        /\ call' = [call EXCEPT ![r].pc = IF bound = None THEN "failed" ELSE "reloaded",
                                ![r].bound = bound]
        /\ UNCHANGED <<envVars, pool, memory, binding, bindingCache>>

WriteReloadedBinding(r) ==
    LET me == call[r]
    IN  /\ me.pc = "reloaded"
        /\ bindingCache' = [bindingCache EXCEPT ![me.channel] = me.bound]
        /\ IF me.bound \in me.available THEN Chosen(r, me.bound) ELSE Goto(r, "replace")
        /\ UNCHANGED <<envVars, pool, memory, binding>>

\* UPDATE: no row, no effect; a deleted key violates the foreign key.
ReplaceCredentialBinding(r) ==
    LET ch == call[r].channel
        fails == binding[ch] # None /\ status[call[r].pick] = "deleted"
    IN  /\ call[r].pc = "replace"
        /\ binding' = IF fails \/ binding[ch] = None THEN binding
                      ELSE [binding EXCEPT ![ch] = call[r].pick]
        /\ Goto(r, IF fails THEN "failed" ELSE "bound")
        /\ UNCHANGED <<envVars, pool, memory, bindingCache>>

WriteCredentialBindingCache(r) ==
    /\ call[r].pc = "bound"
    /\ bindingCache' = [bindingCache EXCEPT ![call[r].channel] = call[r].pick]
    /\ Chosen(r, call[r].pick)
    /\ UNCHANGED <<envVars, pool, memory, binding>>

Selection(r) ==
    \/ ReadCredentialCache(r) \/ ListEnabled(r) \/ WriteCredentialCache(r)
    \/ FilterAvailable(r) \/ SelectForConversation(r)
    \/ WriteCredentialAffinity(r) \/ ReadCredentialBindingCache(r) \/ LoadBinding(r)
    \/ WriteLoadedBinding(r) \/ BindFirstCredential(r) \/ ReloadBinding(r)
    \/ WriteReloadedBinding(r) \/ ReplaceCredentialBinding(r)
    \/ WriteCredentialBindingCache(r)

\* Why no key could be chosen: CredentialUnavailableError.
UnavailableReason(r) ==
    LET enabled == {c \in Creds : ChannelOf[c] = call[r].channel /\ status[c] = "on"}
    IN  IF call[r].available # {} THEN "combination cooldown"
        ELSE IF enabled = {} THEN "no enabled key"
        ELSE IF enabled \subseteq cooldown THEN "all keys cooling"
        ELSE IF enabled \cap cooldown # {} THEN "some keys cooling"
        ELSE IF call[r].excluded # {} THEN "excluded by this request" ELSE "available"

-----------------------------------------------------------------------------
(* The console, the health logic and the clocks. *)

Change == changes < MaxChanges /\ changes' = changes + 1

CreateCredential(c) ==
    /\ Change
    /\ status[c] = "new"
    /\ status' = [status EXCEPT ![c] = "on"]
    /\ UNCHANGED <<version, pool, cooldown, cooling, memory, binding, bindingCache,
                   admin, call>>

\* A key that is switched on again may be served again.
SetCredentialStatus(c, on) ==
    /\ Change
    /\ admin = None
    /\ status[c] \in {"on", "off", "auto"}
    /\ status' = [status EXCEPT ![c] = IF on THEN "on" ELSE "off"]
    /\ admin' = c
    /\ call' = IF on THEN [r \in Requests |-> [call[r] EXCEPT !.revoked = @ \ {c}]] ELSE call
    /\ UNCHANGED <<version, pool, cooldown, cooling, memory, binding, bindingCache>>

\* One transaction removes the bindings, the combinations and the row.
DeleteCredential(c) ==
    /\ Change
    /\ admin = None
    /\ status[c] \in {"on", "off", "auto"}
    /\ status' = [status EXCEPT ![c] = "deleted"]
    /\ binding' = [ch \in Channels |-> IF binding[ch] = c THEN None ELSE binding[ch]]
    /\ cooling' = cooling \ {c}
    /\ admin' = c
    /\ UNCHANGED <<version, pool, cooldown, memory, bindingCache, call>>

\* Bug: only the failure counters are dropped, the version is not incremented.
MutClearCredentialTransient ==
    /\ admin # None
    /\ cooldown' = cooldown \ {admin}
    /\ admin' = None
    /\ UNCHANGED <<status, version, pool, cooling, memory, binding, bindingCache, changes,
                   call>>

\* The console clears the cooldown and increments the version after the write.
ClearCredentialTransient ==
    /\ admin # None
    /\ cooldown' = cooldown \ {admin}
    /\ version' = version + 1
    /\ admin' = None
    /\ UNCHANGED <<status, pool, cooling, memory, binding, bindingCache, changes, call>>

SetCredentialManagementKey ==
    /\ Change
    /\ admin = None
    /\ version' = version + 1
    /\ UNCHANGED <<status, pool, cooldown, cooling, memory, binding, bindingCache,
                   admin, call>>

\* The health logic writes the row and drops the cooldown, but leaves the
\* version of the cached pool alone.
AutoChange(c) ==
    /\ Change
    /\ \/ status[c] = "on" /\ status' = [status EXCEPT ![c] = "auto"]
       \/ status[c] = "auto" /\ status' = [status EXCEPT ![c] = "on"]
    /\ cooldown' = cooldown \ {c}
    /\ UNCHANGED <<version, pool, cooling, memory, binding, bindingCache, admin, call>>

Cool(c) ==
    /\ Change
    /\ \/ cooldown' = cooldown \cup {c} /\ UNCHANGED cooling
       \/ cooling' = cooling \cup {c} /\ UNCHANGED cooldown
    /\ status[c] # "deleted"
    /\ UNCHANGED <<status, version, pool, memory, binding, bindingCache, admin, call>>

CooldownEnds(c) ==
    /\ \/ c \in cooldown /\ cooldown' = cooldown \ {c} /\ UNCHANGED cooling
       \/ c \in cooling /\ cooling' = cooling \ {c} /\ UNCHANGED cooldown
    /\ UNCHANGED <<status, version, pool, memory, binding, bindingCache, admin, changes, call>>

\* Bug: the entry of the current version is kept (SET without an expiry).
MutPoolExpires(ch, v) ==
    /\ pool[ch][v] # {} /\ v # version
    /\ pool' = [pool EXCEPT ![ch][v] = {}]
    /\ UNCHANGED <<envVars, memory, binding, bindingCache, call>>

\* The 5 minutes of credentialCacheTTL.
PoolExpires(ch, v) ==
    /\ pool[ch][v] # {}
    /\ pool' = [pool EXCEPT ![ch][v] = {}]
    /\ UNCHANGED <<envVars, memory, binding, bindingCache, call>>

\* The 60 s of credentialBindingCacheTTL.
BindingExpires(ch) ==
    /\ Change
    /\ bindingCache[ch] # None
    /\ bindingCache' = [bindingCache EXCEPT ![ch] = None]
    /\ UNCHANGED <<status, version, cooldown, cooling, admin, pool, memory, binding, call>>

\* The 24 h of credentialAffinityTTL.
AffinityExpires(ch) ==
    /\ Change
    /\ memory[ch] # None
    /\ memory' = [memory EXCEPT ![ch] = None]
    /\ UNCHANGED <<status, version, cooldown, cooling, admin, pool, binding, bindingCache, call>>

Environment ==
    \/ \E c \in Creds : \/ CreateCredential(c) \/ DeleteCredential(c) \/ AutoChange(c)
                        \/ Cool(c) \/ CooldownEnds(c)
                        \/ \E on \in BOOLEAN : SetCredentialStatus(c, on)
    \/ ClearCredentialTransient \/ SetCredentialManagementKey
    \/ \E ch \in Channels : \/ \E v \in 0..MaxChanges : PoolExpires(ch, v)
                            \/ BindingExpires(ch) \/ AffinityExpires(ch)

-----------------------------------------------------------------------------
\* A key the operator disabled or deleted before a request began to select is
\* not the one that request gets: the version is read before the list, and the
\* console increments it after the write. It rests on that increment reaching
\* Redis, whose error the code discards.
RevokedKeyIsNotServed ==
    \A r \in Requests : call[r].pc = "chosen" => call[r].pick \notin call[r].revoked

\* An enabled key comes back into the pool that requests are served from, also
\* after a recovery or a creation, which do not increment the version.
PoolCatchesUp ==
    \A c \in Creds :
        <>[](status[c] = "on")
        => []<>(pool[ChannelOf[c]][version] = {} \/ c \in pool[ChannelOf[c]][version])
=============================================================================
