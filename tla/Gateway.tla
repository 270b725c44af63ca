------------------------------- MODULE Gateway -------------------------------
(***************************************************************************)
(* The way of a request through the gateway up to its charge, on the       *)
(* master: the firewall's admissions (src/internal/controller/relay,       *)
(* src/internal/logic/requestfirewall), the API key and its cache in Redis *)
(* (src/internal/logic/apikey), the balance and its marker in Redis        *)
(* (src/internal/logic/user) and the charge, whose transaction holds the   *)
(* rows of user and key. Beside it: the administration of keys and of the  *)
(* firewall and, from module Accounts, everything that touches users. What *)
(* happens upstream between the balance check and the charge is module     *)
(* RelayRequest; a request that is not charged ends at the balance check.  *)
(*                                                                         *)
(* The time of a key's last use and the broadcasts to the workers (module  *)
(* ConfigSync) are left out.                                               *)
(***************************************************************************)
EXTENDS Accounts

CONSTANTS
    Keys,
    KeyRows,    \* key -> its row in the beginning: [there, owner, enabled, expires, limit,
                \* spent, dayLimit, daySpent, day, policy, role, groups]
    MaxTime     \* bound: the ticks a run looks at

VARIABLES
    keys,       \* key -> its row
    cache,      \* key -> the entry of the authentication cache, or None
    marker,     \* the users whose balance was positive a moment ago
    fw,         \* the firewall of the process
    settings,   \* the saved settings: [row, cached]
    now, day

KeyRow == [there : BOOLEAN, owner : Users, enabled : BOOLEAN, expires : BOOLEAN,
           limit : Nat \cup {None}, spent : Nat, dayLimit : Nat \cup {None}, daySpent : Nat,
           day : Nat, policy : Nat, role : Roles \cup {""}, groups : Nat]

\* A request pays for the owner of its key, and keys are random: a new one has a
\* new name.
ASSUME GatewayAssumption ==
    /\ KeyRows \in [Keys -> KeyRow]
    /\ \A ask \in Asks : \A c \in Calls :
          /\ ask[c].key \in Keys
          /\ ask[c].op \in {"request", "createKey"} => ask[c].user = KeyRows[ask[c].key].owner
          /\ ask[c].op = "createKey" =>
                /\ ~KeyRows[ask[c].key].there
                /\ \A d \in Calls \ {c} :
                      ask[d].op = "createKey" => ask[d].key # ask[c].key

keyVars == <<keys, cache>>
gatewayVars == <<keys, cache, marker, fw, settings, now, day>>
vars == <<Ask, pc, mem, accountVars, gatewayVars>>

\* An entry of the cache. late: a ghost, the row had changed, or a charge held it, when
\* the entry was written, or Redis has refused to delete the entry since.
Entry(row, late) == [row |-> row, late |-> late]

\* What Redis makes of a deletion of the entry.
Deletions(entry) == {None, IF entry = None THEN None ELSE Entry(entry.row, TRUE)}

Init ==
    /\ StartAccounts
    /\ keys = KeyRows
    /\ cache = [k \in Keys |-> None]
    /\ marker = {}
    /\ fw = NewFirewall
    /\ settings = [row |-> DefaultSettings, cached |-> None]
    /\ now = 0 /\ day = 0

-----------------------------------------------------------------------------
(* The firewall's settings and the first admission. *)

\* Whoever finds the settings due reads them, the others go on with the old ones.
Arrive(c) ==
    /\ At(c, "request", "start")
    /\ IF fw.due THEN Go(c, "settings") ELSE Go(c, "client")
    /\ fw' = [fw EXCEPT !.due = FALSE]
    /\ Keep(c, "at", now)
    /\ UNCHANGED <<Ask, accountVars, keyVars, marker, settings, now, day>>

GetRequestFirewallSettings(c) ==
    /\ At(c, "request", "settings")
    /\ Go(c, "apply")
    /\ Keep(c, "row", IF settings.cached = None THEN settings.row ELSE settings.cached)
    /\ UNCHANGED <<Ask, accountVars, gatewayVars>>

ApplySettings(c) ==
    /\ At(c, "request", "apply")
    /\ settings' = [settings EXCEPT !.cached = mem[c].row]
    /\ fw' = SetSettings(fw, mem[c].row)
    /\ Go(c, "client")
    /\ mem' = [mem EXCEPT ![c].row = None, ![c].at = now]
    /\ UNCHANGED <<Ask, accountVars, keyVars, marker, now, day>>

\* An administrator saves settings: the row, the cache, this process's firewall.
UpdateRequestFirewallSettings(c) ==
    /\ At(c, "firewall", "start")
    /\ \E s \in Settings :
          IF NormalizeRequestFirewallSettings(s)
          THEN /\ settings' = [settings EXCEPT !.row = s]
               /\ Keep(c, "row", s) /\ Go(c, "cache")
          ELSE End(c, "bad_request") /\ UNCHANGED settings
    /\ UNCHANGED <<Ask, accountVars, keyVars, marker, fw, now, day>>
CacheSettings(c) ==
    /\ At(c, "firewall", "cache")
    /\ settings' = [settings EXCEPT !.cached = mem[c].row]
    /\ fw' = SetSettings(fw, mem[c].row)
    /\ Go(c, "done") /\ mem' = [mem EXCEPT ![c].row = None, ![c].result = "ok"]
    /\ UNCHANGED <<Ask, accountVars, keyVars, marker, now, day>>

AdmitClient(c) ==
    LET answer == AcquireClient(fw, Ask[c].ip, mem[c].at)
    IN /\ At(c, "request", "client")
       /\ fw' = answer.fw
       /\ IF answer.verdict = "refused" THEN End(c, "rate_limit_exceeded")
          ELSE /\ Go(c, "cache")
               /\ mem' = [mem EXCEPT ![c].client = answer.verdict,
                                     ![c].n = IF answer.verdict = "in" THEN 1 ELSE 0]
       /\ UNCHANGED <<Ask, accountVars, keyVars, marker, settings, now, day>>

-----------------------------------------------------------------------------
(* Authentication by API key. *)

\* A request that ends with a refusal still has to give its admissions back.
Refuse(c, result) == Go(c, "leave") /\ Keep(c, "result", result)

\* on: the header holds a bearer token of the right form.
ReadKeyCache(c) ==
    /\ At(c, "request", "cache")
    /\ CASE ~Ask[c].on -> Refuse(c, "unauthorized")
         [] Ask[c].on /\ cache[Ask[c].key] # None ->
               Go(c, "judge") /\ Keep(c, "row", cache[Ask[c].key].row)
         [] OTHER -> Go(c, "row") /\ UNCHANGED mem
    /\ UNCHANGED <<Ask, accountVars, gatewayVars>>

ReadKeyRow(c) ==
    /\ At(c, "request", "row")
    /\ IF keys[Ask[c].key].there THEN Go(c, "policy") /\ Keep(c, "row", keys[Ask[c].key])
       ELSE Refuse(c, "unauthorized")
    /\ UNCHANGED <<Ask, accountVars, gatewayVars>>

\* The models and groups of the key, the role and groups of its user.
PopulateAuthPolicy(c) ==
    LET k == Ask[c].key
        u == mem[c].row.owner
    IN /\ At(c, "request", "policy")
       /\ Go(c, "fill")
       /\ mem' = [mem EXCEPT ![c].row.policy = keys[k].policy,
                             ![c].row.role = users[u].role, ![c].row.groups = users[u].groups]
       /\ UNCHANGED <<Ask, accountVars, gatewayVars>>

\* What the cache should hold of a key; the user's part of it is nobody's to clear.
OwnPart(row) == [row EXCEPT !.role = "", !.groups = 0]

Held(k) == \E c \in Calls : At(c, "request", "commit") /\ Ask[c].key = k

FillKeyCache(c) ==
    LET k == Ask[c].key
    IN /\ At(c, "request", "fill")
       /\ cache' = [cache EXCEPT ![k] =
                       Entry(mem[c].row, Held(k) \/ OwnPart(mem[c].row) # OwnPart(keys[k]))]
       /\ Go(c, "judge") /\ UNCHANGED mem
       /\ UNCHANGED <<Ask, accountVars, keys, marker, fw, settings, now, day>>

DailySpentToday(row) == IF row.day = day THEN row.daySpent ELSE 0

DailyLimitReached(row) == row.dayLimit # None /\ DailySpentToday(row) >= row.dayLimit

Invalid(row) == \/ ~row.there \/ ~row.enabled
                \/ row.expires /\ day > 0   \* at midnight
                \/ row.limit # None /\ row.spent >= row.limit

Authenticate(c) ==
    /\ At(c, "request", "judge")
    /\ CASE Invalid(mem[c].row) -> Refuse(c, "unauthorized")
         [] ~Invalid(mem[c].row) /\ DailyLimitReached(mem[c].row) -> Refuse(c, "daily_limit")
         [] OTHER -> Go(c, "key") /\ mem' = [mem EXCEPT ![c].at = now]
    /\ UNCHANGED <<Ask, accountVars, gatewayVars>>

AdmitAPIKey(c) ==
    LET answer == AcquireAPIKey(fw, Ask[c].key, mem[c].at)
    IN /\ At(c, "request", "key")
       /\ fw' = answer.fw
       /\ IF answer.verdict = "refused" THEN Refuse(c, "rate_limit_exceeded")
          ELSE Go(c, "body") /\ Keep(c, "key", answer.verdict)
       /\ UNCHANGED <<Ask, accountVars, keyVars, marker, settings, now, day>>

\* The body may be too large or break off; a model outside the key's is refused.
ReadBody(c) ==
    /\ At(c, "request", "body")
    /\ \/ Refuse(c, "too_large") \/ Refuse(c, "aborted")
       \/ IF mem[c].row.policy = 0 THEN Go(c, "balance") /\ UNCHANGED mem
          ELSE Refuse(c, "bad_request")
    /\ UNCHANGED <<Ask, accountVars, gatewayVars>>

-----------------------------------------------------------------------------
(* Balance and charge. *)

CheckBalance(c) ==
    LET u == mem[c].row.owner
        positive == users[u].there /\ users[u].balance > 0
    IN /\ At(c, "request", "balance")
       /\ IF u \in marker \/ positive THEN Go(c, "charge") /\ UNCHANGED mem
          ELSE Refuse(c, "insufficient_balance")
       /\ marker' = IF positive THEN marker \cup {u} ELSE marker
       /\ UNCHANGED <<Ask, accountVars, keyVars, fw, settings, now, day>>

\* A failed answer is not charged.
NotCharged(c) ==
    /\ At(c, "request", "charge")
    /\ Refuse(c, "failed")
    /\ UNCHANGED <<Ask, accountVars, gatewayVars>>

\* In the transaction: the user's row is locked and judged, then the key's; the key's
\* cache entry is cleared before the transaction ends, whether Redis does it or not. A
\* charge the balance cannot bear commits its usage row only; one whose user or key is
\* gone fails.
Charge(c) ==
    LET u == mem[c].row.owner
        k == Ask[c].key
    IN /\ At(c, "request", "charge")
       /\ ~Charging(u)
       /\ CASE ~users[u].there \/ ~keys[k].there -> Refuse(c, "failed") /\ UNCHANGED cache
            [] users[u].there /\ keys[k].there /\ users[u].balance < Ask[c].amount ->
                  Refuse(c, "insufficient_balance") /\ UNCHANGED cache
            [] OTHER -> Go(c, "commit") /\ UNCHANGED mem
                          /\ \E e \in Deletions(cache[k]) : cache' = [cache EXCEPT ![k] = e]
       /\ UNCHANGED <<Ask, accountVars, keys, marker, fw, settings, now, day>>

AddSpend(row, amount) ==
    [row EXCEPT !.spent = @ + amount, !.daySpent = DailySpentToday(row) + amount, !.day = day]

CommitCharge(c) ==
    /\ At(c, "request", "commit")
    /\ users' = [users EXCEPT ![Me(c)].balance = @ - Ask[c].amount]
    /\ keys' = [keys EXCEPT ![Ask[c].key] = AddSpend(@, Ask[c].amount)]
    /\ Refuse(c, "ok")
    /\ UNCHANGED <<Ask, codes, oauth, sessions, reveal, cache, marker, fw, settings, now, day>>

\* The deferred releases, the key's before the client's.
Leave(c) ==
    LET freed == IF mem[c].key = "in" THEN ReleaseAPIKey(fw, Ask[c].key) ELSE fw
    IN /\ At(c, "request", "leave")
       /\ fw' = IF mem[c].client = "in" THEN ReleaseClient(freed, Ask[c].ip) ELSE freed
       /\ Go(c, "done")
       /\ mem' = [mem EXCEPT ![c].key = "out", ![c].client = "out", ![c].row = None]
       /\ UNCHANGED <<Ask, accountVars, keyVars, marker, settings, now, day>>

-----------------------------------------------------------------------------
(* Administration of keys and deletion of users. *)

\* Keys are random: a key is created once.
CreateKey(c) ==
    LET k == Ask[c].key
    IN /\ At(c, "createKey", "start")
       /\ IF users[Me(c)].there /\ ~keys[k].there
          THEN keys' = [keys EXCEPT ![k].there = TRUE, ![k].owner = Me(c), ![k].enabled = TRUE]
                 /\ End(c, "ok")
          ELSE End(c, "refused") /\ UNCHANGED keys
       /\ UNCHANGED <<Ask, accountVars, cache, marker, fw, settings, now, day>>

EnsureAccess(c, row) == Ask[c].user = row.owner \/ users[Ask[c].user].role = "admin"

FindKey(c) ==
    LET row == keys[Ask[c].key]
    IN /\ Ask[c].op \in {"updateKey", "deleteKey"} /\ pc[c] = "start"
       /\ IF row.there /\ EnsureAccess(c, row) THEN Go(c, "write") /\ UNCHANGED mem
          ELSE End(c, "refused")
       /\ UNCHANGED <<Ask, accountVars, gatewayVars>>

\* Limits, status and policy in one transaction; what was spent stays.
WriteKey(c) ==
    LET k == Ask[c].key
    IN /\ At(c, "updateKey", "write")
       /\ ~Held(k)
       /\ keys' = IF keys[k].there
                  THEN [keys EXCEPT ![k].enabled = Ask[c].on, ![k].policy = Ask[c].amount] ELSE keys
       /\ Go(c, "clear") /\ UNCHANGED mem
       /\ UNCHANGED <<Ask, accountVars, cache, marker, fw, settings, now, day>>

RemoveKey(c) ==
    LET k == Ask[c].key
    IN /\ At(c, "deleteKey", "write")
       /\ ~Held(k)
       /\ keys' = [keys EXCEPT ![k].there = FALSE]
       /\ Go(c, "clear") /\ UNCHANGED mem
       /\ UNCHANGED <<Ask, accountVars, cache, marker, fw, settings, now, day>>

\* Bug: an edit of a key leaves its cache entry alone.
MutClearKeyCache(c) ==
    /\ Ask[c].op \in {"updateKey", "deleteKey"} /\ pc[c] = "clear"
    /\ End(c, "ok")
    /\ UNCHANGED <<Ask, accountVars, gatewayVars>>

\* The caller hears of a failure; the edit stays.
ClearKeyCache(c) ==
    /\ Ask[c].op \in {"updateKey", "deleteKey"} /\ pc[c] = "clear"
    /\ \E e \in Deletions(cache[Ask[c].key]) :
          /\ cache' = [cache EXCEPT ![Ask[c].key] = e]
          /\ End(c, IF e = None THEN "ok" ELSE "failed")
    /\ UNCHANGED <<Ask, accountVars, keys, marker, fw, settings, now, day>>

\* The owner or an administrator sees the key again.
RevealKey(c) ==
    /\ At(c, "revealKey", "start")
    /\ End(c, IF keys[Ask[c].key].there /\ EnsureAccess(c, keys[Ask[c].key]) THEN "ok" ELSE "refused")
    /\ UNCHANGED <<Ask, accountVars, gatewayVars>>

\* of: the operator, who cannot delete itself. The keys are listed before the transaction.
ListUserKeys(c) ==
    /\ At(c, "deleteUser", "start")
    /\ IF Ask[c].of # Me(c) /\ users[Me(c)].there
       THEN Go(c, "delete") /\ Keep(c, "ids", {k \in Keys : keys[k].there /\ keys[k].owner = Me(c)})
       ELSE End(c, "refused")
    /\ UNCHANGED <<Ask, accountVars, gatewayVars>>

DeleteUser(c) ==
    LET u == Me(c)
    IN /\ At(c, "deleteUser", "delete")
       /\ ~Charging(u)
       /\ users' = [users EXCEPT ![u].there = FALSE]
       /\ keys' = [k \in Keys |-> [keys[k] EXCEPT !.there = @ /\ keys[k].owner # u]]
       /\ Go(c, "clear") /\ UNCHANGED mem
       /\ UNCHANGED <<Ask, codes, oauth, sessions, reveal, cache, marker, fw, settings, now, day>>

\* All of the listed keys' entries or none; a failure is discarded.
ClearUserKeys(c) ==
    /\ At(c, "deleteUser", "clear")
    /\ \E failed \in BOOLEAN :
          cache' = [k \in Keys |->
                       IF k \in mem[c].ids
                       THEN IF failed /\ cache[k] # None THEN Entry(cache[k].row, TRUE) ELSE None
                       ELSE cache[k]]
    /\ End(c, "ok")
    /\ UNCHANGED <<Ask, accountVars, keys, marker, fw, settings, now, day>>

-----------------------------------------------------------------------------
(* Time. Whether it passes, and what it ends, is part of what a run looks at: a    *)
(* call of the clock.                                                        *)

\* The refresh interval is one tick long.
Tick(c) ==
    /\ At(c, "tick", "start")
    /\ now' = now + 1
    /\ fw' = [fw EXCEPT !.due = TRUE]
    /\ IF now' = MaxTime THEN End(c, "ok") ELSE UNCHANGED <<pc, mem>>
    /\ UNCHANGED <<Ask, accountVars, keyVars, marker, settings, day>>

Midnight(c) ==
    /\ At(c, "midnight", "start")
    /\ day' = day + 1
    /\ End(c, "ok")
    /\ UNCHANGED <<Ask, accountVars, keyVars, marker, fw, settings, now>>

\* An entry of Redis reaches its end.
Expire(c) ==
    /\ At(c, "expire", "start")
    /\ \/ \E k \in Keys : cache[k] # None /\ cache' = [cache EXCEPT ![k] = None]
             /\ UNCHANGED <<marker, settings>>
       \/ \E u \in marker : marker' = marker \ {u} /\ UNCHANGED <<cache, settings>>
       \/ settings.cached # None /\ settings' = [settings EXCEPT !.cached = None]
             /\ UNCHANGED <<cache, marker>>
    /\ End(c, "ok")
    /\ UNCHANGED <<Ask, accountVars, keys, fw, now, day>>

-----------------------------------------------------------------------------
\* A credit clears the marker inside its transaction.
Credits == \E c \in Calls : Claim(c) /\ marker' = (IF mem'[c].result = "ok" THEN marker \ {Me(c)} ELSE marker)

GatewayStep(c) ==
    \/ Arrive(c) \/ GetRequestFirewallSettings(c) \/ ApplySettings(c)
    \/ UpdateRequestFirewallSettings(c) \/ CacheSettings(c)
    \/ AdmitClient(c) \/ ReadKeyCache(c) \/ ReadKeyRow(c) \/ PopulateAuthPolicy(c)
    \/ FillKeyCache(c) \/ Authenticate(c) \/ AdmitAPIKey(c) \/ ReadBody(c)
    \/ CheckBalance(c) \/ NotCharged(c) \/ Charge(c) \/ CommitCharge(c) \/ Leave(c)
    \/ CreateKey(c) \/ FindKey(c) \/ WriteKey(c) \/ RemoveKey(c) \/ ClearKeyCache(c) \/ RevealKey(c)
    \/ Tick(c) \/ Midnight(c) \/ Expire(c)
    \/ ListUserKeys(c) \/ DeleteUser(c) \/ ClearUserKeys(c)

Finished == \A c \in Calls : pc[c] = "done" \/ Ask[c].op \in {"idle", "expire"}

Next ==
    \/ \E c \in Calls : GatewayStep(c)
    \/ AccountStep /\ UNCHANGED gatewayVars
    \/ Credits /\ UNCHANGED <<keyVars, fw, settings, now, day>>
    \/ Finished /\ UNCHANGED vars

Spec == Init /\ [][Next]_vars

-----------------------------------------------------------------------------
(* Properties. *)

\* The sum of the numbers f[x] over the x of S: their units, counted.
Units(f, S) == UNION {{x} \X (1 .. f[x]) : x \in S}
Total(f, S) == Cardinality(Units(f, S))

Asking(op) == {c \in Calls : Ask[c].op = op}
Succeeded(op) == {c \in Asking(op) : mem[c].result = "ok"}

Used(u) == {k \in Codes : codes[k].usedBy = u}
Paid(u) == {c \in Succeeded("request") : Me(c) = u}

\* A user whose balance nobody sets.
Untouched(u) == \A c \in Asking("setBalance") \cup Asking("callback") : Me(c) # u

\* redemption/redeem.go:42 with user/debit.go: however redemptions, charges, deletions and
\* expiry of codes interleave, a code is credited to one user once, and the balance
\* of a user whose balance nobody sets is its first balance with the codes it used
\* less the requests it paid for, and never negative.
CodesPayOnce ==
    /\ \A k \in Codes : Cardinality({c \in Succeeded("redeem") : Ask[c].code = k}) <= 1
    /\ \A u \in Users : Untouched(u) =>
          /\ users[u].balance = Account[u].balance + Total([k \in Codes |-> codes[k].amount], Used(u))
                                   - Total([c \in Calls |-> Ask[c].amount], Paid(u))
          /\ users[u].balance >= 0

\* apikey/service.go:243 and :272, user/service.go:443, spending.go:74: once every edit, deletion
\* and charge of a key has ended, the cache holds its row as it is, unless a reader
\* wrote back what it had read before them or while a charge held the row, Redis
\* refused to delete the entry, or the key was created while its user was being
\* deleted.
CacheFollowsKey ==
    \A k \in Keys :
        LET editing == \E c \in Calls : pc[c] = "clear" /\ (Ask[c].key = k \/ k \in mem[c].ids)
            orphan == \E c \in Asking("deleteUser") : Me(c) = keys[k].owner /\ k \notin mem[c].ids
        IN cache[k] # None /\ ~cache[k].late /\ ~editing /\ ~Held(k) /\ ~orphan =>
              OwnPart(cache[k].row) = OwnPart(keys[k])

Running(entries, id) == IF id \in DOMAIN entries THEN entries[id].active ELSE 0
Admitted(ip) == {c \in Calls : mem[c].client = "in" /\ Ask[c].ip = ip}
AdmittedKey(k) == {c \in Calls : mem[c].key = "in" /\ Ask[c].key = k}

\* requestfirewall/service.go:207 and :222: the counts of running requests, in all, by
\* client address and by key, are those of the requests that were admitted and have
\* not left, whatever settings are saved and whichever entries are swept in between.
AdmissionsAreCounted ==
    /\ fw.active = Cardinality({c \in Calls : mem[c].client = "in"})
    /\ \A c \in Asking("request") :
          /\ Running(fw.ips, Ask[c].ip) = Cardinality(Admitted(Ask[c].ip))
          /\ Running(fw.apiKeys, Ask[c].key) = Cardinality(AdmittedKey(Ask[c].key))

\* The requests of a client address that the firewall has let in since the start.
LetIn(ip) == {c \in Asking("request") : mem[c].n = 1 /\ Ask[c].ip = ip}

\* And no address gets more admissions than a full bucket and the time since the start
\* are worth, at the highest rate that may be saved, whichever settings follow each other
\* and whichever buckets are swept and filled anew; unless a request came to its bucket
\* with a clock that another was ahead of.
AdmissionsAreBounded ==
    /\ AdmissionsAreCounted
    /\ ~fw.behind =>
          \A c \in Asking("request") :
             \E s \in Settings :
                /\ s.enabled /\ NormalizeRequestFirewallSettings(s)
                /\ Cardinality(LetIn(Ask[c].ip)) * TicksPerMinute <= s.rateIP * (TicksPerMinute + now)

\* A callback whose state was taken.
Past(c) == pc[c] # "start" /\ mem[c].result # "invalid_state"

\* auth/service.go:146 and auth/session.go: of the callbacks of one login at most one gets past
\* the check of the state, and only such a callback ends with a session.
LoginStateUsedOnce ==
    /\ \A l \in Asking("login") :
          Cardinality({c \in Asking("callback") : Ask[c].of = l /\ Past(c)}) <= 1
    /\ \A c \in Calls : sessions[c] # None => c \in Asking("callback") /\ Past(c)
=============================================================================
