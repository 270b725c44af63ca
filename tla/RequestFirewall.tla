--------------------------- MODULE RequestFirewall ---------------------------
(***************************************************************************)
(* The request firewall, src/internal/logic/requestfirewall/service.go,    *)
(* with its settings (src/internal/logic/system/request_firewall.go): one  *)
(* mutex, a count of requests in all, and for each client address and each *)
(* API key an entry with its requests and a token bucket. An operation     *)
(* under the mutex is an operator from one state of the firewall to the    *)
(* next; module Gateway has the requests that call them.                   *)
(*                                                                         *)
(* Time is counted in ticks, TicksPerMinute of them to the minute; the     *)
(* rates are multiples of it, so that a bucket holds whole tokens.         *)
(***************************************************************************)
EXTENDS Integers, Sequences, FiniteSets, FiniteSetsExt, Functions, TLC

CONSTANTS
    Settings,       \* the settings an administrator may save
    TicksPerMinute,
    IdleTTL,        \* an entry nobody uses is dropped after this time (10 minutes)
    CleanupInterval \* at most one sweep in this time (1 minute)

\* The most an administrator may allow.
MaxRequests == 4096
MaxRequestsOfOne == 1024
MaxRate == 60000

\* A group of limits is [enabled, all, perIP, perKey, rateIP, rateKey].
NormalizeRequestFirewallSettings(s) ==
    /\ s.all \in 1 .. MaxRequests
    /\ s.perIP \in 1 .. MaxRequestsOfOne /\ s.perKey \in 1 .. MaxRequestsOfOne
    /\ s.perIP <= s.all /\ s.perKey <= s.all
    /\ s.rateIP \in 1 .. MaxRate /\ s.rateKey \in 1 .. MaxRate

ASSUME FirewallAssumption ==
    /\ TicksPerMinute \in Nat \ {0} /\ IdleTTL \in Nat /\ CleanupInterval \in Nat
    /\ IdleTTL >= TicksPerMinute
    /\ \A s \in Settings : s.rateIP % TicksPerMinute = 0 /\ s.rateKey % TicksPerMinute = 0
    /\ \E s \in Settings : s.enabled /\ NormalizeRequestFirewallSettings(s)

DefaultSettings == CHOOSE s \in Settings : s.enabled /\ NormalizeRequestFirewallSettings(s)

Never == -1
NewEntry == [active |-> 0, tokens |-> 0, updatedAt |-> Never, lastSeenAt |-> 0]

\* behind: a ghost, a client was admitted or refused by a clock read before the one that
\* its entry was last seen by, or that the entries were last swept by.
NewFirewall == [config |-> DefaultSettings, due |-> TRUE, lastCleanup |-> Never, active |-> 0,
                ips |-> <<>>, apiKeys |-> <<>>, behind |-> FALSE]

-----------------------------------------------------------------------------
(* Entries. *)

EntryFor(entries, id, now) ==
    LET entry == IF id \in DOMAIN entries THEN entries[id] ELSE NewEntry
    IN [entry EXCEPT !.lastSeenAt = now]

Put(entries, id, entry) ==
    [x \in DOMAIN entries \cup {id} |-> IF x = id THEN entry ELSE entries[x]]

Smaller(a, b) == IF a < b THEN a ELSE b

\* A new bucket is full; an old one gains what the time since then is worth. The
\* clock was read before the lock was taken, so that time may be negative.
Refill(entry, now, perMinute) ==
    LET gain == (now - entry.updatedAt) * (perMinute \div TicksPerMinute)
    IN [entry EXCEPT !.tokens = IF entry.updatedAt = Never THEN perMinute
                                ELSE Smaller(perMinute, @ + gain),
                     !.updatedAt = now]

\* Bug: entries with running requests are dropped too.
MutIdle(entries, now) == {id \in DOMAIN entries : now - entries[id].lastSeenAt >= IdleTTL}

Idle(entries, now) ==
    {id \in DOMAIN entries : entries[id].active = 0 /\ now - entries[id].lastSeenAt >= IdleTTL}

Cleanup(fw, now) ==
    IF fw.lastCleanup # Never /\ now - fw.lastCleanup < CleanupInterval THEN fw
    ELSE [fw EXCEPT !.lastCleanup = now,
                    !.ips = Restrict(@, DOMAIN @ \ Idle(@, now)),
                    !.apiKeys = Restrict(@, DOMAIN @ \ Idle(@, now))]

-----------------------------------------------------------------------------
(* Admission. The verdict is open (the firewall is off), in or refused. *)

Verdict(fw, v) == [fw |-> fw, verdict |-> v]

\* One entry's share of an admission: a slot, then a token.
Admit(entries, id, now, limit, rate) ==
    LET entry == EntryFor(entries, id, now)
        full == Refill(entry, now, rate)
    IN IF entry.active >= limit THEN [entries |-> Put(entries, id, entry), in |-> FALSE]
       ELSE IF full.tokens < 1 THEN [entries |-> Put(entries, id, full), in |-> FALSE]
       ELSE [entries |-> Put(entries, id, [full EXCEPT !.tokens = @ - 1, !.active = @ + 1]),
             in |-> TRUE]

Behind(fw, ip, now) ==
    now < fw.lastCleanup \/ (ip \in DOMAIN fw.ips /\ now < fw.ips[ip].lastSeenAt)

AcquireClient(fw0, ip, now) ==
    LET fw == Cleanup(fw0, now)
        late == fw.behind \/ Behind(fw, ip, now)
        try == Admit(fw.ips, ip, now, fw.config.perIP, fw.config.rateIP)
    IN CASE ~fw0.config.enabled -> Verdict(fw0, "open")
         [] fw0.config.enabled /\ fw.active >= fw.config.all -> Verdict(fw, "refused")
         [] OTHER -> IF try.in
                     THEN Verdict([fw EXCEPT !.ips = try.entries, !.active = @ + 1, !.behind = late], "in")
                     ELSE Verdict([fw EXCEPT !.ips = try.entries, !.behind = late], "refused")

AcquireAPIKey(fw0, key, now) ==
    LET fw == Cleanup(fw0, now)
        try == Admit(fw.apiKeys, key, now, fw.config.perKey, fw.config.rateKey)
    IN IF ~fw0.config.enabled THEN Verdict(fw0, "open")
       ELSE Verdict([fw EXCEPT !.apiKeys = try.entries], IF try.in THEN "in" ELSE "refused")

Less(n) == IF n > 0 THEN n - 1 ELSE n

\* A request gives its slot of an entry back.
Release(entries, id) ==
    IF id \in DOMAIN entries THEN [entries EXCEPT ![id].active = Less(@)] ELSE entries

ReleaseClient(fw, ip) == [fw EXCEPT !.active = Less(@), !.ips = Release(@, ip)]

ReleaseAPIKey(fw, key) == [fw EXCEPT !.apiKeys = Release(@, key)]

SetSettings(fw, settings) == [fw EXCEPT !.config = settings, !.due = FALSE]
=============================================================================
