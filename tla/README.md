# Formal models of AiFerry

AiFerry is a relay gateway for OpenAI-compatible APIs. Clients present an API
key, the gateway picks an upstream channel and one of its keys, forwards the
request, converts and restores the answer, and charges the client's account. A
deployment is one *master* with the authoritative database and any number of
*workers*, which serve traffic from a mirror of the master's configuration and
accounts in a local SQLite file and send what they charged back to the master.

This directory holds TLA+ models of the parts of that system where order,
failure and concurrency decide whether it is correct, TLC configurations that
check them on small instances, and TLAPS proofs of the main safety properties
for every instance. `PROJECT.json` maps every definition to the lines it
models.

## 1. Inventory

| Component | State | Operations | Hard behaviour | Correct means |
|---|---|---|---|---|
| Usage ledger (`cluster/usage_*.go`, `ledger.go`, `relay/usage.go`, `user/debit.go`, `apikey/spending.go`) | worker: outbox `usage_logs`, mirrored balances, `ledgerMu`; master: `usage_logs`, `cluster_usage_batches`, balances, key totals | record and debit, flush, ingest, settle, snapshot, deletion of keys, users and nodes | crash between commit and deletion, timeouts with late arrival, batches that grow between retries, snapshots over unsettled charges | no row lost, each charge debited once, snapshots give no money back, every row is settled |
| Configuration sync (`cluster/worker.go`, `state.go`, `master_api.go`, `apply.go`, `nodes.go`) | master: tables, version, fingerprint, registry; worker: mirror, its version, wake channel | Mark, fingerprint scan, poll, notify, snapshot, bootstrap, heartbeat, revoke | snapshot racing a change, crash between mirror and version, lost and late notifications | a worker holds what its version promises, forgets no notification, converges |
| Notification stream (`cluster/transport.go`, `ws_hub.go`, `ws_dial.go`, `notify.go`) | `pushPending`, the push in progress, hub of sessions, send channels | debounced push, register, state message, send, forget, address fallback | reconnects during a push, replaced sessions, full channels, revocation | no gap between state message and pushes, the open session is the one pushed to, pushes arrive |
| Concurrency slots (`relay/concurrency.go`) | counters per channel and key, wake-up channel | acquire, wait, release, sweep | release racing a wait, counters swept while held, different limits | exact counting, limits kept, no lost wake-up, bounded waiting |
| Candidate failover (`relay/service.go`, `credential_retry.go`, `retry_policy.go`) | per request: candidate, excluded keys, retry counter, pass, flow | candidates, keys, same-candidate retries, protocol fallback, recording | retries of several kinds, exhaustion after real calls, a charge that fails after an answer | it ends, pressure is bounded, what is charged is delivered and recorded |
| Routing (`relay/routing.go`, `route_cache.go`, `closed_window.go`, `conversation_affinity.go`, `timewindow`, `channelgroup`) | versioned route cache, memory of conversations | resolve, cache, invalidate, filter, shuffle | a fill racing an invalidation, Redis failures | a request is routed by what was announced before it began |
| Attempts and streams (`relay/protocol_attempt.go`, `stream_failure.go`, `content_guard*.go`, `sensitive_data*.go`, `timeout.go`; `protocol/stream*.go`, `anthropic_stream.go`) | the guard's buffer, held lines, the converter's tool calls, pending placeholders | one step per line of the upstream, timers, write failures | text held in three places, interleaved tool calls, streams that break | the client reads the answer of one upstream, in order, whole when its end was marked |
| Media relay (`relay/audio.go`, `images_edit.go`, `video.go`) | usage row, stored video routes | try each candidate, record, create and ask for tasks | failures before an answer, calls long after the task was made | rows name who answered; tasks keep to their account |
| Channel credentials (`channel/credential*.go`) | keys, versioned pool cache, bindings and their cache, conversation memory, cooldowns | select, bind, replace, disable, create, delete | reads between writes of others, expiry | revoked keys are not handed out, first uses agree, the pool catches up |
| Channel health (`channel/health*.go`, `system/auto_disable.go`, `combo_health.go`, `model_health.go`, `recovery_schedule.go`) | scores, counters, cooldowns, schedules, lock | penalise, disable, test, recover, switch by hand | a process that stops in a test, pauses of different lengths | what is disabled or isolated is tried again |
| API keys, users, redemption, sessions, reveal codes, firewall (`apikey`, `user`, `redemption`, `auth`, `mail/credential_reveal.go`, `requestfirewall`) | rows, the key cache, balance markers, codes, login states, counts and buckets | admit, authenticate, charge, edit, delete, redeem, log in, mail and verify | caches filled with old rows, two uses of one code or state, settings that change under way | codes pay once, the cache follows the keys, admissions are counted and bounded, a login is used once |
| Prices, costs, quotas, scheduler (`channel/price_*.go`, `cost*.go`, `quota*.go`, `workbuddy_checkin*.go`, `pricingcache`, `pricesource`, `usage/billing.go`, `mail/channel_balance.go`, `schedule`) | prices, rules, snapshot, amounts of keys and of the channel, alerts, task register | bill, edit, synchronise, charge, query, alert, check in | loads that overlap, sums of old amounts, mails that fail | requests are billed from the tables as they are, sums are sums, one alert per dip |
| Channel administration (`channel/models.go` and CRUD) | rows of `channel_models` | save a selection | rows that are taken over | what was submitted is what is enabled |
| Settings, dashboards, metadata, mail transport, controllers, generated data access, web console | | | | not modelled, section 7 |

Interactions. A request is admitted by the firewall and authenticated
(`Gateway`), routed (`RelayRouting`), tries the candidates in turn
(`RelayRequest`), for each a key (`CredentialPool`) with a slot (`KeySlots`) and
a call (`RelayStream`, `StreamConverter`), whose outcome changes the channel's
health (`ChannelHealth`) and is recorded in the ledger (`UsageLedger`) at the
price of the snapshot (`ModelPrices`). Every administrative write ends in
`NotifyConfigChanged`, which marks a version and triggers a push
(`ConfigStream`); the push wakes workers, whose sync (`ConfigSync`) drains the
ledger before it replaces the mirror.

## 2. Modules

| Module | Models | Composition |
|---|---|---|
| `UsageLedger` | the ledger of master and workers, one action per transaction or half of an HTTP exchange | implements `ExactlyOnceBilling`, what the ledger promises, by the mapping in `Billing` |
| `ConfigSync` | configuration, versions, snapshots, registry; notifications are unreliable here | |
| `ConfigStream` | how notifications are sent; what is done with them is `ConfigSync`'s | |
| `KeySlots` | the concurrency limit of upstream keys, one action per critical section of `keySlots.mu` | |
| `RelayRequest` | a request over its candidates | uses slots as sets of holders; the outcome of a call is `RelayStream`'s |
| `RelayRouting` | route cache, filters, order, conversation memory, closing windows | |
| `ModelSelection` | which rows a submitted list of models leaves | pure; checked by `MCRelayRouting` |
| `StreamConverter` | conversion between chat, Responses and Messages streams | pure |
| `RelayStream` | one call, line by line | extends `StreamConverter` |
| `SensitiveData` | redaction of a request | pure; checked by `MCRelayStream` |
| `CredentialPool` | `SelectCredential` against the console | |
| `MediaRelay` | its callers for audio, images, video and retries of chat | extends `CredentialPool` |
| `ChannelHealth` | scores, disabling, recovery | |
| `RequestFirewall` | the firewall's state and operations | pure operators under one mutex |
| `Accounts` | users, sessions, codes | extends `RequestFirewall` |
| `Gateway` | keys, their cache, requests, charges | extends `Accounts` |
| `PriceRules` | bills, rules, expressions, names | pure |
| `ModelPrices` | tables, snapshot, synchronisation | extends `PriceRules` |
| `UpstreamAccounts` | what upstreams say of balances and plans | pure |
| `Schedule` | the register of background tasks | pure |
| `ChannelCosts` | charges, cost queries, sums, alerts | extends `ModelPrices`, `UpstreamAccounts` |
| `QuotaQuery` | plans, their cache, the daily check-in | extends `ChannelCosts`, `Schedule` |
| `Settlement` | prices, costs and plans together | extends `QuotaQuery` |
| `MC*` | constants of the instances, and `ASSUME`s that check pure operators over small inputs | |
| `*Proofs` | theorems of `UsageLedger`, `KeySlots`, `ConfigSync`, `ConfigStream`, `RelayRequest`, `RelayRouting` and `RelayStream` (`RelayProofs`), `MediaRelay`, `Gateway`, `Settlement` | |

### Ledger and cluster

*UsageLedger.* A *book* is the accounts of one database. `RecordCharged` is
`recordUsage` on a worker: debit of the mirror and outbox row in one transaction
under `ledgerMu` (`LedgerFree`); `RecordFree` stands for rows that debit
nothing; `RecordAudio` for the audio handlers, which write their row without the
lock; `RecordDropped` for a rolled-back transaction. The `Master…` actions are
the same code on the master. `FlushBegin`, `MasterUsage`, `FlushAck` and
`DeleteRows` are the stages of `flushUsage`, with one step per `DELETE`
statement; `SyncBegin`, `SyncDrain`, `MasterSnapshot` and `ApplySnapshot` those
of `SyncOnce`. `Fail` is a timeout or an error at any stage; a post that was
given up stays in `late` and may be processed at any later time. `Crash` keeps
the databases and loses everything else. `HandleUsage` is the master's
transaction: claim of the batch, insertion of rows not yet present, settlement
of those charged, all or nothing. An amount is an integer; the identifier of a
batch is its set of rows (`stableBatchID` hashes exactly that). `home`,
`outcome`, `billed` and the `debited` and `credited` fields of a book are
history that no code reads.

*ConfigSync.* The content of the configuration tables is the number of changes
made to them, and `seal[v]` is the content at the moment `Mark` committed
version `v`, so that "the mirror holds version `v`" is `mirror >= seal[v]`. A
writer changes the tables (`Change`) and marks afterwards (`Mark`); in between it
may fail or the master may crash. `Fingerprint` and `WatchFingerprint` are the
scan and its evaluation, which are not atomic. A sync reads the version
(`ConfigVersion`), then the tables (`BuildSnapshot`, one transaction), replaces
the mirror (`ApplySnapshot`, one transaction) and records the version
(`PersistVersion`). `Notified` delivers any version up to the current one at any
time.

*ConfigStream.* `triggers` counts committed marks that have not called
`TriggerPush`. The push goroutine is `off`, waiting for its timer (`debounce`) or
sending. `PushLookup` takes the session out of the hub under its lock and
`PushSession` uses it afterwards, so a session may be replaced in between. A
session has a stage (registered, version read, state message sent), a bounded
queue, and the set of versions that were put into it. Session numbers are
recycled once nothing refers to them.

### Relay

*KeySlots.* `entries[c]` are all counters ever allocated for key `c` and
`current[c]` the one in the map, so that a release through the pointer of a
swept counter is visible. The wake-up channel is a flag per request: closing the
channel sets it for everybody who has taken it. `Calls` is the set of arguments,
with different limits because each request carries its own copy of the setting.

*RelayRequest.* `req[r]` holds the local variables of `Handle` and
`attemptChannel`. An action is one leg of their loops: entering a channel,
acquiring a slot, each reason for failing to, the call with one of `Outcomes`,
the protocol fallback, the same-candidate retry, the disabling of a key, the
record with its transaction, and each way out. The credential cooldowns that
end and the client's cancellation are actions of the environment.

*RelayRouting.* The database is a sequence of revisions; a cache entry carries
the revision it was resolved from and whether it has creators (entries of an old
release have none and are not used). `Commit` and `InvalidateRoutes` are
separate, as the version is incremented after the commit, and the increment may
fail. Reading the version, reading the entry, resolving and storing are separate
steps. `announced[v]` is the newest revision committed when version `v` was
reached. `RelayProofs` extends this module and `RelayRequest`, which is why its
initial states and steps are named `StartRouting` and `RoutingStep` here; `RelayStream`
has `StartStream` and `StreamStep` for the same reason.

*RelayStream* with *StreamConverter* and *SensitiveData.* Text is a sequence of
symbols; a leaked mark and a placeholder have two halves so that they can be cut
by a line. `ReadLine` passes one line of the upstream through error detection,
guard, conversion, restoring and holding back; timers, breaks, failed writes and
the next candidate are actions. `client` is what the client has read,
`up.said` what the upstream has said, and `senders` the calls whose bytes the client
has received; `client` and `senders` are history.

*CredentialPool* and *MediaRelay.* Each call of the database or of Redis in
`SelectCredential` is a step. A request remembers which keys had been revoked
when it began. The handlers' loops take the key they are given; `Polling` is the
later calls about a video with the stored route. `FirstUseAgrees` speaks of
handlers that take the binding of the API key; a chat request replaces it at will.
Calls of Redis that write the pool or its version succeed in the model; the code
discards their errors (`credentials.go:467`, `:499`), and a key revoked while an
increment fails is served from the pool until that expires. `Auth` is how a channel's
type authenticates; `creator` is history: the accounts at which the caller had a task
of an identifier made, which may be several, as identifiers are the upstreams'.

*ChannelHealth.* A moment is a distance that is counted down or up, so no clock
is a variable. `Round` is the recovery job of one process: it lists what is due,
takes a lock, tests and finishes; a crash leaves lock and schedule. `Relay` is
what requests do to scores, `Admin` what the console does, the choice of the test
model (`channel.tested`) included. The switches of the system's settings are on:
without them no round runs.

### Accounts and money

*Gateway*, *Accounts*, *RequestFirewall.* Every API call is a process: `Ask`
says what it wants, `pc` how far it is, `mem` what it has read. A transaction is
one step, a read outside of it an earlier one, a Redis command another. A charge
holds the rows of user and key (`Held`) from its statements to its commit, so
that the deletion of the cache entry inside it is visible. Redis may refuse to delete an
entry (`Deletions`); the caller of an edit then hears of it, a charge goes on. The firewall's clock is
read before its mutex is taken, in a step of its own; `behind` is history: it says
that a request came to its bucket with a clock older than the one the bucket was
last seen by, or the buckets were last swept by.

*Settlement* and what it extends. The same shape: `Ask` and `pc`. A write of a
price is followed by a load of the snapshot in three steps (prices, rules,
store); a synchronisation reads without a lock before its transaction; the
channel's sum is read in one step and written in another, and a query may fail at
either or while it saves a credential. `late` on the snapshot and the channel is history:
it says that an overlap the code does not order, or such a failure, has left an older
value behind, and the properties speak of states without it. A billing expression is
expanded level by level, each node in the place of its parent, which gives the
branches in the order of the code's recursion (`MaxNesting` bounds the levels). A
schedule becomes a window the way `parseBillingScheduleCondition` reads it
(`ParseBillingSchedule`): hours as spans of which one that ends at 24 can be read by
nobody (`HoursUnread`), days by their last bounds (`ParseBillingWeekdays`).
`ScheduleHolds` is what the schedule says instead, and `Expressible` selects the
expressions and times for which both agree; the property is about those, and the others
are remarks of section 4. The notices of a low balance run in goroutines of their own in
the code; here they are the last steps of the charge or query.

## 3. Runs

| Run | Instance | Shows |
|---|---|---|
| `ledger` | 1 worker, 2 requests, 2 faults, batches of 2, deletions of 1 row, a top-up; key, user and node removable | no row lost, exactly once, mirror covers spending, refinement of `ExactlyOnceBilling`, every row is settled unless something it needs was removed |
| `ledger_deleted_key` | 1 request, no fault | **violated**: section 4 |
| `config_sync` | 1 worker, 2 changes, 2 versions, 1 fault of the worker and 1 of the master, 1 edit in the database, 1 removal | a version is never claimed before it is held; no notification is forgotten; polling alone brings every change to a worker that stays registered |
| `config_stream` | 1 node, 2 sessions at a time, 2 versions, channel of 1, 2 faults of the node and 1 of the master, 1 revocation, 1 manual sync | no gap, the open session is reachable, pushes arrive |
| `key_slots` | 2 requests, 2 keys, limits 1 and none, exclusions, cooldowns, 2 counters per key | counting, limits, wake-ups, every acquisition returns |
| `relay` | 1 request of either kind, 2 channels (one without limit and with 2 addresses, one with 2 keys of 1 slot each that others take too), 11 outcomes of a call | the request ends, pressure is bounded, nothing is replayed after output, what is charged is delivered, what is delivered is recorded |
| `routing` | 2 requests of one conversation, 2 channels, 2 writes out of 3, 1 Redis fault, a closing window, an entry of an old release | routes follow writes, entries follow their version; the pure checks of `ModelSelection` and of the lottery |
| `streams` | 11 scenes (client and upstream protocol, guard, redaction, tools, buffered), up to 4 lines | order, completeness, one upstream; the pure checks of `SensitiveData` |
| `health` | 1 credential, 2 models of which one is edited and the other asked for, 1 request, 1 event of console or crash, scores up to 1 | the disabled and the isolated are tried again |
| `media` | 2 channels of different authentication, 2 keys and one made later, 2 requests in 6 mixes of handlers, 1 write of the console, 1 task identifier | revoked keys, first use, rows, tasks, the pool catches up |
| `accounts` | 4 calls at a time in 15 mixes, 2 users, 2 keys, 2 codes, 3 firewall settings | codes pay once and balances add up, the cache follows the keys (also while its owner is deleted), admissions are counted and bounded, logins are used once |
| `costs` | 3 calls at a time in 16 mixes, 2 models, 5 sources with 2 billing expressions, 2 credentials, 2 thresholds | snapshot, rules against the expression they come from, sums, alerts; the pure checks of bills, of the task register, of spans and days, and of all small trees of conditions |

Sizes: `routing` 1.57 million distinct states under the symmetry of its requests,
`config_sync` 575 000, `ledger` 473 000, `key_slots` 454 000, `media` 441 000,
`relay` 302 000, `config_stream` 294 000, `health` 259 000, `streams` 178 000,
`accounts` 168 000, `costs` 158 000; `key_slots` and `health` take two to three minutes, the rest less.

Bounds. Two faults let a post be lost and its retry crash, or a crash hit
between two deletions after a lost acknowledgement; batches of two and two
requests let a batch grow between retries; one account that covers one charge
makes local balances run out while the master's do not. One worker is enough for
the ledger: batch identifiers and rows carry the node's name, so workers meet
only in the master's balances, which the master's own requests change as well;
the proofs cover any number. Two changes and two versions let a change, its mark
and another change surround every stage of a sync; two sessions at a time are a
session and its replacement. Two counters per key are one and the one that
replaces it. Two writes and two requests are what `routing` needs for an entry
that is resolved before a write and stored after the next. In `relay` one request
is enough because others act on it only through slots, cooldowns and disabled
keys, which the environment changes at any time. Four lines hold a mark cut in
two with text before and after it, or two interleaved tool calls. In `accounts`
and `costs` each mix is a set of calls that meet in a row, a cache or a marker;
calls that share nothing are not combined. In `accounts` an idle entry lives at
least as long as its bucket takes to fill (`IdleTTL >= TicksPerMinute`), as in
the code (ten minutes and one). `CHECK_DEADLOCK FALSE` is set where
the bounds, not the program, end a behaviour.

Fairness. Liveness is checked under weak fairness of the steps the code itself
schedules: tickers, goroutines that can run, timers, and code that holds a lock.
It assumes that a worker process is restarted and that the master answers what
reaches it; it assumes nothing of clients, administrators or notifications.
`config_sync` assumes only the worker's own loops (`PollSpec`): convergence
depends neither on marks nor on the fingerprint. In `relay` a call that was begun
ends, since it has a time limit. In `health` the round and the clock go on. In
`media` only the expiry of a cached pool is fair: the handlers may stop anywhere.
In `key_slots` no fairness is given to `Release`: an upstream may keep its slot for
ever. Faults are finite in number, not fair.

## 4. Finding

*A deleted key stops a worker's sync* (`ledger_deleted_key`). `SyncOnce` must
drain the outbox first, and the master rejects the whole batch when a charged
row belongs to a key that was deleted meanwhile. The rows are posted again for
ever, no snapshot is applied, and the worker goes on serving the deleted key,
although `worker.go:280` says the timed poll guarantees convergence.

### Remarks

What follows was noticed while modelling. The models contain the behaviour, and
the properties are stated so that they hold with it; no run is dedicated to it.

Cluster:
- Retention (`usage/cleanup.go:120`) deletes by age rows that make ingestion
  idempotent; a worker that was away may repeat them in a batch with a new
  identifier and they are billed again (`docs/cluster.md:101` excludes that).
- `WatchFingerprint` stores the new fingerprint before it marks (`state.go:106`);
  a failed mark, or a restart of the master, is not made good. The mirror still
  converges by polling; the version, the push and the staleness shown do not.
- `sendHeartbeat` waits for 404 (`worker.go:363`), the master answers 401 for a
  missing row: a forgotten node does not register again.
- A mark while a push is sending finds `pushPending` set (`transport.go:30`) and
  is pushed to nobody; the poll brings it later.
- `OutboxMaxRows` is documented to drop the oldest rows; the code only warns.
  Keeping them is what `NoRowLost` needs.

Relay:
- `concurrencyExhausted` is documented to mean that nothing was sent upstream;
  it is also set after calls with earlier keys (`credential_retry.go:131`).
- `Chat` always passes a non-nil set of excluded keys (`service.go:205`), so the
  binding of an API key is used only by the other handlers.
- `model_quality.go:33` does not know the end mark of a Messages stream, so a
  converted Messages answer that ended is judged truncated.
- Converting Responses or Messages for a client doubles text or arguments in some
  repeated deltas (`stream_toolargs.go:116`), and a final object built from Messages
  holds the text twice; `event:` lines of converted streams are not restored;
  text in the guard at the end of a stream is dropped.
- `converter.Complete()` runs before the scanner's error is looked at, so that a
  broken stream can end with a completed frame.
- A list of models in which a new mapping precedes an existing one of the same
  upstream model takes over its row, and the existing mapping is lost
  (`models.go:46`; `KeepsRows` in `ModelSelection` excludes it).
- Two first requests of a conversation each remember an order; the later write
  stays.
- The version of the cached pool of keys is not incremented by a recovery or a
  creation (`auto_disable.go:340`); `PoolCatchesUp` rests on the expiry.
- The creation of a video is neither recorded nor billed; audio rows are not
  debited.
- The pause of a daily quota covers the combinations that exist at that moment,
  and a later failure shortens it to five minutes; `RecoverCredentialIfAllowed`
  asks only for the status and undoes a manual disabling. A combination is isolated
  again by the daily quota of another model of its key.
- A disabled key of a channel whose configured test model is disabled is passed over by
  every recovery round, although other models are enabled (`health_model.go:18`,
  `health.go:195`; `health_model_test.go:31` expects the selection to be empty), while
  `health.go:74` wants recovery to test again whatever was disabled.
  `AutoDisabledIsRetried` excepts it.
- A video file at another origin is fetched with the management key of a channel that
  authenticates with one: `video.go:296-301` clears the other fields only
  (`relay/upstream_auth.go:35`), while `docs/video-adapter.md:43` says "成品文件与渠道不同源时自动去掉渠道代理/凭证".
  `TaskReachesItsAccount` states what holds, that no key of the pool goes there.
- A route is stored under the identifier the upstream gave (`video.go:598`): two
  upstreams with the same identifier overwrite each other's route.

Accounts:
- A reader can refill the key cache with what it read before an edit
  (`authentication.go:65`) and a charge deletes the entry before it commits
  (`spending.go:74`); the entry then stays old for its five minutes (`late` in
  `Gateway`). A key created while its user is deleted keeps its entry; changes of
  role or group never touch the cache. The balance marker is not cleared by a debit.
- The firewall's clock is read before its lock is taken (`requestfirewall/service.go`): a
  request that waited is refilled with a negative time, which takes tokens away, and
  moves `lastSeenAt` back, by which a sweep then drops an entry early; a dropped bucket
  is full again (`behind` in `RequestFirewall`).
- An entry that Redis refuses to delete stays until it expires.
- `syncUser` writes the role it read before, over a concurrent manual grant; two
  administrators can delete each other.
- Two verifications of one mailed code can both succeed; a mail that fails late
  deletes a newer code.

Prices and costs:
- Two loads of the snapshot that overlap can leave the older one; a load that
  fails leaves it as it was. A synchronisation can overwrite a manual price saved
  after its read; a zero entry of one source removes the rules of another.
- Conditions of a billing expression that are not read as they are meant, so that the
  model is billed by another branch: hours to the end of the day become a window that
  ends at "24:00" (`price_expr_condition.go:208` says "24:00 表示一天结束"), which the
  reader refuses (`window.go:225`; `docs/time-based-pricing.md:47` says "不支持 `24:00`"),
  so the rule never matches; of days joined by "or" the last is read, days around the
  end of a week and strict bounds are read as every day
  (`price_expr_condition.go:165-199`); a schedule nested in a branch loses the hours of
  the outer one. `MCSettlement` checks the first two as they are (`SpansAreReadAsMeant`,
  `OtherDaysAreReadAsOthers`), `Expressible` excepts all of them.
- `docs/time-based-pricing.md:80` says that the synchronisation writes no times into
  conditions, and `docs/price-sync.md:102` that lengths below a schedule are only
  covered; the code writes times, and prices lengths below a schedule as meant
  (`TreesArePricedAsMeant`).
- Sums of a channel can be written over newer ones, and a deleted credential's
  amount stays in the sum until the next query.
- A save that fails in a query leaves the channel's sum behind its credentials'
  until the next one, as does a sum that cannot be read or written, or a key whose
  identity cannot be filled in before it is asked with (`late`);
  a daily query forgets it with its next attempt, so in `costs` its saves succeed.
- The daily query always makes three attempts; the check-in job also claims when
  the status could not be read; the shown time of an hourly task after 23 o'clock
  is midnight although it starts later (`schedule.go:180`).

## 5. Proofs

TLAPS checks `UsageLedgerProofs`, `ConfigSyncProofs`, `ConfigStreamProofs`,
`KeySlotsProofs`, `RelayProofs`, `MediaRelayProofs`, `GatewayProofs` and
`SettlementProofs` for every value of the constants that the named assumptions admit:
any number of nodes, requests, keys, channels, users, codes, calls and faults.

*Ledger.* `TypeCorrect`: types. `LedgerSafe`: `LedgerInv` is inductive relative
to the types. None of the properties is inductive alone: that a row may be
deleted needs to know that an acknowledged batch is durable
(`AckedRowsAreDurable`), which, for a replayed batch, needs every claimed batch
to be durable; that a snapshot covers the worker's spending needs a due charge
to be in the outbox or on the master (`ChargesTravel`) and the outbox to be
empty when the snapshot is asked for, which the lock (`LockHeld`) guarantees; and
that a row is debited once needs debits and rows to go together
(`DebitsMatchLogs`). `RowsAreNeverLost`, `BillingIsExactlyOnce` and
`SnapshotsKeepSpending` follow. Assumptions: the constants have their types and
the requests are finitely many.

*Ledger, the money.* `BalancesAddUp` (`AccountsAddUp`): in every database a user's
balance is what was credited minus the cost of the rows debited there, and the
spending of a key is the cost of its rows. `LedgerImplementsBilling`: the ledger
implements `ExactlyOnceBilling`, step by step. There, `owed` is what is due and not
yet debited on the master and `paid` what is. A worker's `RecordCharged` is `Serve`,
the master's is `ServeAndSettle`; `HandleUsage` is `Settle` of the rows of the batch
that are debited by it, or nothing when the batch was claimed before; a top-up is
`Deposit`; every other step stutters, whatever it posts, loses or deletes. The sums
are folds over sets. What a fold over a set with one more element is cannot be had
from the library's induction theorems; here it is proved by a least
counterexample: if a set had a sum that depends on the order of its elements, one
of least size (`LeastSet`) would, and taking two elements out of it in either order
leaves a smaller one.

*Configuration.* `SyncSafe`: `SyncInv` is inductive. The version a reply carries
was read before its content (`InTransit`), marks only add versions above the
current one, and every sealed content is at most the current one, so what is
applied holds both the version that is recorded afterwards and the one that was
recorded before. A notification heard while a reply is in transit either is
covered by it or left a token. `MirrorsCoverVersions` and `NotificationsAreKept`
follow.

*Notifications.* `StreamSafe`: `StreamInv` is inductive. A push looks a session up
and uses it later; what it misses are the sessions registered in between. The hub
has the only open session of a node (`OpenSessionIsReachable`), so at the lookup
all others are closed, and one that registers afterwards reads a version that is
at least the one being pushed (`LateSessionsAreCovered`): when the push is done
with a node, every session of it was sent that version or a newer one, will send
one as its state message, or is closed. `StreamsHaveNoGap` follows.

*Slots.* `SlotsSafe`: `SlotsInv` is inductive: the counter in the map counts the
holders, every holder's pointer is that counter (a counter with holders is not
idle and is not swept), and what a request remembers as full has been full since
its channel was taken (`Remembered`). `SlotsAreAccounted`, `WakeupsAreNotMissed`
and the action property `GrantsAreWithinLimit` follow.

*Routing.* `RoutingSafe`: `RoutingInv` is inductive. The crux is that a version
is announced once: only the increment writes `announced`, and it writes the entry
of a version nobody has read yet (`version + owed <= revision` bounds it), so what
a request compares itself with cannot change under it (`VersionsAreFinal`). A
route resolved under a version is then as new as that version
(`RoutesAreFresh`), and so is the entry it is stored in, however late
(`EntriesAreFresh`). `RoutesFollowWrites` and `EntriesAreAsNewAsTheirVersion`
follow. Assumptions: the constants have their types, and a channel is one of finitely
many (`RoutingConstants`).

*Requests.* `RequestsSafe`: `RequestInv` is inductive. Requests meet in cooldowns,
disabled keys and slots, and none of the three properties depends on those, so the
invariant is one formula about one request (`RequestSafe`). Output is always the
end of the attempts: from the first byte on the request is in a stage behind the
attempts and its kept result is the one that wrote (`OutputIsFinal`); a result
that is kept ended its attempt (`ResultIsKept`); a charge exists only while an
untruncated answer is on its way, or delivered (`ChargeIsForAnswer`).
`ChargesAreDelivered`, `AnswersAreRecorded` and the action property
`OutputIsNeverReplayed` follow. The assumption (`RelayConstants`) is what an outcome
may be: a buffered call writes nothing before it is judged, and a call without a
usable response is a transient failure that wrote nothing; and what a candidate is:
there is one (`Handle` refuses an empty list), with at least one address and finitely
many keys.

`PressureIsBounded` rests on an invariant of its own (`Pressed`). The bound on the
calls of a visit is two per address for every key and for three repeats, but the
state between two keys allows only those that are spent: the keys excluded and the
repeats made (`Spent`, `Worth`). The key in use is neither excluded nor counted, so
its calls fit under the bound as well, and when it fails it is excluded. The one step
that gives something back is the repeat that takes the last key out of the
exclusions (`RepeatStep`): it costs a repeat, so `Spent` does not fall.

*Streams.* `AnswerComesFromTheAttempt`: `AnswerInv` is inductive. Whoever the client
has heard is the attempt in use, and an attempt that was heard has said so in its
result, or the request is over. Every stage of the pipeline, whatever lines it passes
on, either writes nothing or marks the result as written in the same step (`Written`
and the lemmas after it, one for each way a line or an ending can take); a result that
wrote is handled when it is judged, so neither the fallback nor the next candidate is
taken. `OneAttemptAnswers` (`OneUpstreamAnswers`) follows. No assumption about the
upstream is made.

*Keys and media.* `RequestsSafe`: `Typed`, `RevokedInv` and `RowInv` are inductive
together. Every increment of the version was announced by a change of a key, so
there are at most as many. A key that is written off may be in the pool of the
current version only until the console's call is over (`Clean`), later versions have
no pool yet, rows on their way into the current pool are clean, and a call that
began after the change does not hold the key at any of its steps (`Unrevoked`);
hence `RevokedKeysAreNotServed`. `RowInv` follows the key a handler answers with into
the row it writes (`RowsNameTheAnswerer`). `FirstUsesAgree`: while nothing
changes, every call sees exactly the enabled keys, a binding once made stays and the
cache repeats it (`SteadyInv`, `FirstUse`). The proof showed that the property was
too strong: a chat request, which ignores and overwrites the binding, can come
between two others, so it now speaks of mixes without one.
`TasksReachTheirAccounts` (`TaskInv`): what is pending in the creating request, what
is stored as the route and what a later call has copied all lead to an account at which
the caller had a task of this identifier made (`creator`); of an address of another
origin it says that no key of the pool goes there, which the management key is not.
Assumptions: channels and mixes have their types, and neither `None` nor `Management` is
a key of the pool (`PoolAssumption`, `MediaAssumption`).

*Accounts.* `CallsAreCalls`: what a call asks for never changes and the steps of a
call are those of its operation; it makes every other proof one of a few steps.
- `LoginStatesAreUsedOnce` (`LoginInv`): a state somebody took is gone, nobody else
  took it, and its login is past the step that would store it again.
- `CacheFollowsTheKey` (`CacheInv`): an entry that is not `late` equals the row in what
  it carries, or somebody is about to clear it, or its owner's deletion listed the keys
  before this one was made; and nobody knows a key that is not born. One
  case each for the reader who fills, the edit that clears after it wrote, the charge
  that clears before it commits, and the deletion of the owner.
- `CodesArePaidOnce` (`CodeInv`, `RowsInv`, `BalanceInv`): a used code names its one
  redeemer; the rows that requests and the cache hold belong to their keys, so that
  the user charged is the user of the request; a charge holds its rows alone and the
  balance covers it; and the balance of a user no administrator touched is what was
  there, plus the codes redeemed, minus the charges.
- `AdmissionsAreAllCounted` (`FirewallInv`): the counts, in all, by address and by key,
  are the requests inside. A sweep drops only entries without running requests, and
  settings that change or are off in between neither count twice nor forget.
- `AdmissionsAreAllBounded` (`RateInv`): the rate. While no request was behind, the tokens
  left in an address's bucket and the requests it was let in with are together worth no
  more than a full bucket and the time up to when it was last seen, at the highest rate
  of settings that may be saved (`Filled`). An address without an entry was let in
  no more often than the time up to the last sweep is worth (`Bucket`), which leaves
  the new, full bucket to be paid for: a sweep drops only what was idle for `IdleTTL`,
  which is as long as a bucket takes to fill. Settings may change at any time; each was
  normalised before it was saved (`SettingsSaved`), and no clock that is in use is ahead
  of the time (`Timed`).
Assumptions: the calls and codes are finitely many, requests charge the owner of the
key, a created key or code is a new one (their names are random in the code), and
prices are not negative. For the firewall
(`FirewallAssumption`): some settings are enabled and normal, as the defaults are; a
rate is a whole number of tokens per tick, so that tokens are integers; and
`IdleTTL >= TicksPerMinute`. The exception for `behind` is the code's: a
request that is late at its bucket, or after a sweep, is refilled and swept by times that
have passed, and with settings that change in between no bound of this form is left.

*Prices and alerts.* Every step of `Settlement` moves one call (`OnlyCall`) and is
about the tables, about the reminders or about neither (`StepsOfCalls`).
- `BillsFollowTheTables` (`SnapshotInv`): in every state some call is on its way to
  loading the snapshot or failed to, or the snapshot is late, or it is the tables.
  Whoever writes a price or a rule goes on to load it in the same step, so the tables
  never differ from the snapshot with nobody coming; a load that stores what it read
  earlier is either current or `late`, and one that fails says so in its result.
- `OneMailPerDip` (`AlertInv`): the mails sent about a threshold and the calls about
  to send one are together at most its recoveries, and one more while its key is set.
  Setting the key and becoming a sender are one step, a mail turns a sender into a
  mail sent, and a key cleared by a recovery is counted there. A mail that reaches
  nobody clears the key and ends the sender; should the key have recovered meanwhile
  and been set again by another call, it is that call's key it clears, and the bound
  holds all the same.
- `SumFollowsTheAmounts` (`CostInv`): where the amounts are asked with keys, the channel
  shows its credentials' sum, or is `late`, or a call is on its way to writing the sum.
  A query that has saved a credential has found a key (`KeyFound`), so it cannot take the way
  out that writes no sum; one that fails after it saved sets `late`, and a sum that was
  read before another call's amounts is compared with them when it is written.
  The sum itself is used only as a function of the amounts (`Costs`); what it computes is
  checked by TLC (`SummaryAddsAmounts`).
Assumption (`CostAssumption`): the calls are finitely many, the thresholds numbers,
and the credentials that are there at the start are rows of the table; at most one
threshold is then the lowest (`OneLowest`).

Only model-checked: the eight liveness properties (the prover handles neither fairness nor
`ENABLED`); three safety properties that speak of what a fold computes over data
of any length, which would need induction over data:
`RulesPriceLikeTheExpression` (the branches of an expression), `TextInOrder` and
`MarkedEndDeliversAll` (texts put together over the lines of a stream); and the pure
algorithms.

## 6. Plan

What would come next, in this order: the retention job as an action of `UsageLedger`; the
conversion of request bodies and buffered answers against `StreamConverter`;
`CredentialPool` and `KeySlots` under one request of `RelayRequest`.

## 7. Not modelled

Request signing is a pure check whose outcome appears as the node's status.
Settings are a key/value store; the values that matter are constants or actions
of the models that read them. Dashboards and listings only read. Request shaping
for providers, JSON rewriting, the conversion of request bodies and buffered
answers, multipart parsing, the lexical form of price expressions, mail
transport, IP location, encryption, generated data access and the web console
are I/O, string processing or CRUD without state that several actors share.
Times are not quantities except where a count of ticks matters (firewall, health,
routing, schedule): elsewhere a timer may fire at any point after it was set.
The retention job of the usage rows is left out of `UsageLedger` (section 4).
