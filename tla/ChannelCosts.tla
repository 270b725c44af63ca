------------------------------ MODULE ChannelCosts ------------------------------
(***************************************************************************)
(* What a channel has cost and what is left of its balance: the query of   *)
(* its upstream, by an administrator or by the daily job, per credential   *)
(* or for the whole channel (src/internal/logic/channel/cost.go,           *)
(* cost_storage.go, cost_schedule.go), the amount of every request charged *)
(* to its credential in between (cost_tracking.go), the channel's sum over *)
(* its credentials, and the mails about a low balance                      *)
(* (src/internal/logic/mail/channel_balance.go).                           *)
(*                                                                         *)
(* One channel. A charge holds its credential's row; nothing else is done  *)
(* in a transaction, so the sum is read in one step and written in         *)
(* another. The rows of history the queries add are never read here, and   *)
(* whether a failure disables a credential is module ChannelHealth's: here *)
(* it may. Ask[c].type is the configuration of the channel's type.         *)
(***************************************************************************)
EXTENDS ModelPrices, UpstreamAccounts
LOCAL INSTANCE SequencesExt
LOCAL INSTANCE FiniteSetsExt

CONSTANTS
    Credentials,     \* the credentials by id
    StartCredentials,\* credential -> its row
    Says,            \* credential, or None -> what its upstream may say of its account
    Thresholds       \* of the mails about a low balance

Creds == Range(Credentials)

ASSUME CostAssumption ==
    /\ IsFiniteSet(Calls) /\ Thresholds \subseteq Int
    /\ DOMAIN StartCredentials = Creds
    /\ \A k \in DOMAIN StartCredentials :
          DOMAIN StartCredentials[k] = {"there", "enabled", "by", "own", "cost"}

VARIABLES
    creds,    \* credential -> [there, enabled, by, own, cost]; cost a view without usage
    channel,  \* the channel's row: [cost, late]
    alerts    \* [keys, mails, recovered]: the reminder keys; a threshold's mails and recoveries

costVars == <<creds, channel, alerts>>

Cost(view) == [k \in DOMAIN view \cap {"used", "remaining", "currency"} |-> view[k]]
NoCost == [currency |-> ""]

Costs(rows) == [k \in Creds |-> IF rows[k].there THEN rows[k].cost ELSE NoCost]

\* The amounts of the credentials by currency; a credential without one has no cost yet.
ChannelCostSummaries(costs) ==
    LET known == SelectSeq([i \in DOMAIN Credentials |-> costs[Credentials[i]]],
                           LAMBDA v : v.currency # "")
        Of(name) == LET same == SelectSeq(known, LAMBDA v : v.currency = name)
                    IN Join([currency |-> name],
                            Join(AddQuotaValues(same, "used"), AddQuotaValues(same, "remaining")))
    IN {Of(known[i].currency) : i \in DOMAIN known}

\* Amounts of two currencies have no sum.
SingleSummary(costs) ==
    LET sums == ChannelCostSummaries(costs)
    IN IF Cardinality(sums) = 1 THEN CHOOSE v \in sums : TRUE ELSE NoCost

StartCosts ==
    /\ creds = StartCredentials
    /\ channel = [cost |-> SingleSummary(Costs(StartCredentials)), late |-> FALSE]
    /\ alerts = [keys |-> {}, mails |-> [t \in Thresholds |-> 0], recovered |-> [t \in Thresholds |-> 0]]

-----------------------------------------------------------------------------
(* The charge of a request.                                                 *)

TracksUSDCost(currency) == currency \in {"", "USD"}

\* A balance does not go below zero.
ApplyTrackedCost(cost, amount) ==
    Join([currency |-> "USD", used |-> Or0(cost, "used") + amount],
         IF "remaining" \in DOMAIN cost THEN [remaining |-> Larger(cost.remaining - amount, 0)] ELSE <<>>)

\* Bug: the charge does not reach the channel's sum.
MutApplyCredentialUsageCost(c) ==
    LET k == Ask[c].cred
    IN /\ At(c, "charge", "start")
       /\ creds' = IF creds[k].there /\ TracksUSDCost(creds[k].cost.currency)
                   THEN [creds EXCEPT ![k].cost = ApplyTrackedCost(@, Ask[c].amount)] ELSE creds
       /\ End(c, "ok")
       /\ UNCHANGED <<Ask, priceVars, channel, alerts>>

ApplyCredentialUsageCost(c) ==
    LET k == Ask[c].cred
    IN /\ At(c, "charge", "start")
       /\ IF creds[k].there /\ Ask[c].amount > 0 /\ TracksUSDCost(creds[k].cost.currency)
          THEN /\ creds' = [creds EXCEPT ![k].cost = ApplyTrackedCost(@, Ask[c].amount)]
               /\ Go(c, "sum") /\ UNCHANGED mem
          ELSE End(c, "ok") /\ UNCHANGED creds
       /\ UNCHANGED <<Ask, priceVars, channel, alerts>>

-----------------------------------------------------------------------------
(* The query.                                                               *)

Querying(c) == Ask[c].op \in {"cost", "daily"}

\* The upstream is asked with the keys of its accounts.
Keyed(c) == Ask[c].type.auth \in {"channel_key", "management_key"}

\* The daily job queries three times, whatever came of it. A charge ends here, too.
Answered(c, result) ==
    IF Ask[c].op # "daily" THEN End(c, result)
    ELSE /\ Go(c, IF mem[c].n < 2 THEN "query" ELSE "finish")
         /\ mem' = [mem EXCEPT ![c] = [Start EXCEPT !.n = mem[c].n + 1]]

\* With a management key: the credentials with their own, and the channel's key once, in
\* place of the first without.
ManagedBy(rows) ==
    LET first == SelectSeq(rows, LAMBDA k : ~creds[k].own)
    IN IF rows = <<>> THEN <<None>>
       ELSE FoldLeft(LAMBDA q, k : IF creds[k].own THEN Append(q, k)
                                   ELSE IF k = Head(first) THEN Append(q, None) ELSE q, <<>>, rows)

\* on: the period asked for is one. mem.plan: a key to ask with was found.
QueryCost(c) ==
    LET rows == SelectSeq(Credentials, LAMBDA k : creds[k].there)
        auth == Ask[c].type.auth
        queue == CASE auth = "channel_key" -> rows
                   [] auth = "management_key" -> ManagedBy(rows)
                   [] OTHER -> <<None>>
    IN /\ At(c, "cost", "start") \/ At(c, "daily", "query")
       /\ IF ~Ask[c].on \/ Ask[c].type.adapter \in {"", "none"} \/ queue = <<>> THEN Answered(c, "refused")
          ELSE /\ Go(c, "ask")
               /\ mem' = [mem EXCEPT ![c].queue = queue,
                             ![c].plan = auth # "management_key" \/ rows = <<>>]
       /\ UNCHANGED <<Ask, priceVars, costVars>>

QueryCredentialCost(type, a) ==
    CASE a.status # 200 -> Failed(a.status)
      [] a.status = 200 /\ type.adapter = "openai_costs" -> OpenAICosts(type, a)
      [] a.status = 200 /\ type.adapter = "sub2api" -> Sub2API(type, a)
      [] a.status = 200 /\ type.adapter = "newapi" -> NewAPICosts(type, a, a.items[1], a.items[2])
      [] a.status = 200 /\ type.adapter = "custom_json" -> CustomJSON(type, a)
      [] a.status = 200 /\ type.adapter = "siliconflow" -> SiliconFlow(type, a)
      [] a.status = 200 /\ type.adapter = "openrouter" -> OpenRouterCredits(type, a)
      [] a.status = 200 /\ type.adapter = "qiniu_costs" -> QiniuCosts(type, a)
      [] a.status = 200 /\ type.adapter = "qiniu_usage" -> QiniuUsage(a)
      [] a.status = 200 /\ type.adapter = "workbuddy" -> WorkBuddyCosts(a)
      [] OTHER -> Failed(0)

\* A failure may disable the credential, but for a WorkBuddy account.
ApplyCostHealthCheck(c, k) ==
    \/ UNCHANGED creds
    \/ /\ k # None /\ Ask[c].type.adapter # "workbuddy"
       /\ creds' = [creds EXCEPT ![k].enabled = FALSE, ![k].by = "relay_request"]

\* mem.ok: some key was answered.
AskUpstream(c) ==
    LET k == Head(mem[c].queue)
        found == mem[c].plan \/ k # None
    IN /\ Querying(c) /\ pc[c] = "ask" /\ mem[c].queue # <<>>
       /\ \E a \in Says[k] :
             LET view == QueryCredentialCost(Ask[c].type, a)
                 shared == k = None /\ Ask[c].type.auth = "management_key"
             IN IF IsFailed(view)
                THEN /\ ApplyCostHealthCheck(c, k)
                     /\ Go(c, "ask")
                     /\ mem' = [mem EXCEPT ![c].queue = Tail(@), ![c].plan = found]
                ELSE /\ IF shared
                        THEN Go(c, "ask") /\ mem' = [mem EXCEPT ![c].queue = Tail(@), ![c].ok = TRUE]
                        ELSE /\ Go(c, "save")
                             /\ mem' = [mem EXCEPT ![c].answer = Cost(view), ![c].plan = found]
                     /\ UNCHANGED creds
       /\ UNCHANGED <<Ask, priceVars, channel, alerts>>

\* Before each key of its own the row's identity is filled in; a query that cannot breaks off.
EnsureMetadataFails(c) ==
    /\ Querying(c) /\ pc[c] = "ask" /\ mem[c].queue # <<>>
    /\ Ask[c].fails /\ Ask[c].type.auth = "channel_key"
    /\ Answered(c, "metadata_failed")
    /\ channel' = [channel EXCEPT !.late = TRUE]
    /\ UNCHANGED <<Ask, priceVars, creds, alerts>>

\* The answer replaces the row's amounts, what was charged since it was given included; a
\* query that cannot save breaks off, and the channel's sum with it.
SaveCredentialCostResult(c) ==
    LET k == Head(mem[c].queue)
    IN /\ Querying(c) /\ pc[c] = "save" /\ k # None
       /\ \/ /\ creds' = [creds EXCEPT ![k].cost = IF creds[k].there THEN mem[c].answer ELSE @]
             /\ Go(c, "ask")
             /\ mem' = [mem EXCEPT ![c].queue = Tail(@), ![c].ok = TRUE, ![c].answer = None]
             /\ UNCHANGED channel
          \/ /\ Ask[c].fails /\ Answered(c, "save_failed")
             /\ channel' = [channel EXCEPT !.late = TRUE]
             /\ UNCHANGED creds
       /\ UNCHANGED <<Ask, priceVars, alerts>>

\* Without any authentication the answer is the channel's.
SaveChannelCostResult(c) ==
    /\ Querying(c) /\ ~Keyed(c) /\ pc[c] = "save"
    /\ \/ /\ channel' = [cost |-> mem[c].answer, late |-> FALSE]
          /\ Go(c, "notify") /\ mem' = [mem EXCEPT ![c].queue = <<>>, ![c].answer = None]
       \/ Ask[c].fails /\ Answered(c, "save_failed") /\ UNCHANGED channel
    /\ UNCHANGED <<Ask, priceVars, creds, alerts>>

AllAsked(c) ==
    /\ Querying(c) /\ pc[c] = "ask" /\ mem[c].queue = <<>>
    /\ IF ~mem[c].plan \/ ~mem[c].ok THEN Answered(c, "failed") ELSE Go(c, "sum") /\ UNCHANGED mem
    /\ UNCHANGED <<Ask, priceVars, costVars>>

-----------------------------------------------------------------------------
(* The channel's sum.                                                       *)

SumCredentials(c) ==
    /\ pc[c] = "sum"
    /\ Go(c, "total") /\ Keep(c, "sum", SingleSummary(Costs(creds)))
    /\ UNCHANGED <<Ask, priceVars, costVars>>

\* late: a ghost, the credentials' amounts had changed when the sum was written, or a
\* credential was deleted or a call broke off since. Either query of a sum may fail.
RefreshChannelCostSummary(c) ==
    /\ pc[c] = "total"
    /\ \/ /\ channel' = [cost |-> mem[c].sum, late |-> mem[c].sum # SingleSummary(Costs(creds))]
          /\ Go(c, "notify") /\ Keep(c, "sum", None)
       \/ Ask[c].fails /\ Answered(c, "sum_failed") /\ channel' = [channel EXCEPT !.late = TRUE]
    /\ UNCHANGED <<Ask, priceVars, creds, alerts>>

\* A deleted credential stays in the channel's sum until the next charge or query.
DeleteCredential(c) ==
    /\ At(c, "deleteCredential", "start")
    /\ creds' = [creds EXCEPT ![Ask[c].cred].there = FALSE]
    /\ channel' = [channel EXCEPT !.late = TRUE]
    /\ End(c, "ok")
    /\ UNCHANGED <<Ask, priceVars, alerts>>

\* Everyone's view: enabled channels, to administrators, where a zero looks like no value.
ChannelsBalance(c) ==
    /\ At(c, "balances", "start")
    /\ mem' = [mem EXCEPT ![c].result = "ok",
                  ![c].answer = [k \in {x \in DOMAIN channel.cost : x = "currency" \/ channel.cost[x] # 0}
                                    |-> channel.cost[k]]]
    /\ Go(c, "done")
    /\ UNCHANGED <<Ask, priceVars, costVars>>

-----------------------------------------------------------------------------
(* The mails about a low balance: in the code in a goroutine of their own   *)
(* (mail/service.go:40-42), here the last steps of the charge or query that *)
(* started it, which has nothing left to do. The notices of one daily job   *)
(* follow each other, those of two calls interleave.                        *)

NotifyChannelLowBalance(c) ==
    /\ pc[c] = "notify"
    /\ IF "remaining" \in DOMAIN channel.cost
       THEN Go(c, "recover") /\ Keep(c, "low", channel.cost.remaining)
       ELSE Answered(c, "ok")
    /\ UNCHANGED <<Ask, priceVars, costVars>>

RecoveredThresholds(remaining) == {t \in Thresholds : remaining >= t}

LowestTriggered(remaining) ==
    LET triggered == {t \in Thresholds : remaining < t}
    IN {t \in triggered : \A o \in triggered : t <= o}

\* The balance it goes by is the one read when it started, perhaps another's by now.
ClearRecovered(c) ==
    LET cleared == alerts.keys \cap RecoveredThresholds(mem[c].low)
    IN /\ pc[c] = "recover"
       /\ alerts' = [alerts EXCEPT !.keys = @ \ cleared,
                        !.recovered = [t \in Thresholds |-> @[t] + (IF t \in cleared THEN 1 ELSE 0)]]
       /\ IF LowestTriggered(mem[c].low) = {} THEN Answered(c, "ok") ELSE Go(c, "mark") /\ UNCHANGED mem
       /\ UNCHANGED <<Ask, priceVars, creds, channel>>

\* Bug: the reminder's key is read first and written after.
MutMarkAlert(c) ==
    /\ pc[c] = "mark"
    /\ alerts' = [alerts EXCEPT !.keys = @ \cup LowestTriggered(mem[c].low)]
    /\ Go(c, "mail") /\ UNCHANGED mem
    /\ UNCHANGED <<Ask, priceVars, creds, channel>>

\* Whoever sets the key sends the mail.
MarkAlert(c) ==
    /\ pc[c] = "mark"
    /\ IF LowestTriggered(mem[c].low) \subseteq alerts.keys THEN Answered(c, "ok") /\ UNCHANGED alerts
       ELSE /\ alerts' = [alerts EXCEPT !.keys = @ \cup LowestTriggered(mem[c].low)]
            /\ Go(c, "mail") /\ UNCHANGED mem
    /\ UNCHANGED <<Ask, priceVars, creds, channel>>

\* To every administrator; without anyone reached the key is cleared again.
SendAlert(c) ==
    LET t == CHOOSE x \in LowestTriggered(mem[c].low) : TRUE
    IN /\ pc[c] = "mail"
       /\ \/ alerts' = [alerts EXCEPT !.mails[t] = @ + 1]
          \/ Ask[c].fails /\ alerts' = [alerts EXCEPT !.keys = @ \ {t}]
       /\ Answered(c, "ok")
       /\ UNCHANGED <<Ask, priceVars, creds, channel>>

-----------------------------------------------------------------------------
(* The credentials an earlier release disabled for their balance are enabled *)
(* again when the program starts.                                           *)

DisabledByCostQuery(k) == creds[k].there /\ ~creds[k].enabled /\ creds[k].by = "cost_query"

ListDisabledByCostQuery(c) ==
    /\ At(c, "restore", "start")
    /\ Go(c, "restore") /\ Keep(c, "queue", SelectSeq(Credentials, DisabledByCostQuery))
    /\ UNCHANGED <<Ask, priceVars, costVars>>

RestoreCredential(c) ==
    LET k == Head(mem[c].queue)
    IN /\ At(c, "restore", "restore")
       /\ IF mem[c].queue = <<>> THEN End(c, "ok") /\ UNCHANGED creds
          ELSE /\ creds' = IF DisabledByCostQuery(k)
                           THEN [creds EXCEPT ![k].enabled = TRUE, ![k].by = ""] ELSE creds
               /\ Go(c, "restore") /\ Keep(c, "queue", Tail(mem[c].queue))
       /\ UNCHANGED <<Ask, priceVars, channel, alerts>>

CostStep(c) ==
    \/ ApplyCredentialUsageCost(c) \/ QueryCost(c) \/ AskUpstream(c) \/ EnsureMetadataFails(c)
    \/ SaveCredentialCostResult(c) \/ SaveChannelCostResult(c) \/ AllAsked(c)
    \/ SumCredentials(c) \/ RefreshChannelCostSummary(c) \/ DeleteCredential(c)
    \/ ChannelsBalance(c) \/ NotifyChannelLowBalance(c) \/ ClearRecovered(c) \/ MarkAlert(c)
    \/ SendAlert(c) \/ ListDisabledByCostQuery(c) \/ RestoreCredential(c)
=============================================================================
