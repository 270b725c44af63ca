--------------------------- MODULE SettlementProofs ---------------------------
(***************************************************************************)
(* Three promises of the tables behind a bill, for any number of calls,    *)
(* prices, rules, sources, credentials and thresholds: a snapshot that     *)
(* nobody is about to replace is the tables as they are, a threshold is    *)
(* mailed about once for each dip below it, and a channel's amounts are    *)
(* the sum of its credentials' once nobody is about to write them.         *)
(***************************************************************************)
EXTENDS Settlement, FiniteSetTheorems, TLAPS

MemFields == {"result", "prices", "rules", "plan", "n", "bill", "queue", "sum", "answer", "ok",
              "low", "keys", "views"}
Loading == {"load", "loadRules", "store"}
Mailing == {"mark", "mail"}

\* Every call has a place in its operation and a memory, and a load that failed was its end.
Calling ==
    /\ DOMAIN pc = Calls /\ DOMAIN mem = Calls
    /\ \A c \in Calls : DOMAIN mem[c] = MemFields
    /\ \A c \in Calls : mem[c].result = "load_failed" => pc[c] = "done"

\* A step of one call, which every other call sleeps through.
OnlyCall(c) ==
    /\ \A d \in Calls \ {c} : pc'[d] = pc[d] /\ mem'[d] = mem[d]
    /\ pc[c] # "done"
    /\ Calling'

\* A step that no snapshot and no mail depends on.
LeavesPrices(c) == UNCHANGED <<prices, rules, snapshot>> /\ pc[c] \notin Loading
LeavesAlerts(c) == UNCHANGED alerts /\ pc[c] \notin Mailing /\ pc'[c] \notin Mailing

-----------------------------------------------------------------------------
(* The steps by what they are about. *)

LoadCall(c)   == LoadPrices(c) \/ LoadRules(c) \/ StoreSnapshot(c) \/ LoadFails(c)
TableCall(c)  == \/ UpdateModel(c) \/ UpdatePublicModelPrice(c) \/ CreatePriceRule(c)
                 \/ UpdatePriceRule(c) \/ DeletePriceRule(c) \/ SaveSyncedPriceRules(c)
SourceCall(c) == \/ BillRequest(c) \/ EditPriceSource(c) \/ SyncPrices(c) \/ FetchPrices(c)
                 \/ ViewPrices(c)
AmountCall(c) == \/ ApplyCredentialUsageCost(c) \/ QueryCost(c) \/ AskUpstream(c)
                 \/ EnsureMetadataFails(c)
                 \/ SaveCredentialCostResult(c) \/ SaveChannelCostResult(c) \/ AllAsked(c)
                 \/ SumCredentials(c) \/ RefreshChannelCostSummary(c) \/ DeleteCredential(c)
                 \/ ChannelsBalance(c) \/ NotifyChannelLowBalance(c)
                 \/ ListDisabledByCostQuery(c) \/ RestoreCredential(c)
AlertCall(c)  == ClearRecovered(c) \/ MarkAlert(c) \/ SendAlert(c)
PlanCall(c)   == \/ QueryQuota(c) \/ JoinQuotas(c) \/ WriteQuotaCache(c) \/ QuotaCacheExpires(c)
                 \/ RunCheckins(c) \/ CheckinsEnd(c) \/ RunCostSync(c) \/ CostSyncEnd(c)
CredentialCall(c) ==
    \E k : \/ FetchQuotaWithCredential(c, k) \/ CheckinStatus(c, k) \/ ClaimCheckin(c, k)
           \/ JobCheckin(c, k)

\* Every step is one of them.
LEMMA NextSteps ==
    ASSUME [Next]_vars
    PROVE  \/ \E c \in Calls : \/ (LoadCall(c) \/ TableCall(c) \/ SourceCall(c)) /\ UNCHANGED costVars
                               \/ AmountCall(c) \/ AlertCall(c) \/ PlanCall(c) \/ CredentialCall(c)
           \/ UNCHANGED vars
<1>1. ASSUME NEW c \in Calls, PriceStep(c) PROVE LoadCall(c) \/ TableCall(c) \/ SourceCall(c)
  BY <1>1 DEF PriceStep, LoadCall, TableCall, SourceCall
<1>2. ASSUME NEW c \in Calls, CostStep(c) PROVE AmountCall(c) \/ AlertCall(c)
  BY <1>2 DEF CostStep, AmountCall, AlertCall
<1>3. ASSUME NEW c \in Calls, QuotaStep(c) PROVE PlanCall(c) \/ CredentialCall(c)
  BY <1>3 DEF QuotaStep, PlanCall, CredentialCall
<1> QED BY <1>1, <1>2, <1>3 DEF Next

\* A call that only goes on with another memory.
LEMMA Moved ==
    ASSUME Calling, NEW c \in Calls, pc[c] # "done", NEW p, NEW m,
           pc' = [pc EXCEPT ![c] = p], mem' = [mem EXCEPT ![c] = m],
           DOMAIN m = MemFields, m.result # "load_failed"
    PROVE  OnlyCall(c) /\ pc'[c] = p
BY DEF Calling, OnlyCall

\* The ways a query ends.
LEMMA AnsweredMoves ==
    ASSUME Calling, NEW c \in Calls, pc[c] # "done", NEW result, result # "load_failed",
           Answered(c, result)
    PROVE  OnlyCall(c) /\ pc'[c] \in {"done", "query", "finish"}
<1> USE DEF MemFields
<1>1. CASE Ask[c].op # "daily"
  BY <1>1 DEF Answered, End, Start, Calling, OnlyCall
<1>2. CASE Ask[c].op = "daily"
  <2> DEFINE m == [Start EXCEPT !.n = mem[c].n + 1]
  <2>1. DOMAIN m = MemFields /\ m.result # "load_failed"
    BY DEF Start
  <2>2. mem' = [mem EXCEPT ![c] = m]
    BY <1>2 DEF Answered
  <2> HIDE DEF m
  <2>3. CASE mem[c].n < 2
    BY <1>2, <2>1, <2>2, <2>3, Moved DEF Answered, Go
  <2>4. CASE ~(mem[c].n < 2)
    BY <1>2, <2>1, <2>2, <2>4, Moved DEF Answered, Go
  <2> QED BY <2>3, <2>4
<1> QED BY <1>1, <1>2

LEMMA LoadCalls ==
    ASSUME Calling, NEW c \in Calls, LoadCall(c)
    PROVE  OnlyCall(c) /\ UNCHANGED <<prices, rules>> /\ pc[c] \notin Mailing /\ pc'[c] \notin Mailing
<1> USE DEF Calling, OnlyCall, MemFields, Mailing, Go, Keep, End, Start,
            priceVars, tableVars
<1>1. CASE LoadPrices(c) \/ LoadRules(c)
  BY <1>1 DEF LoadPrices, LoadRules
<1>2. CASE StoreSnapshot(c)
  <2>1. pc[c] = "store" /\ UNCHANGED tableVars
    BY <1>2 DEF StoreSnapshot
  <2>2. CASE End(c, "ok")
    BY <2>1, <2>2
  <2>3. CASE Go(c, "next") /\ mem' = [mem EXCEPT ![c].prices = None, ![c].rules = None]
    BY <2>1, <2>3
  <2>4. \/ End(c, "ok")
        \/ Go(c, "next") /\ mem' = [mem EXCEPT ![c].prices = None, ![c].rules = None]
    <3> HIDE DEF Go, End
    <3> QED BY <1>2 DEF StoreSnapshot
  <2> QED BY <2>2, <2>3, <2>4
<1>3. CASE LoadFails(c)
  BY <1>3 DEF LoadFails
<1> QED BY <1>1, <1>2, <1>3 DEF LoadCall

LEMMA TableCalls ==
    ASSUME Calling, NEW c \in Calls, TableCall(c)
    PROVE  /\ OnlyCall(c) /\ pc[c] \notin Mailing /\ pc'[c] \notin Mailing
           /\ \/ pc'[c] = "load"
              \/ pc[c] \notin Loading /\ UNCHANGED <<prices, rules, snapshot>>
<1> USE DEF Calling, OnlyCall, MemFields, Mailing, Loading, At, Go, Keep, End,
            Start
<1>1. CASE UpdateModel(c) \/ UpdatePublicModelPrice(c)
  BY <1>1 DEF UpdateModel, UpdatePublicModelPrice
<1>2. CASE CreatePriceRule(c)
  BY <1>2 DEF CreatePriceRule
<1>3. CASE UpdatePriceRule(c)
  BY <1>3 DEF UpdatePriceRule
<1>4. CASE DeletePriceRule(c)
  BY <1>4 DEF DeletePriceRule
<1>5. CASE SaveSyncedPriceRules(c)
  BY <1>5 DEF SaveSyncedPriceRules
<1> QED BY <1>1, <1>2, <1>3, <1>4, <1>5 DEF TableCall

LEMMA SourceCalls ==
    ASSUME Calling, NEW c \in Calls, SourceCall(c)
    PROVE  OnlyCall(c) /\ LeavesPrices(c) /\ pc[c] \notin Mailing /\ pc'[c] \notin Mailing
<1> USE DEF Calling, OnlyCall, MemFields, LeavesPrices, Mailing, Loading, At, Go,
            Keep, End, Start, priceVars
<1>1. CASE BillRequest(c)
  BY <1>1 DEF BillRequest
<1>2. CASE EditPriceSource(c)
  BY <1>2 DEF EditPriceSource
<1>3. CASE SyncPrices(c)
  BY <1>3 DEF SyncPrices
<1>4. CASE FetchPrices(c)
  <2>1. pc[c] = "next" /\ UNCHANGED priceVars
    BY <1>4 DEF FetchPrices
  <2>2. CASE End(c, "ok") \/ (Go(c, "next") /\ \E queue : Keep(c, "queue", queue))
    BY <2>1, <2>2
  <2>3. CASE Go(c, "view") /\ \E queue, plan : mem' = [mem EXCEPT ![c].queue = queue, ![c].plan = plan]
    BY <2>1, <2>3
  <2>4. \/ End(c, "ok") \/ (Go(c, "next") /\ \E queue : Keep(c, "queue", queue))
        \/ Go(c, "view") /\ \E queue, plan : mem' = [mem EXCEPT ![c].queue = queue, ![c].plan = plan]
    <3> HIDE DEF Go, End
    <3> QED BY <1>4 DEF FetchPrices
  <2> QED BY <2>2, <2>3, <2>4
<1>5. CASE ViewPrices(c)
  BY <1>5 DEF ViewPrices
<1> QED BY <1>1, <1>2, <1>3, <1>4, <1>5 DEF SourceCall

LEMMA AmountCalls ==
    ASSUME Calling, NEW c \in Calls, AmountCall(c)
    PROVE  OnlyCall(c) /\ LeavesPrices(c) /\ LeavesAlerts(c)
<1> USE DEF Calling, OnlyCall, MemFields, LeavesPrices, LeavesAlerts, Mailing,
            Loading, At, Go, Keep, End, Start, priceVars, costVars
<1>1. CASE ApplyCredentialUsageCost(c)
  BY <1>1 DEF ApplyCredentialUsageCost
<1>2. CASE QueryCost(c)
  <2> DEFINE rows == SelectSeq(Credentials, LAMBDA k : creds[k].there)
             auth == Ask[c].type.auth
             queue == CASE auth = "channel_key" -> rows
                        [] auth = "management_key" -> ManagedBy(rows)
                        [] OTHER -> <<None>>
  <2>1. (At(c, "cost", "start") \/ At(c, "daily", "query")) /\ UNCHANGED <<priceVars, costVars>>
    BY <1>2 DEF QueryCost
  <2>2. \/ Answered(c, "refused")
        \/ Go(c, "ask") /\ \E plan : mem' = [mem EXCEPT ![c].queue = queue, ![c].plan = plan]
    <3> HIDE DEF Go
    <3> QED BY <1>2, Zenon DEF QueryCost
  <2> HIDE DEF queue
  <2>3. CASE Answered(c, "refused")
    BY <2>1, <2>3, AnsweredMoves
  <2>4. CASE Go(c, "ask") /\ \E plan : mem' = [mem EXCEPT ![c].queue = queue, ![c].plan = plan]
    BY <2>1, <2>4
  <2> QED BY <2>2, <2>3, <2>4
<1>3. CASE AskUpstream(c)
  <2> DEFINE rest == Tail(mem[c].queue)
             found == mem[c].plan \/ Head(mem[c].queue) # None
  <2>1. pc[c] = "ask" /\ UNCHANGED <<priceVars, alerts>>
    BY <1>3 DEF AskUpstream
  <2>2. /\ pc' \in {[pc EXCEPT ![c] = "ask"], [pc EXCEPT ![c] = "save"]}
        /\ \/ \E answer : mem' = [mem EXCEPT ![c].answer = answer, ![c].plan = found]
           \/ mem' = [mem EXCEPT ![c].queue = rest, ![c].plan = found]
           \/ mem' = [mem EXCEPT ![c].queue = rest, ![c].ok = TRUE]
    BY <1>3 DEF AskUpstream
  <2> HIDE DEF rest, found
  <2>3. mem[c].result # "load_failed" /\ DOMAIN mem[c] = MemFields
    BY <2>1
  <2>4. CASE \E answer : mem' = [mem EXCEPT ![c].answer = answer, ![c].plan = found]
    <3>1. PICK answer : mem' = [mem EXCEPT ![c].answer = answer, ![c].plan = found]
      BY <2>4
    <3> DEFINE m == [mem[c] EXCEPT !.answer = answer, !.plan = found]
    <3>2. DOMAIN m = MemFields /\ m.result # "load_failed" /\ mem' = [mem EXCEPT ![c] = m]
      BY <2>3, <3>1
    <3> HIDE DEF m
    <3> QED BY <2>1, <2>2, <3>2, Moved
  <2>5. CASE mem' = [mem EXCEPT ![c].queue = rest, ![c].plan = found]
    <3> DEFINE m == [mem[c] EXCEPT !.queue = rest, !.plan = found]
    <3>1. DOMAIN m = MemFields /\ m.result # "load_failed" /\ mem' = [mem EXCEPT ![c] = m]
      BY <2>3, <2>5
    <3> HIDE DEF m
    <3> QED BY <2>1, <2>2, <3>1, Moved
  <2>6. CASE mem' = [mem EXCEPT ![c].queue = rest, ![c].ok = TRUE]
    <3> DEFINE m == [mem[c] EXCEPT !.queue = rest, !.ok = TRUE]
    <3>1. DOMAIN m = MemFields /\ m.result # "load_failed" /\ mem' = [mem EXCEPT ![c] = m]
      BY <2>3, <2>6
    <3> HIDE DEF m
    <3> QED BY <2>1, <2>2, <3>1, Moved
  <2> QED BY <2>2, <2>4, <2>5, <2>6
<1>4. CASE SaveCredentialCostResult(c)
  <2>1. pc[c] = "save" /\ UNCHANGED <<priceVars, alerts>>
    BY <1>4 DEF SaveCredentialCostResult
  <2>2. CASE Answered(c, "save_failed")
    BY <2>1, <2>2, AnsweredMoves
  <2> DEFINE rest == Tail(mem[c].queue)
  <2>3. CASE /\ Go(c, "ask")
             /\ mem' = [mem EXCEPT ![c].queue = rest, ![c].ok = TRUE, ![c].answer = None]
    <3> HIDE DEF rest
    <3> QED BY <2>1, <2>3
  <2>4. \/ Answered(c, "save_failed")
        \/ /\ Go(c, "ask")
           /\ mem' = [mem EXCEPT ![c].queue = rest, ![c].ok = TRUE, ![c].answer = None]
    BY <1>4 DEF SaveCredentialCostResult
  <2> QED BY <2>2, <2>3, <2>4
<1>5. CASE SaveChannelCostResult(c)
  <2>1. pc[c] = "save" /\ UNCHANGED <<priceVars, alerts>>
    BY <1>5 DEF SaveChannelCostResult
  <2>2. CASE Answered(c, "save_failed")
    BY <2>1, <2>2, AnsweredMoves
  <2>3. CASE Go(c, "notify") /\ mem' = [mem EXCEPT ![c].queue = <<>>, ![c].answer = None]
    BY <2>1, <2>3
  <2> QED BY <1>5, <2>2, <2>3, Zenon DEF SaveChannelCostResult
<1>6. CASE AllAsked(c)
  <2>1. pc[c] = "ask" /\ UNCHANGED <<priceVars, alerts>>
    BY <1>6 DEF AllAsked
  <2>2. CASE Answered(c, "failed")
    BY <2>1, <2>2, AnsweredMoves
  <2>3. CASE Go(c, "sum") /\ UNCHANGED mem
    BY <2>1, <2>3
  <2> QED BY <1>6, <2>2, <2>3, Zenon DEF AllAsked
<1>7. CASE SumCredentials(c) \/ RefreshChannelCostSummary(c)
  <2>1. pc[c] \in {"sum", "total"} /\ UNCHANGED <<priceVars, alerts>>
    BY <1>7 DEF SumCredentials, RefreshChannelCostSummary
  <2>2. CASE Answered(c, "sum_failed")
    BY <2>1, <2>2, AnsweredMoves
  <2>3. CASE (Go(c, "total") \/ Go(c, "notify")) /\ \E sum : Keep(c, "sum", sum)
    BY <2>1, <2>3
  <2>4. \/ Answered(c, "sum_failed")
        \/ (Go(c, "total") \/ Go(c, "notify")) /\ \E sum : Keep(c, "sum", sum)
    <3> HIDE DEF Answered, Go, Keep
    <3> QED BY <1>7 DEF SumCredentials, RefreshChannelCostSummary
  <2> QED BY <2>2, <2>3, <2>4
<1>8. CASE DeleteCredential(c) \/ ChannelsBalance(c)
  BY <1>8 DEF DeleteCredential, ChannelsBalance
<1>9. CASE NotifyChannelLowBalance(c)
  <2>1. pc[c] = "notify" /\ UNCHANGED <<priceVars, alerts>>
    BY <1>9 DEF NotifyChannelLowBalance
  <2>2. CASE Answered(c, "ok")
    BY <2>1, <2>2, AnsweredMoves
  <2>3. CASE Go(c, "recover") /\ \E low : Keep(c, "low", low)
    BY <2>1, <2>3
  <2> QED BY <1>9, <2>2, <2>3, Zenon DEF NotifyChannelLowBalance
<1>10. CASE ListDisabledByCostQuery(c)
  BY <1>10 DEF ListDisabledByCostQuery
<1>11. CASE RestoreCredential(c)
  <2>1. pc[c] = "restore" /\ UNCHANGED <<priceVars, alerts>>
    BY <1>11 DEF RestoreCredential
  <2>2. End(c, "ok") \/ (Go(c, "restore") /\ \E queue : Keep(c, "queue", queue))
    <3> HIDE DEF Go, End, Keep
    <3> QED BY <1>11 DEF RestoreCredential
  <2>3. CASE End(c, "ok")
    BY <2>1, <2>3
  <2>4. CASE Go(c, "restore") /\ \E queue : Keep(c, "queue", queue)
    BY <2>1, <2>4
  <2> QED BY <2>2, <2>3, <2>4
<1>12. CASE EnsureMetadataFails(c)
  <2>1. pc[c] = "ask" /\ UNCHANGED <<priceVars, alerts>> /\ Answered(c, "metadata_failed")
    BY <1>12 DEF EnsureMetadataFails
  <2> QED BY <2>1, AnsweredMoves
<1> QED BY <1>1, <1>2, <1>3, <1>4, <1>5, <1>6, <1>7, <1>8, <1>9, <1>10, <1>11, <1>12 DEF AmountCall

LEMMA AlertCalls ==
    ASSUME Calling, NEW c \in Calls, AlertCall(c)
    PROVE  OnlyCall(c) /\ LeavesPrices(c)
<1> USE DEF Calling, OnlyCall, MemFields, LeavesPrices, Loading, Go, End,
            Start, priceVars
<1>1. CASE ClearRecovered(c)
  <2>1. pc[c] = "recover" /\ UNCHANGED priceVars
    BY <1>1 DEF ClearRecovered
  <2>2. CASE Answered(c, "ok")
    BY <2>1, <2>2, AnsweredMoves
  <2>3. CASE Go(c, "mark") /\ UNCHANGED mem
    BY <2>1, <2>3
  <2> QED BY <1>1, <2>2, <2>3, Zenon DEF ClearRecovered
<1>2. CASE MarkAlert(c)
  <2>1. pc[c] = "mark" /\ UNCHANGED priceVars
    BY <1>2 DEF MarkAlert
  <2>2. CASE Answered(c, "ok")
    BY <2>1, <2>2, AnsweredMoves
  <2>3. CASE Go(c, "mail") /\ UNCHANGED mem
    BY <2>1, <2>3
  <2> QED BY <1>2, <2>2, <2>3, Zenon DEF MarkAlert
<1>3. CASE SendAlert(c)
  <2>1. pc[c] = "mail" /\ UNCHANGED priceVars /\ Answered(c, "ok")
    BY <1>3 DEF SendAlert
  <2> QED BY <2>1, AnsweredMoves
<1> QED BY <1>1, <1>2, <1>3 DEF AlertCall

LEMMA PlanCalls ==
    ASSUME Calling, NEW c \in Calls, PlanCall(c)
    PROVE  OnlyCall(c) /\ LeavesPrices(c) /\ LeavesAlerts(c)
<1> USE DEF Calling, OnlyCall, MemFields, LeavesPrices, LeavesAlerts, Mailing,
            Loading, At, Go, Keep, End, Start, priceVars, costVars
<1>1. CASE QueryQuota(c)
  <2> DEFINE asked == KeysAsked(Ask[c].type, Ask[c].cred)
             todo == [k \in asked |-> "todo"]
             none == [k \in asked |-> None]
  <2>1. /\ pc[c] = "start" /\ UNCHANGED <<priceVars, costVars>>
        /\ \/ End(c, "refused")
           \/ Go(c, "done") /\ mem' = [mem EXCEPT ![c].result = "cached", ![c].answer = quotaCache]
           \/ Go(c, "fetch") /\ mem' = [mem EXCEPT ![c].keys = todo, ![c].views = none]
    <3> HIDE DEF Go, End
    <3> QED BY <1>1, Zenon DEF QueryQuota
  <2> HIDE DEF todo, none
  <2>2. CASE End(c, "refused")
    BY <2>1, <2>2
  <2>3. CASE Go(c, "done") /\ mem' = [mem EXCEPT ![c].result = "cached", ![c].answer = quotaCache]
    BY <2>1, <2>3
  <2>4. CASE Go(c, "fetch") /\ mem' = [mem EXCEPT ![c].keys = todo, ![c].views = none]
    BY <2>1, <2>4
  <2> QED BY <2>1, <2>2, <2>3, <2>4
<1>2. CASE JoinQuotas(c)
  <2>1. pc[c] = "fetch" /\ UNCHANGED <<priceVars, costVars>>
    BY <1>2 DEF JoinQuotas
  <2>2. \/ End(c, "failed")
        \/ /\ pc' \in {[pc EXCEPT ![c] = "done"], [pc EXCEPT ![c] = "cache"]}
           /\ \E view : \/ mem' = [mem EXCEPT ![c] = [Start EXCEPT !.result = "ok", !.answer = view]]
                        \/ mem' = [mem EXCEPT ![c] = [Start EXCEPT !.answer = view]]
    <3> HIDE DEF End, Start
    <3> QED BY <1>2 DEF JoinQuotas
  <2>3. CASE End(c, "failed")
    BY <2>1, <2>3
  <2>4. CASE ~End(c, "failed")
    <3>1. PICK p \in {"done", "cache"} : pc' = [pc EXCEPT ![c] = p]
      BY <2>2, <2>4
    <3>2. PICK m : /\ mem' = [mem EXCEPT ![c] = m]
                   /\ DOMAIN m = MemFields /\ m.result \in {"ok", ""}
      <4>1. PICK view : \/ mem' = [mem EXCEPT ![c] = [Start EXCEPT !.result = "ok", !.answer = view]]
                        \/ mem' = [mem EXCEPT ![c] = [Start EXCEPT !.answer = view]]
        BY <2>2, <2>4
      <4> DEFINE joined == [Start EXCEPT !.result = "ok", !.answer = view]
                 held == [Start EXCEPT !.answer = view]
      <4>2. DOMAIN joined = MemFields /\ joined.result = "ok"
        OBVIOUS
      <4>3. DOMAIN held = MemFields /\ held.result = ""
        OBVIOUS
      <4> HIDE DEF joined, held
      <4>4. mem' = [mem EXCEPT ![c] = joined] \/ mem' = [mem EXCEPT ![c] = held]
        BY <4>1 DEF joined, held
      <4> QED BY <4>2, <4>3, <4>4
    <3> QED BY <2>1, <3>1, <3>2, Moved
  <2> QED BY <2>3, <2>4
<1>3. CASE WriteQuotaCache(c) \/ QuotaCacheExpires(c)
  BY <1>3 DEF WriteQuotaCache, QuotaCacheExpires
<1>4. CASE RunCheckins(c)
  BY <1>4 DEF RunCheckins
<1>5. CASE CheckinsEnd(c)
  BY <1>5 DEF CheckinsEnd
<1>6. CASE RunCostSync(c) \/ CostSyncEnd(c)
  BY <1>6 DEF RunCostSync, CostSyncEnd
<1> QED BY <1>1, <1>2, <1>3, <1>4, <1>5, <1>6 DEF PlanCall

LEMMA CredentialCalls ==
    ASSUME Calling, NEW c \in Calls, CredentialCall(c)
    PROVE  OnlyCall(c) /\ LeavesPrices(c) /\ LeavesAlerts(c)
<1> USE DEF Calling, OnlyCall, LeavesPrices, LeavesAlerts, MemFields, Mailing, Loading, At,
            priceVars, costVars
<1> PICK k : \/ FetchQuotaWithCredential(c, k) \/ CheckinStatus(c, k) \/ ClaimCheckin(c, k)
             \/ JobCheckin(c, k)
  BY DEF CredentialCall
<1>1. CASE FetchQuotaWithCredential(c, k)
  <2>1. pc[c] = "fetch" /\ UNCHANGED <<pc, priceVars, costVars>>
    BY <1>1 DEF FetchQuotaWithCredential
  <2> DEFINE next == IF Ask[c].type.quota = "workbuddy_credits" THEN "status" ELSE "done"
             step(view) == IF IsFailed(view) THEN "done" ELSE next
  <2>2. PICK view : mem' = [mem EXCEPT ![c].views[k] = view, ![c].keys[k] = step(view)]
    BY <1>1, Zenon DEF FetchQuotaWithCredential
  <2> HIDE DEF step
  <2> QED BY <2>1, <2>2
<1>2. CASE CheckinStatus(c, k)
  <2>1. pc[c] = "fetch" /\ UNCHANGED <<pc, priceVars, costVars>>
    BY <1>2 DEF CheckinStatus
  <2>2. CASE mem' = [mem EXCEPT ![c].views[k].windows = @ \o ParseWorkBuddyCheckin(k \in checkedIn),
                                ![c].keys[k] = IF k \in checkedIn THEN "done" ELSE "claim"]
    BY <2>1, <2>2
  <2>3. CASE mem' = [mem EXCEPT ![c].views[k] = Note(@, "status_unknown"), ![c].keys[k] = "done"]
    BY <2>1, <2>3
  <2> QED BY <1>2, <2>2, <2>3, Zenon DEF CheckinStatus
<1>3. CASE ClaimCheckin(c, k)
  BY <1>3 DEF ClaimCheckin
<1>4. CASE JobCheckin(c, k)
  BY <1>4 DEF JobCheckin, Move
<1> QED BY <1>1, <1>2, <1>3, <1>4

\* What any step does to the calls, the snapshot and the reminders.
LEMMA StepsOfCalls ==
    ASSUME Calling, NEW c \in Calls,
           \/ (LoadCall(c) \/ TableCall(c) \/ SourceCall(c)) /\ UNCHANGED costVars
           \/ AmountCall(c) \/ AlertCall(c) \/ PlanCall(c) \/ CredentialCall(c)
    PROVE  /\ OnlyCall(c)
           /\ \/ LoadCall(c)
              \/ pc'[c] = "load"
              \/ pc[c] \notin Loading /\ UNCHANGED <<prices, rules, snapshot>>
           /\ AlertCall(c) \/ LeavesAlerts(c)
<1>1. CASE LoadCall(c) /\ UNCHANGED costVars
  BY <1>1, LoadCalls DEF LeavesAlerts, costVars
<1>2. CASE TableCall(c) /\ UNCHANGED costVars
  BY <1>2, TableCalls DEF LeavesAlerts, costVars
<1>3. CASE SourceCall(c) /\ UNCHANGED costVars
  BY <1>3, SourceCalls DEF LeavesAlerts, LeavesPrices, costVars
<1>4. CASE AmountCall(c)
  BY <1>4, AmountCalls DEF LeavesPrices
<1>5. CASE AlertCall(c)
  BY <1>5, AlertCalls DEF LeavesPrices
<1>6. CASE PlanCall(c)
  BY <1>6, PlanCalls DEF LeavesPrices
<1>7. CASE CredentialCall(c)
  BY <1>7, CredentialCalls DEF LeavesPrices
<1> QED BY <1>1, <1>2, <1>3, <1>4, <1>5, <1>6, <1>7

LEMMA StartCalling == Init => Calling
<1>1. DOMAIN Start = MemFields /\ Start.result = ""
  BY DEF Start, MemFields
<1> QED BY <1>1 DEF Init, StartPricing, Calling

LEMMA KeepsCalling == Calling /\ [Next]_vars => Calling'
<1> SUFFICES ASSUME Calling, [Next]_vars PROVE Calling'
  OBVIOUS
<1>1. CASE UNCHANGED vars
  BY <1>1 DEF vars, Calling
<1> QED BY <1>1, NextSteps, StepsOfCalls DEF OnlyCall

-----------------------------------------------------------------------------
(* The snapshot.                                                            *)

Current == snapshot.prices = prices /\ snapshot.rules = Enabled(rules)

\* Whoever changed the tables is on its way to loading them, unless that failed.
SnapshotInv ==
    \/ \E c \in Calls : pc[c] \in Loading \/ mem[c].result = "load_failed"
    \/ snapshot.late
    \/ Current

LEMMA StartSnapshot == Init => SnapshotInv
BY DEF Init, StartPricing, SnapshotInv, Current, Enabled

\* A load that ends is current, late or a failure; until then it has not ended.
LEMMA LoadKeepsSnapshot ==
    ASSUME Calling, NEW c \in Calls, LoadCall(c)
    PROVE  SnapshotInv'
<1> USE DEF Calling, MemFields, Loading, Go, Keep, End, Start, priceVars, tableVars, SnapshotInv
<1>1. CASE LoadPrices(c) \/ LoadRules(c)
  <2>1. pc'[c] \in Loading
    BY <1>1 DEF LoadPrices, LoadRules
  <2> QED BY <2>1
<1>2. CASE StoreSnapshot(c)
  <2>1. snapshot'.late \/ Current'
    BY <1>2 DEF StoreSnapshot, Current, Enabled
  <2> QED BY <2>1
<1>3. CASE LoadFails(c)
  <2>1. mem'[c].result = "load_failed"
    BY <1>3 DEF LoadFails
  <2> QED BY <2>1
<1> QED BY <1>1, <1>2, <1>3 DEF LoadCall

LEMMA KeepsSnapshot == Calling /\ SnapshotInv /\ [Next]_vars => SnapshotInv'
<1> SUFFICES ASSUME Calling, SnapshotInv, [Next]_vars PROVE SnapshotInv'
  OBVIOUS
<1>1. CASE UNCHANGED vars
  BY <1>1 DEF vars, priceVars, SnapshotInv, Current, Enabled
<1>2. ASSUME NEW c \in Calls,
             \/ (LoadCall(c) \/ TableCall(c) \/ SourceCall(c)) /\ UNCHANGED costVars
             \/ AmountCall(c) \/ AlertCall(c) \/ PlanCall(c) \/ CredentialCall(c)
      PROVE  SnapshotInv'
  <2>1. OnlyCall(c)
    BY <1>2, StepsOfCalls
  <2>2. CASE LoadCall(c)
    BY <2>2, LoadKeepsSnapshot
  <2>3. CASE pc'[c] = "load"
    BY <2>3 DEF SnapshotInv, Loading
  <2>4. CASE pc[c] \notin Loading /\ UNCHANGED <<prices, rules, snapshot>>
    <3>1. CASE snapshot.late \/ Current
      BY <2>4, <3>1 DEF SnapshotInv, Current, Enabled
    <3>2. CASE \E d \in Calls : pc[d] \in Loading \/ mem[d].result = "load_failed"
      BY <2>1, <2>4, <3>2 DEF SnapshotInv, OnlyCall, Calling
    <3> QED BY <3>1, <3>2 DEF SnapshotInv
  <2> QED BY <1>2, StepsOfCalls, <2>2, <2>3, <2>4
<1> QED BY <1>1, <1>2, NextSteps

\* pricingcache/service.go:74: with no load under way, none failed and none late, requests
\* are billed from the prices and the enabled rules as they are.
THEOREM BillsFollowTheTables == Spec => []SnapshotFollowsPrices
<1>1. Calling /\ SnapshotInv => SnapshotFollowsPrices
  BY DEF SnapshotInv, SnapshotFollowsPrices, Current, Loading
<1> QED BY <1>1, StartCalling, KeepsCalling, StartSnapshot, KeepsSnapshot, PTL DEF Spec

-----------------------------------------------------------------------------
(* The mails about a low balance.                                           *)

Lowest(c) == CHOOSE x \in LowestTriggered(mem[c].low) : TRUE

\* The calls that have set a threshold's key and not sent its mail.
Senders(t) == {c \in Calls : pc[c] = "mail" /\ Lowest(c) = t}

KeyOf(t) == IF t \in alerts.keys THEN 1 ELSE 0

\* A mail and a mail about to be sent are each a recovery's, or the key's that is set.
AlertInv ==
    /\ DOMAIN alerts = {"keys", "mails", "recovered"}
    /\ alerts.keys \subseteq Thresholds
    /\ alerts.mails \in [Thresholds -> Nat]
    /\ alerts.recovered \in [Thresholds -> Nat]
    /\ \A c \in Calls : pc[c] \in Mailing => LowestTriggered(mem[c].low) # {}
    /\ \A t \in Thresholds :
          alerts.mails[t] + Cardinality(Senders(t)) <= alerts.recovered[t] + KeyOf(t)

\* One threshold at most is the lowest.
LEMMA OneLowest ==
    ASSUME NEW remaining, LowestTriggered(remaining) # {}
    PROVE  /\ LowestTriggered(remaining) = {CHOOSE x \in LowestTriggered(remaining) : TRUE}
           /\ (CHOOSE x \in LowestTriggered(remaining) : TRUE) \in Thresholds
<1>1. \A x, y \in LowestTriggered(remaining) : x = y /\ x \in Thresholds
  BY CostAssumption DEF LowestTriggered
<1> QED BY <1>1

LEMMA SendersAreCounted ==
    ASSUME NEW t
    PROVE  IsFiniteSet(Senders(t)) /\ Cardinality(Senders(t)) \in Nat
<1>1. Senders(t) \subseteq Calls
  BY DEF Senders
<1> QED BY <1>1, CostAssumption, FS_Subset, FS_CardinalityType

\* Who sends a mail changes with the call that moves alone.
LEMMA OtherSenders ==
    ASSUME NEW c \in Calls, OnlyCall(c), NEW t
    PROVE  Senders(t)' \ {c} = Senders(t) \ {c}
<1>1. \A d \in Calls \ {c} : d \in Senders(t)' <=> d \in Senders(t)
  BY DEF OnlyCall, Senders, Lowest, LowestTriggered
<1> QED BY <1>1 DEF Senders

LEMMA StartAlerts == Init => AlertInv
<1> SUFFICES ASSUME Init PROVE AlertInv
  OBVIOUS
<1>1. alerts = [keys |-> {}, mails |-> [t \in Thresholds |-> 0], recovered |-> [t \in Thresholds |-> 0]]
  BY DEF Init, StartCosts
<1>2. \A c \in Calls : pc[c] = "start"
  BY DEF Init, StartPricing
<1>3. \A t \in Thresholds : Senders(t) = {}
  BY <1>2 DEF Senders
<1> QED BY <1>1, <1>2, <1>3, FS_EmptySet DEF AlertInv, KeyOf, Mailing

\* Steps that no mail depends on.
LEMMA LeavingAlerts ==
    ASSUME Calling, AlertInv, NEW c \in Calls, OnlyCall(c), LeavesAlerts(c)
    PROVE  AlertInv'
<1>1. \A t : Senders(t)' = Senders(t)
  <2> TAKE t
  <2>1. c \notin Senders(t)' /\ c \notin Senders(t)
    BY DEF LeavesAlerts, Mailing, Senders
  <2> QED BY <2>1, OtherSenders
<1>2. \A d \in Calls : pc'[d] \in Mailing => LowestTriggered(mem'[d].low) # {}
  BY DEF AlertInv, OnlyCall, LeavesAlerts
<1>3. \A t : KeyOf(t)' = KeyOf(t)
  BY DEF LeavesAlerts, KeyOf
<1>4. alerts' = alerts
  BY DEF LeavesAlerts
<1> QED BY <1>1, <1>2, <1>3, <1>4 DEF AlertInv, LowestTriggered

\* A threshold whose key is cleared has recovered once more.
LEMMA ClearingAlerts ==
    ASSUME Calling, AlertInv, NEW c \in Calls, ClearRecovered(c)
    PROVE  AlertInv'
<1> DEFINE cleared == alerts.keys \cap RecoveredThresholds(mem[c].low)
           recovered == [t \in Thresholds |-> alerts.recovered[t] + (IF t \in cleared THEN 1 ELSE 0)]
<1>1. /\ pc[c] = "recover"
      /\ alerts' = [alerts EXCEPT !.keys = @ \ cleared, !.recovered = recovered]
  BY DEF ClearRecovered
<1>2. OnlyCall(c)
  BY AlertCalls DEF AlertCall
<1>3. pc'[c] # "mail" /\ (pc'[c] \in Mailing => LowestTriggered(mem'[c].low) # {})
  <2>1. CASE Answered(c, "ok")
    BY <1>1, <2>1, AnsweredMoves DEF Mailing
  <2>2. CASE LowestTriggered(mem[c].low) # {} /\ Go(c, "mark") /\ UNCHANGED mem
    BY <2>2 DEF Go, Calling
  <2> QED BY <2>1, <2>2, Zenon DEF ClearRecovered
<1>4. \A t : Senders(t)' = Senders(t)
  <2> TAKE t
  <2>1. c \notin Senders(t)' /\ c \notin Senders(t)
    BY <1>1, <1>3 DEF Senders
  <2> QED BY <1>2, <2>1, OtherSenders
<1>5. \A d \in Calls : pc'[d] \in Mailing => LowestTriggered(mem'[d].low) # {}
  BY <1>2, <1>3 DEF AlertInv, OnlyCall
<1> HIDE DEF cleared
<1>6. recovered \in [Thresholds -> Nat]
  BY DEF AlertInv
<1>7. /\ DOMAIN alerts' = {"keys", "mails", "recovered"} /\ alerts'.keys = alerts.keys \ cleared
      /\ alerts'.mails = alerts.mails /\ alerts'.recovered = recovered
  <2> HIDE DEF recovered
  <2> QED BY <1>1 DEF AlertInv
<1>8. ASSUME NEW t \in Thresholds
      PROVE  alerts'.mails[t] + Cardinality(Senders(t)') <= alerts'.recovered[t] + KeyOf(t)'
  <2>1. cleared \subseteq alerts.keys
    BY DEF cleared
  <2>2. alerts.mails[t] \in Nat /\ alerts.recovered[t] \in Nat /\ Cardinality(Senders(t)) \in Nat
    BY SendersAreCounted DEF AlertInv
  <2>3. alerts'.recovered[t] + KeyOf(t)' = alerts.recovered[t] + KeyOf(t)
    BY <1>7, <2>1, <2>2 DEF KeyOf
  <2> QED BY <1>4, <1>7, <2>2, <2>3 DEF AlertInv
<1> QED BY <1>5, <1>6, <1>7, <1>8 DEF AlertInv, LowestTriggered

\* The call that sets a key is one more to send its mail.
LEMMA MarkingAlerts ==
    ASSUME Calling, AlertInv, NEW c \in Calls, MarkAlert(c)
    PROVE  AlertInv'
<1> DEFINE low == LowestTriggered(mem[c].low)
<1>1. pc[c] = "mark" /\ low # {}
  BY DEF MarkAlert, AlertInv, Mailing
<1>2. OnlyCall(c)
  BY AlertCalls DEF AlertCall
<1>3. low = {Lowest(c)} /\ Lowest(c) \in Thresholds
  BY <1>1, OneLowest DEF Lowest
<1>4. CASE Answered(c, "ok") /\ UNCHANGED alerts
  <2>1. \A t : Senders(t)' = Senders(t)
    <3> TAKE t
    <3>1. c \notin Senders(t)' /\ c \notin Senders(t)
      BY <1>1, <1>4, AnsweredMoves DEF Senders
    <3> QED BY <1>2, <3>1, OtherSenders
  <2>2. \A d \in Calls : pc'[d] \in Mailing => LowestTriggered(mem'[d].low) # {}
    BY <1>1, <1>2, <1>4, AnsweredMoves DEF AlertInv, OnlyCall, Mailing
  <2> QED BY <1>4, <2>1, <2>2 DEF AlertInv, KeyOf, LowestTriggered
<1>5. CASE /\ ~(low \subseteq alerts.keys)
           /\ alerts' = [alerts EXCEPT !.keys = @ \cup low]
           /\ Go(c, "mail") /\ UNCHANGED mem
  <2>1. Lowest(c) \notin alerts.keys
    BY <1>3, <1>5
  <2>2. /\ DOMAIN alerts' = {"keys", "mails", "recovered"}
        /\ alerts'.keys = alerts.keys \cup {Lowest(c)}
        /\ alerts'.mails = alerts.mails /\ alerts'.recovered = alerts.recovered
    BY <1>3, <1>5 DEF AlertInv
  <2>3. pc'[c] = "mail" /\ mem' = mem
    BY <1>5 DEF Go, Calling
  <2>4. \A d \in Calls : pc'[d] \in Mailing => LowestTriggered(mem'[d].low) # {}
    BY <1>1, <1>2, <2>3 DEF AlertInv, OnlyCall
  <2>5. ASSUME NEW t \in Thresholds
        PROVE  alerts'.mails[t] + Cardinality(Senders(t)') <= alerts'.recovered[t] + KeyOf(t)'
    <3>1. alerts.mails[t] \in Nat /\ alerts.recovered[t] \in Nat
      BY DEF AlertInv
    <3>2. c \notin Senders(t)
      BY <1>1 DEF Senders
    <3>3. c \in Senders(t)' <=> Lowest(c) = t
      BY <2>3 DEF Senders, Lowest, LowestTriggered
    <3>4. CASE Lowest(c) = t
      <4>1. Senders(t)' = Senders(t) \cup {c}
        BY <1>2, <3>2, <3>3, <3>4, OtherSenders
      <4>2. Cardinality(Senders(t)') = Cardinality(Senders(t)) + 1 /\ Cardinality(Senders(t)) \in Nat
        BY <3>2, <4>1, SendersAreCounted, FS_AddElement
      <4>3. KeyOf(t)' = 1 /\ KeyOf(t) = 0
        BY <2>1, <2>2, <3>4 DEF KeyOf
      <4> QED BY <2>2, <3>1, <4>2, <4>3 DEF AlertInv
    <3>5. CASE Lowest(c) # t
      <4>1. Senders(t)' = Senders(t)
        BY <1>2, <3>2, <3>3, <3>5, OtherSenders
      <4>2. KeyOf(t)' = KeyOf(t)
        BY <2>2, <3>5 DEF KeyOf
      <4> QED BY <2>2, <4>1, <4>2 DEF AlertInv
    <3> QED BY <3>4, <3>5
  <2> QED BY <1>3, <2>2, <2>4, <2>5 DEF AlertInv, LowestTriggered
<1> QED BY <1>4, <1>5, Zenon DEF MarkAlert

\* A mail sent, or the key of one that reached nobody cleared.
LEMMA SendingAlerts ==
    ASSUME Calling, AlertInv, NEW c \in Calls, SendAlert(c)
    PROVE  AlertInv'
<1>1. pc[c] = "mail" /\ LowestTriggered(mem[c].low) # {}
  BY DEF SendAlert, AlertInv, Mailing
<1>2. OnlyCall(c) /\ pc'[c] \notin Mailing
  BY <1>1, AlertCalls, AnsweredMoves DEF AlertCall, SendAlert, Mailing
<1>3. PICK t \in Thresholds : t = Lowest(c)
  BY <1>1, OneLowest DEF Lowest
<1>4. \/ alerts' = [alerts EXCEPT !.mails[t] = @ + 1]
      \/ alerts' = [alerts EXCEPT !.keys = @ \ {t}]
  BY <1>3, Zenon DEF SendAlert, Lowest
<1>5. /\ Senders(t)' = Senders(t) \ {c}
      /\ Cardinality(Senders(t)') = Cardinality(Senders(t)) - 1
      /\ Cardinality(Senders(t)) \in Nat
  <2>1. c \in Senders(t) /\ c \notin Senders(t)'
    BY <1>1, <1>2, <1>3 DEF Senders, Mailing
  <2>2. Senders(t)' = Senders(t) \ {c}
    BY <1>2, <2>1, OtherSenders
  <2> QED BY <2>1, <2>2, SendersAreCounted, FS_RemoveElement
<1>6. \A o \in Thresholds \ {t} : Senders(o)' = Senders(o)
  <2> TAKE o \in Thresholds \ {t}
  <2>1. c \notin Senders(o) /\ c \notin Senders(o)'
    BY <1>2, <1>3 DEF Senders, Mailing
  <2> QED BY <1>2, <2>1, OtherSenders
<1>7. \A d \in Calls : pc'[d] \in Mailing => LowestTriggered(mem'[d].low) # {}
  BY <1>2 DEF AlertInv, OnlyCall
<1>8. CASE alerts' = [alerts EXCEPT !.mails[t] = @ + 1]
  <2>1. /\ DOMAIN alerts' = {"keys", "mails", "recovered"}
        /\ alerts'.keys = alerts.keys /\ alerts'.recovered = alerts.recovered
        /\ alerts'.mails = [alerts.mails EXCEPT ![t] = @ + 1]
    BY <1>8 DEF AlertInv
  <2>2. ASSUME NEW o \in Thresholds
        PROVE  alerts'.mails[o] + Cardinality(Senders(o)') <= alerts'.recovered[o] + KeyOf(o)'
    <3>1. alerts.mails[o] \in Nat /\ alerts.recovered[o] \in Nat /\ KeyOf(o)' = KeyOf(o)
      BY <2>1 DEF AlertInv, KeyOf
    <3>2. CASE o = t
      <4>1. alerts'.mails[t] = alerts.mails[t] + 1
        BY <2>1 DEF AlertInv
      <4>2. alerts.mails[t] + Cardinality(Senders(t)) <= alerts.recovered[t] + KeyOf(t) /\ KeyOf(t) \in Nat
        BY DEF AlertInv, KeyOf
      <4>3. alerts'.recovered[t] = alerts.recovered[t] /\ KeyOf(t)' = KeyOf(t) /\ alerts.mails[t] \in Nat
        BY <2>1, <3>1, <3>2 DEF KeyOf
      <4>4. alerts'.mails[t] + Cardinality(Senders(t)') <= alerts'.recovered[t] + KeyOf(t)'
        BY <1>5, <3>1, <3>2, <4>1, <4>2, <4>3
      <4> QED BY <3>2, <4>4
    <3>3. CASE o # t
      <4>1. alerts'.mails[o] = alerts.mails[o]
        BY <2>1, <3>3 DEF AlertInv
      <4> QED BY <1>6, <2>1, <3>1, <3>3, <4>1 DEF AlertInv
    <3> QED BY <3>2, <3>3
  <2>3. alerts'.mails \in [Thresholds -> Nat]
    BY <2>1 DEF AlertInv
  <2> QED BY <1>7, <2>1, <2>2, <2>3 DEF AlertInv, LowestTriggered
<1>9. CASE alerts' = [alerts EXCEPT !.keys = @ \ {t}]
  <2>1. /\ DOMAIN alerts' = {"keys", "mails", "recovered"}
        /\ alerts'.keys = alerts.keys \ {t}
        /\ alerts'.mails = alerts.mails /\ alerts'.recovered = alerts.recovered
    BY <1>9 DEF AlertInv
  <2>2. ASSUME NEW o \in Thresholds
        PROVE  alerts'.mails[o] + Cardinality(Senders(o)') <= alerts'.recovered[o] + KeyOf(o)'
    <3>1. alerts.mails[o] \in Nat /\ alerts.recovered[o] \in Nat
      BY DEF AlertInv
    <3>2. CASE o = t
      BY <1>5, <2>1, <3>1, <3>2 DEF AlertInv, KeyOf
    <3>3. CASE o # t
      BY <1>6, <2>1, <3>1, <3>3 DEF AlertInv, KeyOf
    <3> QED BY <3>2, <3>3
  <2> QED BY <1>7, <2>1, <2>2 DEF AlertInv, LowestTriggered
<1> QED BY <1>4, <1>8, <1>9

LEMMA KeepsAlerts == Calling /\ AlertInv /\ [Next]_vars => AlertInv'
<1> SUFFICES ASSUME Calling, AlertInv, [Next]_vars PROVE AlertInv'
  OBVIOUS
<1>1. CASE UNCHANGED vars
  BY <1>1 DEF vars, costVars, AlertInv, Senders, Lowest, LowestTriggered, KeyOf
<1>2. ASSUME NEW c \in Calls,
             \/ (LoadCall(c) \/ TableCall(c) \/ SourceCall(c)) /\ UNCHANGED costVars
             \/ AmountCall(c) \/ AlertCall(c) \/ PlanCall(c) \/ CredentialCall(c)
      PROVE  AlertInv'
  <2>1. OnlyCall(c) /\ (AlertCall(c) \/ LeavesAlerts(c))
    BY <1>2, StepsOfCalls
  <2>2. CASE LeavesAlerts(c)
    BY <2>1, <2>2, LeavingAlerts
  <2>3. CASE AlertCall(c)
    BY <2>3, ClearingAlerts, MarkingAlerts, SendingAlerts DEF AlertCall
  <2> QED BY <2>1, <2>2, <2>3
<1> QED BY <1>1, <1>2, NextSteps

\* mail/channel_balance.go:36: however many charges and queries notice a low balance at
\* once, in whatever order, and whichever mails fail, a threshold is mailed about once
\* more than it recovered at most.
THEOREM OneMailPerDip == Spec => []AlertedOncePerDip
<1>1. AlertInv => AlertedOncePerDip
  <2> SUFFICES ASSUME AlertInv, NEW t \in Thresholds
               PROVE  alerts.mails[t] <= alerts.recovered[t] + 1
    BY DEF AlertedOncePerDip
  <2>1. alerts.mails[t] \in Nat /\ alerts.recovered[t] \in Nat /\ Cardinality(Senders(t)) \in Nat
    BY SendersAreCounted DEF AlertInv
  <2> QED BY <2>1 DEF AlertInv, KeyOf
<1> QED BY <1>1, StartCalling, KeepsCalling, StartAlerts, KeepsAlerts, PTL DEF Spec

-----------------------------------------------------------------------------
(* The channel's sum. *)

RowFields == {"there", "enabled", "by", "own", "cost"}
Summing   == {"ask", "save", "sum", "total"}

\* A call whose sum is still to be written.
Pending(c) ==
    /\ Ask[c].op \in {"charge", "cost", "daily"}
    /\ \/ pc[c] \in {"sum", "total"}
       \/ pc[c] \in {"ask", "save"} /\ mem[c].ok /\ mem[c].plan

RowsOK == /\ DOMAIN creds = Creds
          /\ \A k \in Creds : DOMAIN creds[k] = RowFields
          /\ DOMAIN channel = {"cost", "late"}

\* An answer that is saved came from a key.
KeyFound(c) == pc[c] = "save" /\ Head(mem[c].queue) # None => mem[c].plan

Summed == channel.late \/ channel.cost = SingleSummary(Costs(creds))

\* Where the amounts are asked with keys, a sum that is not the credentials' is known to
\* be late, or a call has yet to write it.
CostInv ==
    /\ RowsOK
    /\ \A c \in Calls : KeyFound(c)
    /\ Summed \/ \E c \in Calls : Pending(c) \/ (Querying(c) /\ ~ Keyed(c))

LEMMA StartCostInv == Init => CostInv
<1> SUFFICES ASSUME Init PROVE CostInv
  OBVIOUS
<1>1. RowsOK
  BY CostAssumption DEF Init, StartCosts, RowsOK, RowFields
<1>2. \A c \in Calls : KeyFound(c)
  BY DEF Init, StartPricing, KeyFound
<1>3. Summed
  BY DEF Init, StartCosts, Summed
<1> QED BY <1>1, <1>2, <1>3 DEF CostInv

\* What a step of one call has to keep.
LEMMA SumKept ==
    ASSUME CostInv, NEW c \in Calls, OnlyCall(c), UNCHANGED Ask, RowsOK', KeyFound(c)',
           \/ UNCHANGED <<channel, Costs(creds)>> /\ (Pending(c) => Pending(c)')
           \/ Pending(c)' \/ Summed' \/ (Querying(c) /\ ~ Keyed(c))
    PROVE  CostInv'
<1>1. ASSUME NEW d \in Calls, d # c
      PROVE  KeyFound(d)' /\ (Pending(d) => Pending(d)')
  <2>1. pc'[d] = pc[d] /\ mem'[d] = mem[d] /\ Ask'[d] = Ask[d]
    BY <1>1 DEF OnlyCall
  <2>2. KeyFound(d)
    BY DEF CostInv
  <2>3. KeyFound(d)'
    BY <2>1, <2>2 DEF KeyFound
  <2>4. Pending(d) => Pending(d)'
    BY <2>1 DEF Pending
  <2> QED BY <2>3, <2>4
<1>2. ASSUME NEW d \in Calls, Querying(d), ~ Keyed(d)
      PROVE  Querying(d)' /\ ~ Keyed(d)'
  BY <1>2 DEF Querying, Keyed
<1>3. UNCHANGED <<channel, Costs(creds)>> => (Summed => Summed')
  BY DEF Summed
<1>4. Summed' \/ \E d \in Calls : Pending(d)' \/ (Querying(d)' /\ ~ Keyed(d)')
  <2>1. CASE UNCHANGED <<channel, Costs(creds)>> /\ (Pending(c) => Pending(c)')
    <3>1. CASE Summed
      BY <2>1, <3>1, <1>3
    <3>2. CASE \E d \in Calls : Pending(d) \/ (Querying(d) /\ ~ Keyed(d))
      BY <2>1, <3>2, <1>1, <1>2
    <3> QED BY <3>1, <3>2 DEF CostInv
  <2>2. CASE Pending(c)' \/ Summed' \/ (Querying(c) /\ ~ Keyed(c))
    BY <2>2, <1>2
  <2> QED BY <2>1, <2>2
<1>5. \A d \in Calls : KeyFound(d)'
  BY <1>1
<1> QED BY <1>4, <1>5 DEF CostInv

\* A call that has nothing to do with the sum, before and after the step.
LEMMA SumRests ==
    ASSUME CostInv, NEW c \in Calls, OnlyCall(c), UNCHANGED <<Ask, creds, channel>>,
           pc[c] \notin Summing, pc'[c] \notin Summing
    PROVE  CostInv'
<1>1. RowsOK' /\ KeyFound(c)'
  BY DEF CostInv, RowsOK, KeyFound, Summing
<1>2. UNCHANGED <<channel, Costs(creds)>>
  BY DEF Costs
<1>3. ~ Pending(c)
  BY DEF Pending, Summing
<1> QED BY <1>1, <1>2, <1>3, SumKept

LEMMA PriceCallsRest ==
    ASSUME Calling, NEW c \in Calls, LoadCall(c) \/ TableCall(c) \/ SourceCall(c)
    PROVE  UNCHANGED Ask /\ pc[c] \notin Summing /\ pc'[c] \notin Summing
<1> USE DEF Calling, Summing, At, Go, End
<1>1. CASE LoadCall(c)
  <2>1. CASE LoadPrices(c) \/ LoadRules(c)
    BY <2>1 DEF LoadPrices, LoadRules
  <2>2. CASE StoreSnapshot(c)
    BY <2>2 DEF StoreSnapshot
  <2>3. CASE LoadFails(c)
    BY <2>3 DEF LoadFails
  <2> QED BY <1>1, <2>1, <2>2, <2>3 DEF LoadCall
<1>2. CASE TableCall(c)
  <2>1. CASE UpdateModel(c) \/ UpdatePublicModelPrice(c)
    BY <2>1 DEF UpdateModel, UpdatePublicModelPrice
  <2>2. CASE CreatePriceRule(c)
    BY <2>2 DEF CreatePriceRule
  <2>3. CASE UpdatePriceRule(c)
    BY <2>3 DEF UpdatePriceRule
  <2>4. CASE DeletePriceRule(c)
    BY <2>4 DEF DeletePriceRule
  <2>5. CASE SaveSyncedPriceRules(c)
    BY <2>5 DEF SaveSyncedPriceRules
  <2> QED BY <1>2, <2>1, <2>2, <2>3, <2>4, <2>5 DEF TableCall
<1>3. CASE SourceCall(c)
  <2>1. CASE BillRequest(c)
    BY <2>1 DEF BillRequest
  <2>2. CASE EditPriceSource(c)
    BY <2>2 DEF EditPriceSource
  <2>3. CASE SyncPrices(c)
    BY <2>3 DEF SyncPrices
  <2>4. CASE FetchPrices(c)
    BY <2>4 DEF FetchPrices
  <2>5. CASE ViewPrices(c)
    BY <2>5 DEF ViewPrices
  <2> QED BY <1>3, <2>1, <2>2, <2>3, <2>4, <2>5 DEF SourceCall
<1> QED BY <1>1, <1>2, <1>3

LEMMA AlertCallsRest ==
    ASSUME Calling, NEW c \in Calls, AlertCall(c)
    PROVE  UNCHANGED <<Ask, creds, channel>> /\ pc[c] \notin Summing /\ pc'[c] \notin Summing
<1>1. UNCHANGED <<Ask, creds, channel>> /\ pc[c] \in {"recover", "mark", "mail"}
  BY DEF AlertCall, ClearRecovered, MarkAlert, SendAlert
<1>2. Answered(c, "ok") \/ Go(c, "mark") \/ Go(c, "mail")
  <2> HIDE DEF Go, Answered
  <2> QED BY DEF AlertCall, ClearRecovered, MarkAlert, SendAlert
<1>3. pc'[c] \in {"done", "query", "finish", "mark", "mail"}
  <2>1. CASE Answered(c, "ok")
    BY <1>1, <2>1, AnsweredMoves
  <2>2. CASE Go(c, "mark") \/ Go(c, "mail")
    BY <2>2 DEF Go, Calling
  <2> QED BY <1>2, <2>1, <2>2
<1> QED BY <1>1, <1>3 DEF Summing

LEMMA PlanCallsRest ==
    ASSUME Calling, NEW c \in Calls, PlanCall(c) \/ CredentialCall(c)
    PROVE  UNCHANGED <<Ask, creds, channel>> /\ pc[c] \notin Summing /\ pc'[c] \notin Summing
<1> USE DEF Calling, Summing, At, Go, End, costVars
<1>1. CASE QueryQuota(c)
  BY <1>1 DEF QueryQuota
<1>2. CASE JoinQuotas(c)
  BY <1>2 DEF JoinQuotas
<1>3. CASE WriteQuotaCache(c) \/ QuotaCacheExpires(c) \/ RunCheckins(c) \/ CheckinsEnd(c)
  BY <1>3 DEF WriteQuotaCache, QuotaCacheExpires, RunCheckins, CheckinsEnd
<1>4. CASE RunCostSync(c) \/ CostSyncEnd(c)
  BY <1>4 DEF RunCostSync, CostSyncEnd
<1>5. CASE CredentialCall(c)
  BY <1>5 DEF CredentialCall, FetchQuotaWithCredential, CheckinStatus, ClaimCheckin, JobCheckin
<1> QED BY <1>1, <1>2, <1>3, <1>4, <1>5 DEF PlanCall

\* What keeps the rows and their amounts.
LEMMA AmountsKept ==
    ASSUME RowsOK, NEW k, NEW on, NEW by,
           creds' = [creds EXCEPT ![k].enabled = on, ![k].by = by] \/ UNCHANGED creds,
           DOMAIN channel' = {"cost", "late"}
    PROVE  RowsOK' /\ UNCHANGED Costs(creds)
<1>1. RowsOK'
  BY DEF RowsOK, RowFields
<1>2. ASSUME NEW j \in Creds PROVE creds'[j].there = creds[j].there /\ creds'[j].cost = creds[j].cost
  BY DEF RowsOK, RowFields
<1> QED BY <1>1, <1>2 DEF Costs

\* Another amount in one row.
LEMMA RowsKept ==
    ASSUME RowsOK, NEW k, NEW amount, creds' = [creds EXCEPT ![k].cost = amount] \/ UNCHANGED creds,
           DOMAIN channel' = {"cost", "late"}
    PROVE  RowsOK'
BY DEF RowsOK, RowFields

\* A query that gives up before it has answers to add.
LEMMA GivesUp ==
    ASSUME Calling, CostInv, NEW c \in Calls, pc[c] # "done", NEW result, result # "load_failed",
           Answered(c, result), ~ Pending(c), UNCHANGED <<Ask, creds, channel>>
    PROVE  CostInv'
<1>1. OnlyCall(c) /\ pc'[c] \in {"done", "query", "finish"}
  BY AnsweredMoves
<1>2. RowsOK' /\ KeyFound(c)'
  BY <1>1 DEF CostInv, RowsOK, KeyFound
<1>3. UNCHANGED <<channel, Costs(creds)>>
  BY DEF Costs
<1> QED BY <1>1, <1>2, <1>3, SumKept

LEMMA ChargeKeepsCost ==
    ASSUME Calling, CostInv, NEW c \in Calls, ApplyCredentialUsageCost(c)
    PROVE  CostInv'
<1>1. OnlyCall(c)
  BY AmountCalls DEF AmountCall
<1>2. At(c, "charge", "start") /\ UNCHANGED <<Ask, channel>>
  BY DEF ApplyCredentialUsageCost
<1>3. CASE End(c, "ok") /\ UNCHANGED creds
  <2>1. pc'[c] = "done"
    BY <1>3 DEF End, Calling
  <2> QED BY <1>1, <1>2, <1>3, <2>1, SumRests DEF At, Summing
<1>4. CASE Go(c, "sum") /\ \E k, amount : creds' = [creds EXCEPT ![k].cost = amount]
  <2>1. pc'[c] = "sum"
    BY <1>4 DEF Go, Calling
  <2>2. RowsOK' /\ KeyFound(c)'
    <3>1. RowsOK /\ DOMAIN channel' = {"cost", "late"}
      BY <1>2 DEF CostInv, RowsOK
    <3> QED BY <1>4, <2>1, <3>1, RowsKept DEF KeyFound
  <2>3. Pending(c)'
    BY <1>2, <2>1 DEF Pending, At
  <2> QED BY <1>1, <1>2, <2>2, <2>3, SumKept
<1>5. \/ End(c, "ok") /\ UNCHANGED creds
      \/ Go(c, "sum") /\ \E k, amount : creds' = [creds EXCEPT ![k].cost = amount]
  <2> DEFINE k == Ask[c].cred
             amount == ApplyTrackedCost(creds[k].cost, Ask[c].amount)
  <2>1. \/ End(c, "ok") /\ UNCHANGED creds
        \/ Go(c, "sum") /\ creds' = [creds EXCEPT ![k].cost = amount]
    BY DEF ApplyCredentialUsageCost
  <2> QED BY <2>1
<1> QED BY <1>3, <1>4, <1>5

LEMMA QueryKeepsCost ==
    ASSUME Calling, CostInv, NEW c \in Calls, QueryCost(c)
    PROVE  CostInv'
<1>1. OnlyCall(c)
  BY AmountCalls DEF AmountCall
<1>2. pc[c] \in {"start", "query"} /\ UNCHANGED <<Ask, creds, channel>>
  BY DEF QueryCost, At, costVars
<1>3. ~ Pending(c)
  BY <1>2 DEF Pending
<1>4. CASE Answered(c, "refused")
  BY <1>2, <1>3, <1>4, GivesUp
<1>5. CASE Go(c, "ask")
  <2>1. pc'[c] = "ask"
    BY <1>5 DEF Go, Calling
  <2>2. RowsOK' /\ KeyFound(c)'
    BY <1>2, <2>1 DEF CostInv, RowsOK, KeyFound
  <2>3. UNCHANGED <<channel, Costs(creds)>>
    BY <1>2 DEF Costs
  <2> QED BY <1>1, <1>2, <1>3, <2>2, <2>3, SumKept
<1>6. Answered(c, "refused") \/ Go(c, "ask")
  BY Zenon DEF QueryCost
<1> QED BY <1>4, <1>5, <1>6

\* The next key is asked; whether it may be disabled changes no amount.
LEMMA AskKeepsCost ==
    ASSUME Calling, CostInv, NEW c \in Calls, AskUpstream(c)
    PROVE  CostInv'
<1> DEFINE rest == Tail(mem[c].queue)
           found == mem[c].plan \/ Head(mem[c].queue) # None
<1>1. OnlyCall(c)
  BY AmountCalls DEF AmountCall
<1>2. pc[c] = "ask" /\ UNCHANGED <<Ask, channel>>
  BY DEF AskUpstream
<1>3. \/ UNCHANGED creds
      \/ \E k : creds' = [creds EXCEPT ![k].enabled = FALSE, ![k].by = "relay_request"]
  BY DEF AskUpstream, ApplyCostHealthCheck
<1>4. \/ Go(c, "save") /\ \E answer : mem' = [mem EXCEPT ![c].answer = answer, ![c].plan = found]
      \/ Go(c, "ask") /\ mem' = [mem EXCEPT ![c].queue = rest, ![c].plan = found]
      \/ Go(c, "ask") /\ mem' = [mem EXCEPT ![c].queue = rest, ![c].ok = TRUE]
  <2> HIDE DEF Go
  <2> QED BY DEF AskUpstream
<1>5. found \in BOOLEAN /\ (mem[c].plan => found) /\ (Head(mem[c].queue) # None => found)
  OBVIOUS
<1> HIDE DEF rest, found
<1>6. RowsOK' /\ UNCHANGED Costs(creds)
  BY <1>2, <1>3, AmountsKept DEF CostInv, RowsOK
<1>7. KeyFound(c)' /\ (Pending(c) => Pending(c)')
  <2> USE DEF Calling, MemFields, Go
  <2>1. CASE Go(c, "save") /\ \E answer : mem' = [mem EXCEPT ![c].answer = answer, ![c].plan = found]
    <3>1. /\ pc'[c] = "save" /\ mem'[c].queue = mem[c].queue /\ mem'[c].ok = mem[c].ok
          /\ mem'[c].plan = found
      BY <2>1
    <3> QED BY <1>2, <1>5, <3>1 DEF KeyFound, Pending
  <2>2. CASE Go(c, "ask") /\ mem' = [mem EXCEPT ![c].queue = rest, ![c].plan = found]
    <3>1. pc'[c] = "ask" /\ mem'[c].ok = mem[c].ok /\ mem'[c].plan = found
      BY <2>2
    <3> QED BY <1>2, <1>5, <3>1 DEF KeyFound, Pending
  <2>3. CASE Go(c, "ask") /\ mem' = [mem EXCEPT ![c].queue = rest, ![c].ok = TRUE]
    <3>1. pc'[c] = "ask" /\ mem'[c].ok = TRUE /\ mem'[c].plan = mem[c].plan
      BY <2>3
    <3> QED BY <1>2, <3>1 DEF KeyFound, Pending
  <2> QED BY <1>4, <2>1, <2>2, <2>3
<1> QED BY <1>1, <1>2, <1>6, <1>7, SumKept

\* An answer is saved, and its query has it still to add; or the query breaks off.
LEMMA SaveKeepsCost ==
    ASSUME Calling, CostInv, NEW c \in Calls, SaveCredentialCostResult(c)
    PROVE  CostInv'
<1> DEFINE k == Head(mem[c].queue)
           amount == IF creds[k].there THEN mem[c].answer ELSE creds[k].cost
           rest == Tail(mem[c].queue)
<1>1. OnlyCall(c)
  BY AmountCalls DEF AmountCall
<1>2. Querying(c) /\ pc[c] = "save" /\ k # None /\ UNCHANGED Ask
  BY DEF SaveCredentialCostResult
<1>3. mem[c].plan
  BY <1>2 DEF CostInv, KeyFound
<1>4. CASE /\ creds' = [creds EXCEPT ![k].cost = amount] /\ Go(c, "ask") /\ UNCHANGED channel
           /\ mem' = [mem EXCEPT ![c].queue = rest, ![c].ok = TRUE, ![c].answer = None]
  <2> HIDE DEF k, amount, rest
  <2>1. pc'[c] = "ask" /\ mem'[c].ok = TRUE /\ mem'[c].plan = mem[c].plan
    BY <1>4 DEF Go, Calling, MemFields
  <2>2. RowsOK' /\ KeyFound(c)'
    BY <1>4, <2>1, RowsKept DEF CostInv, RowsOK, KeyFound
  <2>3. Pending(c)'
    BY <1>2, <1>3, <2>1 DEF Pending, Querying
  <2> QED BY <1>1, <1>2, <2>2, <2>3, SumKept
<1>5. CASE /\ Answered(c, "save_failed") /\ UNCHANGED creds
           /\ channel' = [channel EXCEPT !.late = TRUE]
  <2>1. pc'[c] \in {"done", "query", "finish"}
    BY <1>2, <1>5, AnsweredMoves
  <2>2. RowsOK' /\ KeyFound(c)'
    BY <1>5, <2>1 DEF CostInv, RowsOK, KeyFound
  <2>3. Summed'
    BY <1>5 DEF CostInv, RowsOK, Summed
  <2> QED BY <1>1, <1>2, <2>2, <2>3, SumKept
<1>6. \/ /\ creds' = [creds EXCEPT ![k].cost = amount] /\ Go(c, "ask") /\ UNCHANGED channel
         /\ mem' = [mem EXCEPT ![c].queue = rest, ![c].ok = TRUE, ![c].answer = None]
      \/ /\ Answered(c, "save_failed") /\ UNCHANGED creds
         /\ channel' = [channel EXCEPT !.late = TRUE]
  BY DEF SaveCredentialCostResult
<1> QED BY <1>4, <1>5, <1>6

\* A query that broke off before it asked changed no amount.
LEMMA MetadataKeepsCost ==
    ASSUME Calling, CostInv, NEW c \in Calls, EnsureMetadataFails(c)
    PROVE  CostInv'
<1>1. OnlyCall(c)
  BY AmountCalls DEF AmountCall
<1>2. /\ Querying(c) /\ pc[c] = "ask" /\ UNCHANGED <<Ask, creds>>
      /\ Answered(c, "metadata_failed") /\ channel' = [channel EXCEPT !.late = TRUE]
  BY DEF EnsureMetadataFails
<1>3. pc'[c] \in {"done", "query", "finish"}
  BY <1>2, AnsweredMoves
<1>4. RowsOK' /\ KeyFound(c)'
  BY <1>2, <1>3 DEF CostInv, RowsOK, KeyFound
<1>5. Summed'
  BY <1>2 DEF CostInv, RowsOK, Summed
<1> QED BY <1>1, <1>2, <1>4, <1>5, SumKept

\* The answer of a channel without keys is the channel's own.
LEMMA ChannelSaveKeepsCost ==
    ASSUME Calling, CostInv, NEW c \in Calls, SaveChannelCostResult(c)
    PROVE  CostInv'
<1>1. OnlyCall(c)
  BY AmountCalls DEF AmountCall
<1>2. Querying(c) /\ ~ Keyed(c) /\ pc[c] = "save" /\ UNCHANGED <<Ask, creds>>
  BY DEF SaveChannelCostResult
<1>3. RowsOK' /\ pc'[c] # "save"
  <2>1. CASE /\ channel' = [cost |-> mem[c].answer, late |-> FALSE]
             /\ Go(c, "notify")
    BY <1>2, <2>1 DEF CostInv, RowsOK, Go, Calling
  <2>2. CASE Answered(c, "save_failed") /\ UNCHANGED channel
    BY <1>2, <2>2, AnsweredMoves DEF CostInv, RowsOK
  <2> QED BY <2>1, <2>2, Zenon DEF SaveChannelCostResult
<1>4. KeyFound(c)'
  BY <1>3 DEF KeyFound
<1> QED BY <1>1, <1>2, <1>3, <1>4, SumKept

\* Only a query that no key answered ends without a sum.
LEMMA AllAskedKeepsCost ==
    ASSUME Calling, CostInv, NEW c \in Calls, AllAsked(c)
    PROVE  CostInv'
<1>1. OnlyCall(c)
  BY AmountCalls DEF AmountCall
<1>2. Querying(c) /\ pc[c] = "ask" /\ UNCHANGED <<Ask, creds, channel>>
  BY DEF AllAsked, costVars
<1>3. CASE (~ mem[c].plan \/ ~ mem[c].ok) /\ Answered(c, "failed")
  BY <1>2, <1>3, GivesUp DEF Pending
<1>4. CASE Go(c, "sum")
  <2>1. pc'[c] = "sum"
    BY <1>4 DEF Go, Calling
  <2>2. RowsOK' /\ KeyFound(c)'
    BY <1>2, <2>1 DEF CostInv, RowsOK, KeyFound
  <2>3. Pending(c)'
    BY <1>2, <2>1 DEF Pending, Querying
  <2> QED BY <1>1, <1>2, <2>2, <2>3, SumKept
<1>5. \/ (~ mem[c].plan \/ ~ mem[c].ok) /\ Answered(c, "failed")
      \/ Go(c, "sum")
  <2> HIDE DEF Go
  <2> QED BY Zenon DEF AllAsked
<1> QED BY <1>3, <1>4, <1>5

\* The sum is read, and written: then it is the credentials', or it is known to be late.
LEMMA SumKeepsCost ==
    ASSUME Calling, CostInv, NEW c \in Calls, SumCredentials(c) \/ RefreshChannelCostSummary(c)
    PROVE  CostInv'
<1>1. OnlyCall(c)
  BY AmountCalls DEF AmountCall
<1>2. CASE SumCredentials(c)
  <2>1. pc[c] = "sum" /\ pc'[c] = "total" /\ UNCHANGED <<Ask, creds, channel>>
    BY <1>2 DEF SumCredentials, Go, Calling, costVars
  <2>2. RowsOK' /\ KeyFound(c)' /\ UNCHANGED <<channel, Costs(creds)>>
    BY <2>1 DEF CostInv, RowsOK, KeyFound, Costs
  <2>3. Pending(c) => Pending(c)'
    BY <2>1 DEF Pending
  <2> QED BY <1>1, <2>1, <2>2, <2>3, SumKept
<1>3. CASE RefreshChannelCostSummary(c)
  <2>1. UNCHANGED <<Ask, creds>> /\ pc[c] = "total"
    BY <1>3 DEF RefreshChannelCostSummary
  <2>2. Costs(creds)' = Costs(creds)
    BY <2>1 DEF Costs
  <2>3. CASE /\ channel' = [cost |-> mem[c].sum, late |-> mem[c].sum # SingleSummary(Costs(creds))]
             /\ Go(c, "notify")
    <3>1. pc'[c] = "notify"
      BY <2>3 DEF Go, Calling
    <3>2. RowsOK' /\ KeyFound(c)'
      BY <2>1, <2>3, <3>1 DEF CostInv, RowsOK, KeyFound
    <3>3. Summed'
      BY <2>2, <2>3 DEF Summed
    <3> QED BY <1>1, <2>1, <3>2, <3>3, SumKept
  <2>4. CASE Answered(c, "sum_failed") /\ channel' = [channel EXCEPT !.late = TRUE]
    <3>1. pc'[c] \in {"done", "query", "finish"}
      BY <2>1, <2>4, AnsweredMoves
    <3>2. RowsOK' /\ KeyFound(c)' /\ Summed'
      BY <2>1, <2>4, <3>1 DEF CostInv, RowsOK, KeyFound, Summed
    <3> QED BY <1>1, <2>1, <3>2, SumKept
  <2> QED BY <1>3, <2>3, <2>4, Zenon DEF RefreshChannelCostSummary
<1> QED BY <1>2, <1>3

LEMMA DeleteKeepsCost ==
    ASSUME Calling, CostInv, NEW c \in Calls, DeleteCredential(c)
    PROVE  CostInv'
<1>1. OnlyCall(c)
  BY AmountCalls DEF AmountCall
<1>2. /\ pc'[c] = "done" /\ UNCHANGED Ask /\ channel' = [channel EXCEPT !.late = TRUE]
      /\ creds' = [creds EXCEPT ![Ask[c].cred].there = FALSE]
  BY DEF DeleteCredential, End, Calling
<1>3. RowsOK' /\ KeyFound(c)' /\ Summed'
  BY <1>2 DEF CostInv, RowsOK, RowFields, KeyFound, Summed
<1> QED BY <1>1, <1>2, <1>3, SumKept

LEMMA RestoreKeepsCost ==
    ASSUME Calling, CostInv, NEW c \in Calls, RestoreCredential(c)
    PROVE  CostInv'
<1>1. OnlyCall(c)
  BY AmountCalls DEF AmountCall
<1>2. pc[c] = "restore" /\ UNCHANGED <<Ask, channel>>
  BY DEF RestoreCredential, At
<1>3. pc'[c] \in {"done", "restore"}
  <2>1. End(c, "ok") \/ Go(c, "restore")
    <3> HIDE DEF End, Go
    <3> QED BY DEF RestoreCredential
  <2> QED BY <2>1 DEF End, Go, Calling
<1>4. \/ UNCHANGED creds
      \/ \E k : creds' = [creds EXCEPT ![k].enabled = TRUE, ![k].by = ""]
  BY DEF RestoreCredential
<1>5. RowsOK' /\ UNCHANGED Costs(creds)
  BY <1>2, <1>4, AmountsKept DEF CostInv, RowsOK
<1>6. ~ Pending(c) /\ KeyFound(c)'
  BY <1>2, <1>3 DEF Pending, KeyFound
<1> QED BY <1>1, <1>2, <1>5, <1>6, SumKept

LEMMA OtherAmountCallsRest ==
    ASSUME Calling, CostInv, NEW c \in Calls,
           ChannelsBalance(c) \/ NotifyChannelLowBalance(c) \/ ListDisabledByCostQuery(c)
    PROVE  CostInv'
<1>1. OnlyCall(c)
  BY AmountCalls DEF AmountCall
<1>2. UNCHANGED <<Ask, creds, channel>> /\ pc[c] \in {"start", "notify"}
  BY DEF ChannelsBalance, NotifyChannelLowBalance, ListDisabledByCostQuery, At, costVars
<1>3. pc'[c] \in {"done", "query", "finish", "recover", "restore"}
  <2>1. CASE Answered(c, "ok")
    BY <1>2, <2>1, AnsweredMoves
  <2>2. CASE Go(c, "done") \/ Go(c, "recover") \/ Go(c, "restore")
    BY <2>2 DEF Go, Calling
  <2>3. Answered(c, "ok") \/ Go(c, "done") \/ Go(c, "recover") \/ Go(c, "restore")
    <3> HIDE DEF Answered, Go
    <3> QED BY DEF ChannelsBalance, NotifyChannelLowBalance, ListDisabledByCostQuery
  <2> QED BY <2>1, <2>2, <2>3
<1> QED BY <1>1, <1>2, <1>3, SumRests DEF Summing

LEMMA KeepsCost == Calling /\ CostInv /\ [Next]_vars => CostInv'
<1> SUFFICES ASSUME Calling, CostInv, [Next]_vars PROVE CostInv'
  OBVIOUS
<1>1. ASSUME NEW c \in Calls, LoadCall(c) \/ TableCall(c) \/ SourceCall(c), UNCHANGED costVars
      PROVE  CostInv'
  <2>1. OnlyCall(c)
    BY <1>1, LoadCalls, TableCalls, SourceCalls
  <2> QED BY <1>1, <2>1, PriceCallsRest, SumRests DEF costVars
<1>2. ASSUME NEW c \in Calls, AmountCall(c) PROVE CostInv'
  BY <1>2, ChargeKeepsCost, QueryKeepsCost, AskKeepsCost, MetadataKeepsCost, SaveKeepsCost,
     ChannelSaveKeepsCost,
     AllAskedKeepsCost, SumKeepsCost, DeleteKeepsCost, RestoreKeepsCost, OtherAmountCallsRest
     DEF AmountCall
<1>3. ASSUME NEW c \in Calls, AlertCall(c) PROVE CostInv'
  BY <1>3, AlertCalls, AlertCallsRest, SumRests
<1>4. ASSUME NEW c \in Calls, PlanCall(c) \/ CredentialCall(c) PROVE CostInv'
  BY <1>4, PlanCalls, CredentialCalls, PlanCallsRest, SumRests
<1>5. CASE UNCHANGED vars
  <2>1. UNCHANGED <<Ask, pc, mem, creds, channel>>
    BY <1>5 DEF vars, costVars
  <2>2. Costs(creds)' = Costs(creds)
    BY <2>1 DEF Costs
  <2> QED BY <2>1, <2>2 DEF CostInv, RowsOK, KeyFound, Summed, Pending, Querying, Keyed
<1> QED BY <1>1, <1>2, <1>3, <1>4, <1>5, NextSteps

\* channel/cost_tracking.go:93 and cost.go:89: whatever the charges, the queries and the
\* daily job of any number of calls do in between, a channel shows another sum than its
\* credentials' only while a call that will write it is on its way, or when it is known
\* to be late; where nothing is on its way, it shows the sum.
THEOREM SumFollowsTheAmounts == Spec => [](CostInv /\ SummaryFollowsCredentials)
<1>1. CostInv => SummaryFollowsCredentials
  <2> SUFFICES ASSUME CostInv, ~ channel.late,
                      \A c \in Calls : Ask[c].op \in {"charge", "cost", "daily"} =>
                          pc[c] \in {"start", "done"} /\ (Querying(c) => Keyed(c))
               PROVE  channel.cost = SingleSummary(Costs(creds))
    BY DEF SummaryFollowsCredentials
  <2>1. ASSUME NEW c \in Calls PROVE ~ Pending(c) /\ ~ (Querying(c) /\ ~ Keyed(c))
    BY DEF Pending, Querying
  <2> QED BY <2>1 DEF CostInv, Summed
<1> QED BY <1>1, StartCalling, KeepsCalling, StartCostInv, KeepsCost, PTL DEF Spec
=============================================================================
