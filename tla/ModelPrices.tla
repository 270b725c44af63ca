----------------------------- MODULE ModelPrices -----------------------------
(***************************************************************************)
(* The prices of the public models: the tables model_prices and            *)
(* model_price_rules, the snapshot of them every request is billed from    *)
(* (src/internal/logic/pricingcache), and what writes them: the            *)
(* administration (channel/pricing.go, models.go), the sources of prices   *)
(* (src/internal/logic/pricesource) and the synchronisation                *)
(* (channel/price_sync.go, price_rules_sync.go, price_public.go).          *)
(*                                                                         *)
(* A call is an API call of the administration or a request; Ask says what *)
(* each asks. The transaction of a synchronisation reads the prices        *)
(* without a lock, so another call's price may come between that read and  *)
(* its commit; every other write is one statement.                         *)
(***************************************************************************)
EXTENDS PriceRules
LOCAL INSTANCE SequencesExt
LOCAL INSTANCE FiniteSetsExt

CONSTANTS
    Calls,
    Asks,         \* what the calls may ask: a set of functions on Calls
    ChannelModels,\* the rows of channel_models: [public, upstream]
    StartPrices,  \* public name -> its row in the beginning, or None
    StartRules,
    Answer,       \* price source -> what it answers
    BuiltIn       \* the built-in price sources

VARIABLES
    Ask,      \* call -> [op, ...], what it asks
    pc,       \* call -> its next step
    mem,      \* call -> its local variables
    prices,   \* public name -> [mode, rates], or None
    rules,    \* the price rules
    nextId,
    sources,  \* price source -> [there, enabled]
    snapshot  \* [prices, rules, late]: what requests are billed from

tableVars == <<prices, rules, nextId, sources>>
priceVars == <<prices, rules, nextId, sources, snapshot>>

Publics == {m.public : m \in ChannelModels}

Start == [result |-> "", prices |-> None, rules |-> None, plan |-> None, n |-> 0,
          bill |-> None, queue |-> <<>>, sum |-> None, answer |-> None, ok |-> FALSE, low |-> None,
          keys |-> None, views |-> None]

StartPricing ==
    /\ Ask \in Asks
    /\ pc = [c \in Calls |-> "start"]
    /\ mem = [c \in Calls |-> Start]
    /\ prices = StartPrices
    /\ rules = StartRules
    /\ nextId = 10
    /\ sources = [s \in DOMAIN Answer |-> [there |-> TRUE, enabled |-> TRUE]]
    /\ snapshot = [prices |-> StartPrices, rules |-> {r \in StartRules : r.enabled}, late |-> FALSE]

At(c, op, step) == Ask[c].op = op /\ pc[c] = step
Go(c, step) == pc' = [pc EXCEPT ![c] = step]
Keep(c, field, value) == mem' = [mem EXCEPT ![c][field] = value]
End(c, result) ==
    /\ pc' = [pc EXCEPT ![c] = "done"]
    /\ mem' = [mem EXCEPT ![c] = [Start EXCEPT !.result = result, !.bill = mem[c].bill]]

-----------------------------------------------------------------------------
(* Loading the snapshot: the prices, the rules, and the store are three     *)
(* steps. late: a ghost, the tables had changed when it was stored.         *)

Enabled(rs) == {r \in rs : r.enabled}

LoadPrices(c) ==
    /\ pc[c] = "load"
    /\ Go(c, "loadRules") /\ Keep(c, "prices", prices)
    /\ UNCHANGED <<Ask, priceVars>>

LoadRules(c) ==
    /\ pc[c] = "loadRules"
    /\ Go(c, "store") /\ Keep(c, "rules", Enabled(rules))
    /\ UNCHANGED <<Ask, priceVars>>

StoreSnapshot(c) ==
    /\ pc[c] = "store"
    /\ snapshot' = [prices |-> mem[c].prices, rules |-> mem[c].rules,
                    late |-> mem[c].prices # prices \/ mem[c].rules # Enabled(rules)]
    /\ IF mem[c].queue = <<>> THEN End(c, "ok")
       ELSE Go(c, "next") /\ mem' = [mem EXCEPT ![c].prices = None, ![c].rules = None]
    /\ UNCHANGED <<Ask, tableVars>>

\* Either query may fail: the call fails and the old snapshot stays.
LoadFails(c) ==
    /\ pc[c] \in {"load", "loadRules"}
    /\ Ask[c].fails
    /\ End(c, "load_failed")
    /\ UNCHANGED <<Ask, priceVars>>

-----------------------------------------------------------------------------
(* Billing from the snapshot.                                               *)

\* A model with rules but no price of its own is billed by its rules.
ModeOf(p) ==
    LET row == snapshot.prices[p]
    IN IF row # None THEN row.mode
       ELSE IF \E r \in snapshot.rules : r.model = p THEN "rules" ELSE "none"

RulesOf(p) == {r \in snapshot.rules : r.model = p}
Only(rates, kinds) == [k \in DOMAIN rates \cap kinds |-> rates[k]]

EstimateFor(p, request, failed) ==
    LET rates == snapshot.prices[p].rates
    IN CASE ModeOf(p) = "rules" -> EstimateRuleBreakdown(RulesOf(p), request, failed)
         [] ModeOf(p) = "request" -> EstimateBreakdown(request.tokens, Only(rates, {"request"}), failed)
         [] ModeOf(p) = "token" -> EstimateBreakdown(request.tokens, rates, failed)
         [] OTHER -> {}

IsPriced(p) ==
    CASE ModeOf(p) = "rules" -> RulesOf(p) # {}
      [] ModeOf(p) = "request" -> "request" \in DOMAIN snapshot.prices[p].rates
      [] ModeOf(p) = "token" -> DOMAIN snapshot.prices[p].rates \ {"request"} # {}
      [] OTHER -> FALSE

\* A failure's bill shows the same prices and charges nothing. A priced model without a bill
\* is an answer without usable usage.
BillRequest(c) ==
    /\ At(c, "bill", "start")
    /\ LET bill == EstimateFor(Ask[c].public, Ask[c].request, FALSE)
       IN IF bill = {} /\ IsPriced(Ask[c].public) THEN End(c, "missing_usage")
          ELSE /\ pc' = [pc EXCEPT ![c] = "done"]
               /\ mem' = [mem EXCEPT ![c].result = "ok", ![c].bill = BillTotal(bill)]
    /\ UNCHANGED <<Ask, priceVars>>

-----------------------------------------------------------------------------
(* Administration.                                                          *)

TokenParts == {"input", "cachedInput", "cacheWrite", "output", "imageInput", "audioInput", "audioOutput"}

\* What a price set by hand leaves of the row: the token prices are replaced in token mode,
\* the price per request in request mode, and every given value is taken.
Saved(row, mode, given) ==
    LET old == IF row = None THEN <<>> ELSE row.rates
        replaced == CASE mode = "token" -> TokenParts [] mode = "request" -> {"request"} [] OTHER -> {}
    IN [mode |-> mode,
        rates |-> [k \in DOMAIN given \cup (DOMAIN old \ replaced) |->
                      IF k \in DOMAIN given THEN given[k] ELSE old[k]]]

\* On a channel's model row the mode becomes token, whatever it was.
UpdateModel(c) ==
    /\ At(c, "editModel", "start")
    /\ prices' = [prices EXCEPT ![Ask[c].public] = Saved(@, "token", Ask[c].rates)]
    /\ Go(c, "load") /\ UNCHANGED mem
    /\ UNCHANGED <<Ask, rules, nextId, sources, snapshot>>

UpdatePublicModelPrice(c) ==
    /\ At(c, "editPrice", "start")
    /\ prices' = [prices EXCEPT ![Ask[c].public] = Saved(@, Ask[c].mode, Ask[c].rates)]
    /\ Go(c, "load") /\ UNCHANGED mem
    /\ UNCHANGED <<Ask, rules, nextId, sources, snapshot>>

\* A window that cannot be read is refused here, a request would never match it.
ValidRule(conditions) == conditions.time = None \/ conditions.time.valid

Rule(id, model, source, priority, conditions, rates) ==
    [id |-> id, model |-> model, source |-> source, priority |-> priority, enabled |-> TRUE,
     conditions |-> conditions, rates |-> rates]

\* on: the rule's status. The caller says whether the rule counts as synced.
CreatePriceRule(c) ==
    /\ At(c, "createRule", "start")
    /\ IF ValidRule(Ask[c].conditions)
       THEN /\ \E source \in {"manual", "sync"} :
                  LET rule == Rule(nextId, Ask[c].public, source, Ask[c].priority,
                                   Ask[c].conditions, Ask[c].rates)
                  IN rules' = rules \cup {[rule EXCEPT !.enabled = Ask[c].on]}
            /\ nextId' = nextId + 1
            /\ Go(c, "load") /\ UNCHANGED mem
       ELSE End(c, "refused") /\ UNCHANGED <<rules, nextId>>
    /\ UNCHANGED <<Ask, prices, sources, snapshot>>

\* The source of a rule stays: an edited synced rule goes with the next synchronisation.
UpdatePriceRule(c) ==
    LET old == {r \in rules : r.id = Ask[c].id}
    IN /\ At(c, "updateRule", "start")
       /\ IF ValidRule(Ask[c].conditions) /\ old # {}
          THEN /\ rules' = (rules \ old) \cup
                    {[r EXCEPT !.conditions = Ask[c].conditions, !.rates = Ask[c].rates,
                               !.priority = Ask[c].priority, !.enabled = Ask[c].on] : r \in old}
               /\ Go(c, "load") /\ UNCHANGED mem
          ELSE End(c, "refused") /\ UNCHANGED rules
       /\ UNCHANGED <<Ask, prices, nextId, sources, snapshot>>

\* Bug: a deleted rule is billed until something else loads the snapshot.
MutDeletePriceRule(c) ==
    LET old == {r \in rules : r.id = Ask[c].id}
    IN /\ At(c, "deleteRule", "start")
       /\ rules' = rules \ old
       /\ End(c, IF old = {} THEN "not_found" ELSE "ok")
       /\ UNCHANGED <<Ask, prices, nextId, sources, snapshot>>

DeletePriceRule(c) ==
    LET old == {r \in rules : r.id = Ask[c].id}
    IN /\ At(c, "deleteRule", "start")
       /\ rules' = rules \ old
       /\ IF old = {} THEN End(c, "not_found") ELSE Go(c, "load") /\ UNCHANGED mem
       /\ UNCHANGED <<Ask, prices, nextId, sources, snapshot>>

\* A price source is created, changed, or deleted unless it came with the program. The
\* prices it brought stay.
EditPriceSource(c) ==
    LET s == Ask[c].source
    IN /\ At(c, "editSource", "start")
       /\ \/ sources' = [sources EXCEPT ![s] = [there |-> TRUE, enabled |-> Ask[c].on]] /\ End(c, "ok")
          \/ /\ IF sources[s].there /\ s \notin BuiltIn
                THEN sources' = [sources EXCEPT ![s].there = FALSE] /\ End(c, "ok")
                ELSE End(c, "refused") /\ UNCHANGED sources
       /\ UNCHANGED <<Ask, prices, rules, nextId, snapshot>>

-----------------------------------------------------------------------------
(* Synchronisation, of one source or of a list of them; a source that fails *)
(* does not keep the others from being read.                                *)

SyncPrices(c) ==
    /\ At(c, "sync", "start")
    /\ Go(c, "next") /\ Keep(c, "queue", Ask[c].list)
    /\ UNCHANGED <<Ask, priceVars>>

FetchPrices(c) ==
    LET s == Head(mem[c].queue)
        Plan(fetched) ==
            LET plan == BuildPublicRulePlan(ChannelModels, fetched.rules)
            IN [rules |-> plan, stale |-> StaleSyncedPriceModels(ChannelModels, plan, fetched.skips)]
    IN /\ pc[c] = "next"
       /\ IF mem[c].queue = <<>> THEN End(c, "ok")
          ELSE \E fetched \in {IF sources[s].there /\ sources[s].enabled THEN SyncedRules(Answer[s]) ELSE None} :
               IF fetched = None THEN Go(c, "next") /\ Keep(c, "queue", Tail(mem[c].queue))
               ELSE /\ Go(c, "view")
                    /\ mem' = [mem EXCEPT ![c].queue = Tail(@), ![c].plan = Plan(fetched)]
       /\ UNCHANGED <<Ask, priceVars>>

\* The prices as the transaction sees them.
ViewPrices(c) ==
    /\ pc[c] = "view"
    /\ Go(c, "commit") /\ Keep(c, "prices", prices)
    /\ UNCHANGED <<Ask, priceVars>>

\* Bug: the rules are stored as if the oldest were tried first.
MutNewRules(p, synced) ==
    LET ordered == Reverse(OrderSyncedRules(synced))
    IN {Rule(nextId + i, p, "sync", 0, ordered[i].conditions, ordered[i].rates) : i \in DOMAIN ordered}

NewRules(p, synced) ==
    LET ordered == OrderSyncedRules(synced)
    IN {Rule(nextId + i, p, "sync", 0, ordered[i].conditions, ordered[i].rates) : i \in DOMAIN ordered}

Merged(rates, synced) ==
    FoldLeft(LAMBDA sofar, r : IF RuleHasConditions(r) THEN sofar ELSE KeepUnset(sofar, r.rates),
             rates, synced)

RatesIn(table, p) == IF table[p] = None THEN <<>> ELSE table[p].rates

\* Only the values the merge found missing are written, over what the row now holds. Tiered
\* prices switch the model to its rules, and nothing switches it back.
MergePublicPrice(p, seen, synced) ==
    LET before == RatesIn(seen, p)
        after == Merged(before, synced)
        written == {k \in DOMAIN after : k \notin DOMAIN before \/ after[k] # before[k]}
        now == RatesIn(prices, p)
        tiered == \E i \in DOMAIN synced : RuleHasConditions(synced[i])
        switched == tiered /\ (seen[p] = None \/ seen[p].mode # "rules")
    IN IF prices[p] = None /\ written = {} /\ ~tiered THEN None
       ELSE [mode |-> IF switched THEN "rules"
                      ELSE IF prices[p] = None THEN "token" ELSE prices[p].mode,
             rates |-> [k \in written \cup DOMAIN now |-> IF k \in written THEN after[k] ELSE now[k]]]

ClearZeroPublicPrice(p, seen) ==
    LET zero == {k \in DOMAIN RatesIn(seen, p) : seen[p].rates[k] = 0}
    IN IF prices[p] = None THEN None
       ELSE [prices[p] EXCEPT !.rates = [k \in DOMAIN @ \ zero |-> @[k]]]

\* The synced rules of a planned model are replaced, whichever source they came from; those
\* of a stale model go, and its zero prices with them.
SaveSyncedPriceRules(c) ==
    LET plan == mem[c].plan.rules
        stale == mem[c].plan.stale
        seen == mem[c].prices
    IN /\ pc[c] = "commit"
       /\ rules' = {r \in rules : r.source # "sync" \/ r.model \notin DOMAIN plan \cup stale}
                      \cup UNION {NewRules(p, plan[p]) : p \in DOMAIN plan}
       /\ nextId' = nextId + 5
       /\ prices' = [p \in DOMAIN prices |->
                        IF p \in DOMAIN plan THEN MergePublicPrice(p, seen, plan[p])
                        ELSE IF p \in stale THEN ClearZeroPublicPrice(p, seen) ELSE prices[p]]
       /\ Go(c, "load") /\ mem' = [mem EXCEPT ![c].plan = None, ![c].prices = None]
       /\ UNCHANGED <<Ask, sources, snapshot>>

PriceStep(c) ==
    \/ LoadPrices(c) \/ LoadRules(c) \/ StoreSnapshot(c) \/ LoadFails(c) \/ BillRequest(c)
    \/ UpdateModel(c) \/ UpdatePublicModelPrice(c)
    \/ CreatePriceRule(c) \/ UpdatePriceRule(c) \/ DeletePriceRule(c) \/ EditPriceSource(c)
    \/ SyncPrices(c) \/ FetchPrices(c) \/ ViewPrices(c) \/ SaveSyncedPriceRules(c)
=============================================================================
