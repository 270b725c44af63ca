------------------------------- MODULE Settlement -------------------------------
(***************************************************************************)
(* Prices, costs and quotas together: the calls of the administration and  *)
(* the background jobs that keep what requests are billed from (module     *)
(* ModelPrices), what the upstreams' accounts have left (ChannelCosts) and *)
(* what their plans allow (QuotaQuery).                                    *)
(***************************************************************************)
EXTENDS QuotaQuery

CONSTANT Requests   \* requests a price is looked at for: [endpoint, tokens, at]

vars == <<Ask, pc, mem, priceVars, costVars, quotaVars>>

Init == StartPricing /\ StartCosts /\ StartQuotas

Finished == \A c \in Calls : pc[c] = "done" \/ Ask[c].op = "idle"

Next ==
    \/ \E c \in Calls : \/ PriceStep(c) /\ UNCHANGED <<costVars, quotaVars>>
                        \/ CostStep(c) /\ UNCHANGED quotaVars
                        \/ QuotaStep(c)
    \/ Finished /\ UNCHANGED vars

Spec == Init /\ [][Next]_vars

-----------------------------------------------------------------------------
(* Properties. *)

\* pricingcache/service.go:74: once every write of a price or a rule has loaded the snapshot,
\* requests are billed from the tables as they are, unless two loads overlapped or
\* one failed.
SnapshotFollowsPrices ==
    (\A c \in Calls : pc[c] \notin {"load", "loadRules", "store"} /\ mem[c].result # "load_failed")
        /\ ~snapshot.late
    => snapshot.prices = prices /\ snapshot.rules = Enabled(rules)

Priced(rule) == [conditions |-> rule.conditions, rates |-> rule.rates]

\* channel/price_expr.go with price_rules_sync.go: a model whose rules are the branches of one
\* billing expression charges a request what the expression, read from its root, says it
\* costs: the order the branches are stored in and tried in makes up for what a
\* branch does not say of the conditions beside it. Not so where a schedule of
\* the expression is read as another time (price_expr_condition.go:152-239: a range
\* that ends at 24:00, some comparisons of weekdays) or stands below another's.
RulesPriceLikeTheExpression ==
    \A s \in DOMAIN Answer, p \in Publics :
        Answer[s].kind = "expressions" =>
        \A i \in DOMAIN Answer[s].items :
            LET e == Answer[s].items[i].expression
            IN /\ \A r \in RulesOf(p) : r.source = "sync"
               /\ \E branches \in {FromBillingExpression(Answer[s].items[i]).rules} :
                     /\ branches # <<>>
                     /\ {Priced(r) : r \in RulesOf(p)} = {Priced(branches[j]) : j \in DOMAIN branches}
               => \A q \in Requests :
                     LET meant == EstimateBreakdown(q.tokens, Leaf(e, q), FALSE)
                     IN Expressible(e, q) /\ meant # {} => EstimateRuleBreakdown(RulesOf(p), q, FALSE) = meant

\* channel/cost_tracking.go:93 and cost.go:89: when every charge and query has come to its
\* end, the channel shows the sum of its credentials' amounts, or nothing if they are
\* of several currencies, unless the sum was read before another's change, or a
\* credential was deleted or a call broke off while saving since it was written.
SummaryFollowsCredentials ==
    (\A c \in Calls : Ask[c].op \in {"charge", "cost", "daily"} =>
                         pc[c] \in {"start", "done"} /\ (Querying(c) => Keyed(c)))
        /\ ~channel.late
    => channel.cost = SingleSummary(Costs(creds))

\* mail/channel_balance.go:36: a threshold is mailed about again only after its reminder was
\* cleared by a charge or query that had read a balance at or above it (perhaps not the
\* latest), however many notice a low one at once and whichever mails fail.
AlertedOncePerDip ==
    \A t \in Thresholds : alerts.mails[t] <= alerts.recovered[t] + 1
=============================================================================
