------------------------------ MODULE MCSettlement ------------------------------
(* Three calls at a time, of one kind of work at a time, on two public models, five  *)
(* price sources and one channel with two credentials.                        *)
EXTENDS Settlement, TLC
LOCAL INSTANCE Functions

CONSTANTS k1, k2, a, b, c

P1 == Name("one", None, FALSE, FALSE)
P2 == Name("two", None, FALSE, FALSE)
MCChannelModels == {[public |-> P1, upstream |-> Name("one", "acme", TRUE, FALSE)],
                    [public |-> P2, upstream |-> Name("two", None, FALSE, TRUE)]}

Leaf2(input, output) == [kind |-> "leaf", terms |-> [p |-> input, c |-> output]]
Night == [valid |-> TRUE, days |-> {}, hours |-> {1}]
Between(from, to) == [from |-> from, after |-> FALSE, to |-> to, through |-> FALSE]
Compared(op, day) == [op |-> op, day |-> day]
When(weekdays, spans) ==
    [zone |-> "known", anyDay |-> FALSE, weekdays |-> weekdays, spans |-> spans, others |-> {}]
Workdays == <<Compared(">=", 1), Compared("<=", 5)>>
AtNight == When(<<>>, {Between(1, 2)})
Evenings == When(Workdays, {Between(1, 2), Between(22, 24)})

Scheduled(when, yes, no) == [kind |-> "schedule", when |-> when, yes |-> yes, no |-> no]
Lengthy(op, bound, yes, no) == [kind |-> "length", op |-> op, bound |-> bound, yes |-> yes, no |-> no]
Param(yes, no) == [kind |-> "param", yes |-> yes, no |-> no]
Expression ==
    Scheduled(AtNight,
              Lengthy("<=", 2, [kind |-> "leaf", terms |-> [p |-> 1, c |-> 2, cr |-> 1]],
                      Param(Leaf2(8, 8), Leaf2(2, 4))),
              [kind |-> "leaf", terms |-> [p |-> 3, c |-> 3, cc1h |-> 9]])
Tiered == Lengthy(">", 2, Scheduled(Evenings, Leaf2(6, 6), Leaf2(4, 4)),
                  Scheduled(When(Workdays, {}), Leaf2(3, 3), Leaf2(1, 1)))
Zero == [kind |-> "leaf", terms |-> [p |-> 0]]

Item0 == [model |-> P1, mode |-> None, expression |-> Zero, rates |-> None, conditions |-> NoConditions,
          ratio |-> 0, completion |-> 1, cache |-> None, price |-> None]
MCAnswer ==
    "expr" :> [kind |-> "expressions",
               items |-> <<[Item0 EXCEPT !.expression = Expression, !.mode = "tiered_expr"],
                           [Item0 EXCEPT !.model = P2, !.mode = "other"]>>]
    @@ "tiers" :> [kind |-> "expressions",
                   items |-> <<[Item0 EXCEPT !.model = P2, !.expression = Tiered],
                               [Item0 EXCEPT !.expression = Lengthy("<", 0, Leaf2(1, 1), Leaf2(1, 1))]>>]
    @@ "list" :> [kind |-> "list",
                  items |-> <<[Item0 EXCEPT !.model = Name("one", "acme", TRUE, FALSE), !.rates = [input |-> 5]],
                              [Item0 EXCEPT !.model = Name("two", "acme", FALSE, FALSE),
                                            !.rates = [input |-> 0, output |-> 2]]>>]
    @@ "ratio" :> [kind |-> "ratio",
                   items |-> <<[Item0 EXCEPT !.ratio = 2, !.cache = 1],
                               [Item0 EXCEPT !.model = Name("two", None, TRUE, TRUE), !.price = 0]>>]
    @@ "down" :> [kind |-> "error", items |-> <<>>]

MCStartPrices == P1 :> None @@ P2 :> [mode |-> "token", rates |-> [input |-> 1, output |-> 0]]
MCStartRules == {Rule(1, P2, "sync", 0, NoConditions, [output |-> 1])}

Small == [input |-> 1, output |-> 1]
Large == [input |-> 4, output |-> 1, cachedInput |-> 3]
MCRequests == {[endpoint |-> "chat", tokens |-> t, at |-> [day |-> 1, hour |-> h]] : t \in {Small, Large}, h \in {1, 2}}
              \cup {[endpoint |-> "chat", tokens |-> Large, at |-> [day |-> d, hour |-> 22]] : d \in {5, 6}}

Said(status, ok, values, items) ==
    [status |-> status, ok |-> ok, values |-> values, names |-> <<>>, items |-> items, level |-> "pro"]
Wallet(used, rest) == Said(200, TRUE, ("used" :> used) @@ ("balance" :> rest), <<>>)
MCSays == k1 :> {Wallet(1, 6), Said(402, FALSE, <<>>, <<>>)} @@ k2 :> {Wallet(2, 3)} @@ None :> {Wallet(4, 5)}

Package(total, rest) == [total |-> total, remaining |-> rest]
Limit(type, percent, reset) == [type |-> type, percent |-> percent, reset |-> reset]
PlanOf(items) == Said(200, TRUE, <<>>, items)
Buddies == k1 :> {PlanOf(<<Package(10, 4), Package(10, 4), Package(0, 3)>>)}
           @@ k2 :> {PlanOf(<<Package(10, 8)>>), Said(401, FALSE, <<>>, <<>>)}
Limits == k1 :> {PlanOf(<<Limit("TOKENS_LIMIT", 30, 9), Limit("TIME_LIMIT", 1, 2), Limit("CREDIT_LIMIT", 10, 5)>>)}
          @@ k2 :> {PlanOf(<<Limit("TOKENS_LIMIT", 20, 7)>>), Said(403, FALSE, <<>>, <<>>)}
Used(total, used, reset) == [total |-> total, used |-> used, reset |-> reset]
Afp == k1 :> {PlanOf("five_hour" :> Used(10, 2, 3) @@ "weekly" :> Used(0, 0, 5))}
       @@ None :> {PlanOf("five_hour" :> Used(10, 6, 2)), Said(0, FALSE, <<>>, <<>>)}
Budget(percent) == [percent |-> percent, reset |-> 4]
GoPlan == k1 :> {PlanOf("monthly" :> Budget(50) @@ "weekly" :> Budget(10))} @@ k2 :> {PlanOf("weekly" :> Budget(30))}
MCPlans == "workbuddy_credits" :> Buddies @@ "zhipu" :> Limits @@ "volcengine_afp" :> Afp @@ "opencode_go" :> GoPlan

MCCredentials == <<k1, k2>>

Dollars(used, rest) == [currency |-> "USD", used |-> used, remaining |-> rest]
MCStartCredentials ==
    k1 :> [there |-> TRUE, enabled |-> TRUE, by |-> "", own |-> TRUE, cost |-> Dollars(1, 3)]
    @@ k2 :> [there |-> TRUE, enabled |-> FALSE, by |-> "cost_query", own |-> FALSE, cost |-> NoCost]

Type(adapter, auth, quota) ==
    [adapter |-> adapter, auth |-> auth, usage |-> FALSE, currency |-> "", paths |-> <<>>, quota |-> quota]
ByKey == Type("sub2api", "channel_key", "")
Plan(quota) == Type("", "channel_key", quota)

Idle3 == [op |-> "idle", public |-> P1, mode |-> "token", rates |-> [input |-> 7], conditions |-> NoConditions,
          priority |-> 0, id |-> 1, source |-> "list", on |-> TRUE, list |-> <<>>, fails |-> FALSE,
          request |-> CHOOSE q \in MCRequests : q.tokens = Large /\ q.at.hour = 1,
          type |-> ByKey, cred |-> None, amount |-> 1]
Call(op) == [Idle3 EXCEPT !.op = op]
Sync(list) == [Call("sync") EXCEPT !.list = list]
Charge(k, amount) == [Call("charge") EXCEPT !.cred = k, !.amount = amount]
Query(op, type) == [Call(op) EXCEPT !.type = type]
Faulty(call) == [call EXCEPT !.fails = TRUE]
NoReading == [NoConditions EXCEPT !.time = [Night EXCEPT !.valid = FALSE]]
Of(first, second, third) == (a :> first) @@ (b :> second) @@ (c :> third)

-----------------------------------------------------------------------------
(* What the pure operators promise, over small inputs.                       *)

\* usage/billing.go: where every kind of token has the same price, a bill charges the tokens
\* of the total once each, however the upstream splits them up.
ASSUME EachTokenBilledOnce ==
    \A input \in 0..3, cached, written, image \in 0..2 :
        LET tokens == [input |-> input, cachedInput |-> cached, cacheWrite |-> written, imageInput |-> image]
        IN BillTotal(EstimateBreakdown(tokens, [input |-> 1], FALSE)) = input

\* schedule/schedule.go:180: the time shown is one ahead at which the job may run; after the
\* last hour of a day the next midnight is shown even if the job begins later.
ASSUME NextRunIsAhead ==
    \A now \in 0..47, hour \in 0..23, every \in 1..3 :
        LET daily == NextRun("daily_at", now, every, hour)
            hourly == NextRun("hourly_after", now, every, hour)
        IN /\ NextRun("interval", now, every, hour) > now /\ NextRun("event", now, every, hour) = 0
           /\ daily > now /\ daily <= now + 24 /\ daily % 24 = hour
           /\ hourly > now /\ (now % 24 # 23 => hourly % 24 >= hour)

\* channel/cost_tracking.go:161: the channel's sum adds each amount of each credential that
\* is there once, shows none where no credential has one, and is nothing at all where
\* the credentials have none or several currencies.
ASSUME SummaryAddsAmounts ==
    \A first, second \in {NoCost, Dollars(1, 3), [currency |-> "USD", used |-> 2], [currency |-> "CNY", used |-> 4]},
       here, there \in BOOLEAN :
        LET Row(is, cost) == [MCStartCredentials[k1] EXCEPT !.there = is, !.cost = cost]
            rows == k1 :> Row(here, first) @@ k2 :> Row(there, second)
            known == {k \in {k1, k2} : rows[k].there /\ rows[k].cost # NoCost}
            names == {rows[k].cost.currency : k \in known}
            Having(what) == {k \in known : what \in DOMAIN rows[k].cost}
            Sum(what) == FoldFunction(LAMBDA x, y : x + y, 0, [k \in Having(what) |-> rows[k].cost[what]])
            sum == SingleSummary(Costs(rows))
        IN  IF Cardinality(names) # 1 THEN sum = NoCost
            ELSE /\ names = {sum.currency}
                 /\ DOMAIN sum = {"currency"} \cup {w \in {"used", "remaining"} : Having(w) # {}}
                 /\ \A what \in DOMAIN sum \ {"currency"} : sum[what] = Sum(what)

Times == [day : {1, 2, 5, 6, 7}, hour : {0, 1, 2, 21, 22, 23}]
Matches(when, at) == MatchesTimeCondition(ParseBillingSchedule(when), at)

\* channel/price_expr_condition.go:164: the days from one weekday to another and the hours from
\* one hour to another are read as meant, unless the hours reach the end of the day:
\* 24:00 is no time of day (timewindow/window.go:225), and such a window never matches.
ASSUME SpansAreReadAsMeant ==
    \A first, last \in 1..7, from \in {0, 1, 22, 23}, to \in {1, 2, 22, 23, 24} :
        first <= last /\ from < to =>
        LET when == When(<<Compared(">=", first), Compared("<=", last)>>, {Between(from, to)})
        IN IF to < 24 THEN \A at \in Times : ReadAsMeant(when, at) ELSE \A at \in Times : ~Matches(when, at)

\* channel/price_expr_condition.go:170-199: of several days joined by "or" the last one is read,
\* days around the end of a week are read as every day, and so is a strict bound.
ASSUME OtherDaysAreReadAsOthers ==
    \A at \in Times :
        /\ Matches([When(<<Compared("==", 6), Compared("==", 7)>>, {}) EXCEPT !.anyDay = TRUE], at) <=> at.day = 7
        /\ Matches([When(<<Compared(">=", 6), Compared("<=", 1)>>, {}) EXCEPT !.anyDay = TRUE], at)
        /\ Matches(When(<<Compared("<", 6)>>, {}), at)

Stored(expression) ==
    LET branches == FromBillingExpression([Item0 EXCEPT !.expression = expression]).rules
        ordered == OrderSyncedRules(branches)
    IN {Rule(i, P1, "sync", 0, ordered[i].conditions, ordered[i].rates) : i \in DOMAIN ordered}

Upon(yes, no) ==
    {yes, Param(yes, no), Lengthy("<=", 2, yes, no), Lengthy(">=", 4, yes, no)}
        \cup {Scheduled(when, yes, no) : when \in {AtNight, Evenings, When(<<Compared("==", 6)>>, {})}}
Trees == UNION {Upon(inner, Leaf2(7, 7)) \cup Upon(Leaf2(7, 7), inner) : inner \in Upon(Leaf2(1, 2), Leaf2(3, 5))}

\* channel/price_expr.go:127: whatever the conditions of an expression and their order, its rules,
\* stored together, charge what it says wherever its schedules are expressible.
ASSUME TreesArePricedAsMeant ==
    \A tree \in Trees : \E stored \in {Stored(tree)} : \A q \in MCRequests :
        Expressible(tree, q) =>
            EstimateRuleBreakdown(stored, q, FALSE) = EstimateBreakdown(q.tokens, Leaf(tree, q), FALSE)

MCAsks ==
    {Of(Sync(<<"expr", "list">>), Sync(<<"down", "ratio">>), Call("bill")),
     Of(Sync(<<"tiers">>), Sync(<<"list">>), Call("bill")),
     Of(Sync(<<"list">>), [Call("editPrice") EXCEPT !.public = P2, !.mode = "request", !.rates = [request |-> 2]],
        [Call("editSource") EXCEPT !.on = FALSE]),
     Of(Sync(<<"ratio">>), Call("editModel"), Faulty([Call("editSource") EXCEPT !.source = "ratio", !.on = FALSE])),
     Of(Call("createRule"), [Call("deleteRule") EXCEPT !.id = 10], Call("bill")),
     Of([Call("updateRule") EXCEPT !.public = P2, !.on = FALSE], [Call("createRule") EXCEPT !.conditions = NoReading],
        Faulty([Call("deleteRule") EXCEPT !.public = P2])),
     Of(Charge(k1, 2), Charge(k2, 1), Query("cost", ByKey)),
     Of(Charge(k1, 2), Query("cost", ByKey), Faulty(Query("cost", ByKey))),
     Of(Charge(k1, 1), Query("cost", Type("sub2api", "management_key", "")), [Call("deleteCredential") EXCEPT !.cred = k2]),
     Of(Charge(k2, 1), Charge(k2, 2), [Call("deleteCredential") EXCEPT !.cred = k2]),
     Of(Charge(k1, 2), Faulty(Query("cost", Type("sub2api", "none", ""))), Call("balances")),
     Of(Query("daily", ByKey), Faulty(Charge(k1, 1)), Call("restore")),
     Of(Query("quota", Plan("workbuddy_credits")),
        [Query("quota", Plan("workbuddy_credits")) EXCEPT !.cred = k1], Call("checkin")),
     Of(Query("quota", Plan("workbuddy_credits")),
        [Query("quota", Plan("workbuddy_credits")) EXCEPT !.on = FALSE], Call("minute")),
     Of(Query("quota", Plan("volcengine_afp")), Query("quota", Plan("none")), Call("restore")),
     Of(Query("quota", Plan("zhipu")), Query("quota", Plan("zhipu")), Call("minute")),
     Of(Query("quota", Plan("opencode_go")), Query("quota", Plan("opencode_go")), Call("restore"))}
=============================================================================
