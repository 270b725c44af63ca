------------------------------ MODULE PriceRules ------------------------------
(***************************************************************************)
(* What a request costs, and how the price lists of the sources become     *)
(* price rules: the pure part of src/internal/logic/usage (billing,        *)
(* pricing), pricingcache and channel/price_*.go.                          *)
(*                                                                         *)
(* Rates and token counts are partial functions, an absent value is a      *)
(* component without a price or a count the upstream did not give. The     *)
(* rates are whole numbers, so the rounding to eight decimals is left out, *)
(* as are the texts of an expression: it is a tree of its conditions. A    *)
(* schedule's condition is what its weekdays and its hours say, both of    *)
(* which must hold; other combinations of the two are left out. Weekdays   *)
(* count from 1, Monday, to 7. The day and hour of a request are those of  *)
(* the zone it is compared in.                                             *)
(* A name is its stem, its case, its vendor prefix and whether it carries  *)
(* a peft or sampling suffix.                                              *)
(***************************************************************************)
EXTENDS Naturals, FiniteSets, Sequences
LOCAL INSTANCE SequencesExt
LOCAL INSTANCE FiniteSetsExt

CONSTANTS
    None,
    MaxNesting  \* bound: how deep a billing expression nests

-----------------------------------------------------------------------------
(* The bill of a request under given rates.                                *)

Count(tokens, kind) == IF kind \in DOMAIN tokens THEN tokens[kind] ELSE 0

Smaller(a, b) == IF a < b THEN a ELSE b

InputParts == <<"cachedInput", "cacheWrite", "imageInput", "audioInput">>
OutputParts == <<"audioOutput">>

Item(type, quantity, rate) == [type |-> type, quantity |-> quantity, rate |-> rate]

PreferredPrice(rates, part, whole) ==
    IF part \in DOMAIN rates THEN {rates[part]}
    ELSE IF whole \in DOMAIN rates THEN {rates[whole]} ELSE {}

\* One special kind of token of a total: at most what is left of the total, which is
\* bounded only if the upstream gave it.
ChargePart(tokens, rates, keepZero, whole, state, part) ==
    LET known == whole \in DOMAIN tokens
        quantity == IF known THEN Smaller(Count(tokens, part), state.rest) ELSE Count(tokens, part)
        listed == quantity > 0 \/ (keepZero /\ part \in DOMAIN rates)
    IN [rest |-> IF known THEN state.rest - quantity ELSE 0,
        items |-> state.items \cup
            {Item(part, quantity, r) : r \in IF listed THEN PreferredPrice(rates, part, whole) ELSE {}}]

ChargeWhole(tokens, rates, keepZero, whole, parts) ==
    LET special == FoldLeft(LAMBDA state, part : ChargePart(tokens, rates, keepZero, whole, state, part),
                            [rest |-> Count(tokens, whole), items |-> {}], parts)
    IN special.items \cup
         (IF whole \in DOMAIN rates /\ (keepZero \/ special.rest > 0)
          THEN {Item(whole, special.rest, rates[whole])} ELSE {})

\* No item: there is no bill. keepZero: the bill of a failure shows the rates of what was
\* not used, too.
EstimateBreakdown(tokens, rates, keepZero) ==
    ChargeWhole(tokens, rates, keepZero, "input", InputParts)
        \cup ChargeWhole(tokens, rates, keepZero, "output", OutputParts)
        \cup (IF "request" \in DOMAIN rates THEN {Item("request", 1, rates["request"])} ELSE {})

BillTotal(bill) == FoldSet(LAMBDA i, sum : i.quantity * i.rate + sum, 0, bill)

-----------------------------------------------------------------------------
(* The conditions of a rule. time: None or [valid, days, hours], where no   *)
(* day or no hour at all stands for every one.                              *)

NoBounds == [low |-> None, high |-> None]
NoConditions == [endpoint |-> None, input |-> NoBounds, output |-> NoBounds, total |-> NoBounds,
                 time |-> None]

MatchesTokenRange(bounds, value) ==
    /\ bounds.low = None \/ value >= bounds.low
    /\ bounds.high = None \/ value <= bounds.high

Allows(window, at) ==
    /\ window.days = {} \/ at.day \in window.days
    /\ window.hours = {} \/ at.hour \in window.hours

\* A window that cannot be read matches nothing.
MatchesTimeCondition(time, at) ==
    \/ time = None
    \/ time # None /\ time.valid /\ Allows(time, at)

RuleMatches(conditions, request) ==
    LET input == Count(request.tokens, "input")
        output == Count(request.tokens, "output")
    IN /\ conditions.endpoint \in {None, request.endpoint}
       /\ MatchesTokenRange(conditions.input, input)
       /\ MatchesTokenRange(conditions.output, output)
       /\ MatchesTokenRange(conditions.total, input + output)
       /\ MatchesTimeCondition(conditions.time, request.at)

RuleBreakdown(rule, request, keepZero) ==
    IF RuleMatches(rule.conditions, request)
    THEN EstimateBreakdown(request.tokens, rule.rates, keepZero) ELSE {}

\* Priority, manual before synced, younger before older.
Before(a, b) ==
    \/ a.priority > b.priority
    \/ a.priority = b.priority /\ a.source = "manual" /\ b.source # "manual"
    \/ a.priority = b.priority /\ a.source = b.source /\ a.id > b.id

\* The first rule in that order that matches and bills something; a matching rule that
\* prices none of the request's tokens is passed over.
RuleFor(rules, request, keepZero) ==
    LET billing == {r \in rules : RuleBreakdown(r, request, keepZero) # {}}
    IN {r \in billing : \A o \in billing \ {r} : Before(r, o)}

EstimateRuleBreakdown(rules, request, keepZero) ==
    UNION {RuleBreakdown(r, request, keepZero) : r \in RuleFor(rules, request, keepZero)}

-----------------------------------------------------------------------------
(* Billing expressions. A tree: [kind |-> "leaf", terms], with coefficients  *)
(* by variable, [kind |-> "schedule", when, yes, no], [kind |-> "length",    *)
(* op, bound, yes, no], [kind |-> "param", yes, no], [kind |-> "other"].     *)
(* when: [zone, anyDay, weekdays, spans, others]: the comparisons [op, day]  *)
(* of the weekday in their order, any or all of which must hold, the pairs   *)
(* of an hour's comparisons [from, after, to, through], where after excludes *)
(* the first hour and through includes the last, and the hours that          *)
(* comparisons of another form stand for.                                    *)

Variable == [p |-> "input", c |-> "output", cr |-> "cachedInput", cc |-> "cacheWrite",
             ai |-> "audioInput", ao |-> "audioOutput", fixed |-> "request"]
Fallbacks == <<"cc1h", "cc12h">>

NonZero(terms) == {v \in DOMAIN terms : terms[v] # 0}

\* None: an unknown variable, or nothing but zeros, which is no price. A long-lived cache
\* write is priced only beside another price and without the short-lived one.
RatesFromTerms(terms) ==
    LET plain == NonZero(terms) \cap DOMAIN Variable
        long == SelectSeq(Fallbacks, LAMBDA v : v \in NonZero(terms))
        own == [k \in {Variable[v] : v \in plain} |-> terms[CHOOSE v \in plain : Variable[v] = k]]
    IN CASE ~(DOMAIN terms \subseteq DOMAIN Variable \cup Range(Fallbacks)) \/ plain = {} -> None
         [] OTHER -> IF "cacheWrite" \in DOMAIN own \/ long = <<>> THEN own
                     ELSE [k \in DOMAIN own \cup {"cacheWrite"} |->
                              IF k = "cacheWrite" THEN terms[Head(long)] ELSE own[k]]

\* The bounds where a comparison of the length holds and where it does not.
LengthBounds(op, n) ==
    CASE op = "<=" -> [yes |-> [low |-> None, high |-> n], no |-> [low |-> n + 1, high |-> None]]
      [] op = "<" -> [yes |-> [low |-> None, high |-> n - 1], no |-> [low |-> n, high |-> None]]
      [] op = ">=" -> [yes |-> [low |-> n, high |-> None], no |-> [low |-> None, high |-> n - 1]]
      [] op = ">" -> [yes |-> [low |-> n + 1, high |-> None], no |-> [low |-> None, high |-> n]]

\* The day a comparison was last given with; none is 0.
Latest(op, weekdays) ==
    LET given == {i \in DOMAIN weekdays : weekdays[i].op = op /\ weekdays[i].day \in 0 .. 7}
    IN IF given = {} THEN 0 ELSE weekdays[CHOOSE i \in given : \A j \in given : j <= i].day

\* No days, or none between the two, are every day; > and < are not read.
ParseBillingWeekdays(when) ==
    LET exact == Latest("==", when.weekdays)
        from == Latest(">=", when.weekdays)
        to == Latest("<=", when.weekdays)
    IN IF exact > 0 THEN {exact}
       ELSE {d \in 1 .. 7 : from + to > 0 /\ d >= from /\ (to = 0 \/ d <= to)}

SpanEnd(span) == Smaller(24, IF span.through THEN span.to + 1 ELSE span.to)

\* Of the hours only pairs are read, and after like from.
HourSpans(when) == {s \in when.spans : s.from < SpanEnd(s)}

HoursUnread(when) ==
    \/ when.spans = {} /\ when.others # {}
    \/ \E s \in when.spans : s.from > 24 \/ s.to > 24
    \/ when.spans # {} /\ HourSpans(when) = {}

\* None: an error, which skips the model. The end of a day is written 24:00, which the
\* window's own reader takes for no time of day, as it refuses a zone it does not know.
ParseBillingSchedule(when) ==
    IF when.zone = None \/ HoursUnread(when) THEN None
    ELSE [valid |-> when.zone = "known" /\ \A s \in HourSpans(when) : SpanEnd(s) < 24,
          days |-> ParseBillingWeekdays(when),
          hours |-> UNION {s.from .. SpanEnd(s) - 1 : s \in HourSpans(when)}]

\* The larger lower and the smaller upper bound.
MergeBounds(a, b) ==
    [low |-> IF b.low = None \/ (a.low # None /\ a.low >= b.low) THEN a.low ELSE b.low,
     high |-> IF b.high = None \/ (a.high # None /\ a.high <= b.high) THEN a.high ELSE b.high]

Node(e, context) == [node |-> e, conditions |-> context]

Unreadable == [kind |-> "other"]

\* A node's branches in the order they are stored. The branch beside a schedule has no
\* time of its own and comes first: a younger rule is tried before it. Under a
\* schedule that holds, only the innermost schedule's time is kept.
Branches(n) ==
    LET e == n.node
        window == ParseBillingSchedule(e.when)
        bounds == LengthBounds(e.op, e.bound)
        Within(b) == [n.conditions EXCEPT !.input = MergeBounds(@, b)]
    IN CASE e.kind = "schedule" /\ window # None ->
              <<Node(e.no, [n.conditions EXCEPT !.time = None]),
                Node(e.yes, [n.conditions EXCEPT !.time = window])>>
         [] e.kind = "length" /\ e.bound > 0 ->
              <<Node(e.yes, Within(bounds.yes)), Node(e.no, Within(bounds.no))>>
         [] e.kind = "param" -> <<Node(e.no, n.conditions)>>
         [] e.kind = "leaf" -> <<n>>
         [] OTHER -> <<Node(Unreadable, n.conditions)>>

Levels == [i \in 1 .. MaxNesting |-> i]

\* What a branch stores: no rates if it could not be read.
Breakdown(n) ==
    [conditions |-> n.conditions,
     rates |-> IF n.node.kind = "leaf" THEN RatesFromTerms(n.node.terms) ELSE None]

\* Every node in the place of its parent until only leaves are left: the order of the recursion.
WalkBillingExpression(e, context) ==
    LET ends == FoldLeft(LAMBDA nodes, i : FlattenSeq([j \in DOMAIN nodes |-> Branches(nodes[j])]),
                         <<Node(e, context)>>, Levels)
    IN [j \in DOMAIN ends |-> Breakdown(ends[j])]

\* What the expression itself says a request costs; parameters count as not given.
Compares(c, day) ==
    CASE c.op = "==" -> day = c.day
      [] c.op = ">=" -> day >= c.day
      [] c.op = "<=" -> day <= c.day
      [] c.op = ">" -> day > c.day
      [] c.op = "<" -> day < c.day

DayHolds(when, day) ==
    \/ when.weekdays = <<>>
    \/ when.anyDay /\ \E c \in Range(when.weekdays) : Compares(c, day)
    \/ ~when.anyDay /\ \A c \in Range(when.weekdays) : Compares(c, day)

SpanHolds(span, hour) ==
    /\ IF span.after THEN hour > span.from ELSE hour >= span.from
    /\ IF span.through THEN hour <= span.to ELSE hour < span.to

HourHolds(when, hour) ==
    \/ when.spans = {} /\ when.others = {}
    \/ hour \in when.others
    \/ \E s \in when.spans : SpanHolds(s, hour)

ScheduleHolds(when, at) == DayHolds(when, at.day) /\ HourHolds(when, at.hour)

Taken(e, request) ==
    CASE e.kind = "schedule" -> IF ScheduleHolds(e.when, request.at) THEN e.yes ELSE e.no
      [] e.kind = "length" ->
            IF MatchesTokenRange(LengthBounds(e.op, e.bound).yes, Count(request.tokens, "input"))
            THEN e.yes ELSE e.no
      [] e.kind = "param" -> e.no
      [] OTHER -> e

Leaf(e, request) ==
    RatesFromTerms(FoldLeft(LAMBDA node, i : Taken(node, request), e, Levels).terms)

\* The window a schedule became says of a time what the schedule says.
ReadAsMeant(when, at) ==
    LET window == ParseBillingSchedule(when)
    IN window # None /\ (MatchesTimeCondition(window, at) <=> ScheduleHolds(when, at))

Children(e) ==
    CASE e.kind \in {"schedule", "length"} -> {e.yes, e.no}
      [] e.kind = "param" -> {e.no}
      [] OTHER -> {}

NodesOf(e) == FoldLeft(LAMBDA nodes, i : nodes \cup UNION {Children(n) : n \in nodes}, {e}, Levels)

Schedules(e) == {n \in NodesOf(e) : n.kind = "schedule"}

\* Where the rules can charge what the expression says: each of its schedules is read as it
\* is meant at the time of the request, and none stands below another that holds.
Expressible(e, request) ==
    \A s \in Schedules(e) : ReadAsMeant(s.when, request.at) /\ Schedules(s.yes) = {}

-----------------------------------------------------------------------------
(* A source's answer: [kind |-> "error"], [kind |-> "list", items],         *)
(* [kind |-> "ratio", items] or [kind |-> "expressions", items], ordered by *)
(* model. The result: the rules in order and the models skipped.            *)

Synced(model, conditions, rates) == [model |-> model, conditions |-> conditions, rates |-> rates]

\* An item of a list without rates is dropped without a word; a path it lacks reads as zero.
FromListItem(item) ==
    IF item.rates = None THEN [rules |-> <<>>, skips |-> {}]
    ELSE [rules |-> <<Synced(item.model, item.conditions, item.rates)>>, skips |-> {}]

\* price: per request, and then the ratio does not count. Two dollars per ratio.
FromNewAPIRatio(item) ==
    LET input == 2 * item.ratio
        rates == CASE item.price # None -> [request |-> item.price]
                   [] item.price = None /\ item.cache # None ->
                        [input |-> input, output |-> input * item.completion,
                         cachedInput |-> input * item.cache]
                   [] OTHER -> [input |-> input, output |-> input * item.completion]
    IN IF item.price = 0 \/ (item.price = None /\ input = 0)
       THEN [rules |-> <<>>, skips |-> {item.model}]
       ELSE [rules |-> <<Synced(item.model, NoConditions, rates)>>, skips |-> {}]

\* One branch that cannot be read, or prices nothing, skips the model.
FromBillingExpression(item) ==
    LET branches == WalkBillingExpression(item.expression, NoConditions)
    IN IF item.mode \notin {None, "tiered_expr"} \/ \E i \in DOMAIN branches : branches[i].rates = None
       THEN [rules |-> <<>>, skips |-> {item.model}]
       ELSE [rules |-> [i \in DOMAIN branches |->
                           Synced(item.model, branches[i].conditions, branches[i].rates)],
             skips |-> {}]

FromItem(kind, item) ==
    CASE kind = "list" -> FromListItem(item)
      [] kind = "ratio" -> FromNewAPIRatio(item)
      [] OTHER -> FromBillingExpression(item)

RulePricesNothing(rule) == \A k \in DOMAIN rule.rates : rule.rates[k] = 0

\* None: the sync of this source fails and changes nothing.
SyncedRules(answer) ==
    LET read == [i \in DOMAIN answer.items |-> FromItem(answer.kind, answer.items[i])]
        rules == FoldLeft(LAMBDA all, r : all \o r.rules, <<>>, read)
        skips == UNION {read[i].skips : i \in DOMAIN read}
    IN IF answer.kind = "error" \/ rules = <<>> THEN None
       ELSE [rules |-> SelectSeq(rules, LAMBDA r : ~RulePricesNothing(r)),
             skips |-> skips \cup {r.model : r \in {x \in Range(rules) : RulePricesNothing(x)}}]

-----------------------------------------------------------------------------
(* Which public model an item is about. A model row is [public, upstream].  *)

Name(stem, prefix, upper, variant) ==
    [stem |-> stem, prefix |-> prefix, upper |-> upper, variant |-> variant]

Fold(name) == [name EXCEPT !.upper = FALSE]
Suffix(name) == [name EXCEPT !.prefix = None]

\* The local names an upstream name stands for, and how strongly: 4 to the letter, 3 but
\* for case, 2 without the vendor, 1 without the variant. The first level with a hit counts.
MatchName(names, name) ==
    LET folded(n) == {k \in names : Fold(k) = Fold(n)}
        bare == {k \in names : k.stem = name.stem}
    IN CASE name \in names -> [names |-> {name}, rank |-> 4]
         [] name \notin names /\ folded(name) # {} -> [names |-> folded(name), rank |-> 3]
         [] OTHER ->
              IF name.prefix # None /\ folded(Suffix(name)) # {}
              THEN [names |-> IF Suffix(name) \in names THEN {Suffix(name)} ELSE folded(Suffix(name)),
                    rank |-> 2]
              ELSE IF name.variant THEN [names |-> bare, rank |-> 1]
              ELSE [names |-> {}, rank |-> 0]

\* by: "public" or "upstream". The public models an item's name stands for.
MatchPublicModels(models, by, name) ==
    LET found == MatchName({m[by] : m \in models}, name)
    IN [publics |-> {m.public : m \in {x \in models : x[by] \in found.names}}, rank |-> found.rank]

\* For every public model the rules of its strongest matches, in their order.
RuleBucket(models, by, rules) ==
    LET hit(p, i) == LET found == MatchPublicModels(models, by, rules[i].model)
                     IN IF p \in found.publics THEN found.rank ELSE 0
        best(p) == FoldSet(LAMBDA i, r : IF hit(p, i) > r THEN hit(p, i) ELSE r, 0, DOMAIN rules)
        order(p) == SelectSeq([i \in DOMAIN rules |-> i], LAMBDA i : best(p) > 0 /\ hit(p, i) = best(p))
        covered == {p \in {m.public : m \in models} : best(p) > 0}
    IN [p \in covered |-> [i \in DOMAIN order(p) |-> rules[order(p)[i]]]]

\* A public name's own items first; the items of its upstream name only where there are none.
BuildPublicRulePlan(models, rules) ==
    LET direct == RuleBucket(models, "public", rules)
        alias == RuleBucket(models, "upstream", rules)
    IN [p \in DOMAIN direct \cup DOMAIN alias |-> IF p \in DOMAIN direct THEN direct[p] ELSE alias[p]]

\* The models a skipped item stands for and no rule of this answer covers.
StaleSyncedPriceModels(models, plan, skips) ==
    UNION {MatchPublicModels(models, by, s).publics : by \in {"public", "upstream"}, s \in skips}
        \ DOMAIN plan

RuleHasConditions(rule) == rule.conditions # NoConditions

\* Unconditional rules first: they get the smaller ids and are tried last.
OrderSyncedRules(rules) ==
    SelectSeq(rules, LAMBDA r : ~RuleHasConditions(r)) \o SelectSeq(rules, RuleHasConditions)

\* A synced value fills a gap, or replaces a zero.
KeepUnset(price, rates) ==
    [k \in DOMAIN price \cup DOMAIN rates |->
        IF k \notin DOMAIN price \/ (k \in DOMAIN rates /\ rates[k] # 0 /\ price[k] = 0)
        THEN rates[k] ELSE price[k]]
=============================================================================
