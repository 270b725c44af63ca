---------------------------- MODULE UpstreamAccounts ----------------------------
(***************************************************************************)
(* What the upstreams say of an account, and what the program reads in it: *)
(* the adapters of src/internal/logic/channel/cost_upstream.go, newapi.go, *)
(* openrouter.go, cost_workbuddy.go for money and of quota*.go for the     *)
(* windows of a plan.                                                      *)
(*                                                                         *)
(* An upstream's answer is [status, ok, values, names, items]: the numbers *)
(* and the words by their path in the JSON, and the list it holds. Status  *)
(* 0 stands for an answer that never came or is no JSON. A view has an     *)
(* entry for what could be read and none for the rest; a failed one is     *)
(* [error]. Money and percents are whole numbers; addresses, headers and   *)
(* the wording of errors are left out.                                     *)
(***************************************************************************)
EXTENDS Integers, Sequences, FiniteSets
LOCAL INSTANCE SequencesExt
LOCAL INSTANCE FiniteSetsExt
LOCAL INSTANCE Functions

Failed(status) == [error |-> status]
IsFailed(view) == "error" \in DOMAIN view

Larger(a, b) == IF a > b THEN a ELSE b

\* A value as a set: empty when it is absent.
At1(f, k) == IF k \in DOMAIN f THEN {f[k]} ELSE {}
Or0(f, k) == IF k \in DOMAIN f THEN f[k] ELSE 0

\* The entry k with that value, or no entry at all.
Entry1(k, value) == [x \in {y \in {k} : value # {}} |-> CHOOSE v \in value : TRUE]

Join(f, g) == [x \in DOMAIN f \cup DOMAIN g |-> IF x \in DOMAIN g THEN g[x] ELSE f[x]]

FirstFloat(values, paths) ==
    LET there == SelectSeq(paths, LAMBDA p : p \in DOMAIN values)
    IN IF there = <<>> THEN {} ELSE {values[Head(there)]}

SumOf(items, k) == FoldLeft(LAMBDA sum, i : sum + Or0(i, k), 0, items)

\* The answer, if there is a body to read.
FetchUpstreamJSON(answer) ==
    IF answer.status = 200 THEN {answer} ELSE {}

-----------------------------------------------------------------------------
(* Money. config: [adapter, usage, currency, paths], the paths by what they  *)
(* lead to.                                                                 *)

Configured(config, k) == IF k \in DOMAIN config.paths THEN <<config.paths[k]>> ELSE <<>>

DefaultCostCurrency(config) ==
    CASE config.usage -> "XXX"
      [] ~config.usage /\ config.currency # "" -> config.currency
      [] OTHER -> "USD"

LastNamed(items, default) ==
    FoldLeft(LAMBDA name, i : IF "currency" \in DOMAIN i THEN i.currency ELSE name, default, items)

OpenAICosts(config, a) ==
    [used |-> SumOf(a.items, "amount"), currency |-> LastNamed(a.items, DefaultCostCurrency(config))]

QiniuCosts(config, a) ==
    IF ~a.ok THEN Failed(0)
    ELSE [used |-> SumOf(a.items, "amount"), currency |-> DefaultCostCurrency(config)]

\* Only items about tokens count, and once one had a unit, only those with the same.
QiniuUsage(a) ==
    LET Add(state, i) ==
          IF ~i.token \/ (i.unit # "" /\ state.found /\ i.unit # state.unit) THEN state
          ELSE [found |-> TRUE, unit |-> IF i.unit # "" THEN i.unit ELSE state.unit,
                total |-> state.total + i.amount]
        read == FoldLeft(Add, [found |-> FALSE, unit |-> "kToken", total |-> 0], a.items)
    IN IF ~a.ok THEN Failed(0)
       ELSE [used |-> read.total, usage |-> read.total, unit |-> read.unit, currency |-> "TOKEN"]

\* Neither an amount nor a balance is an error.
UnlessEmpty(view) == IF {"used", "remaining"} \cap DOMAIN view = {} THEN Failed(0) ELSE view

Sub2API(config, a) ==
    LET usage == FirstFloat(a.values, Configured(config, "usage") \o Configured(config, "used")
                                          \o <<"usage", "total", "data.usage">>)
        remaining == FirstFloat(a.values, Configured(config, "remaining")
                                              \o <<"remaining", "balance", "quota.remaining">>)
        used == FirstFloat(a.values, Configured(config, "used") \o
                              <<"used", "usage.total.cost", "usage.total.actual_cost", "quota.used">>)
        name == FirstFloat(a.names, Configured(config, "currency") \o <<"unit", "currency", "quota.unit">>)
        currency == [currency |-> CHOOSE n \in IF name = {} THEN {DefaultCostCurrency(config)} ELSE name : TRUE]
    IN IF config.usage
       THEN IF usage = {} THEN Failed(0)
            ELSE Join([currency |-> DefaultCostCurrency(config)],
                      Join(Entry1("used", usage), Entry1("usage", usage)))
       ELSE UnlessEmpty(Join(currency, Join(Entry1("used", used), Entry1("remaining", remaining))))

\* Only the configured paths; a configured currency that is not there reads as none.
CustomJSON(config, a) ==
    LET usage == FirstFloat(a.values, IF "usage" \in DOMAIN config.paths THEN Configured(config, "usage")
                                      ELSE Configured(config, "used"))
        used == IF config.usage THEN usage ELSE FirstFloat(a.values, Configured(config, "used"))
        remaining == FirstFloat(a.values, Configured(config, "remaining"))
        name == FirstFloat(a.names, Configured(config, "currency"))
        currency == IF "currency" \notin DOMAIN config.paths
                    THEN IF config.currency # "" THEN config.currency ELSE DefaultCostCurrency(config)
                    ELSE IF name = {} THEN "" ELSE CHOOSE n \in name : TRUE
    IN UnlessEmpty(Join([currency |-> currency],
                        Join(Join(Entry1("used", used), Entry1("remaining", remaining)),
                             Entry1("usage", IF config.usage THEN usage ELSE {}))))

SiliconFlow(config, a) ==
    UnlessEmpty(Join([currency |-> DefaultCostCurrency(config)],
        Entry1("remaining", FirstFloat(a.values, Configured(config, "remaining") \o
                               <<"data.totalBalance", "data.chargeBalance", "data.balance">>))))

OpenRouterCredits(config, a) ==
    IF ~({"data.total_credits", "data.total_usage"} \subseteq DOMAIN a.values) THEN Failed(0)
    ELSE [used |-> a.values["data.total_usage"], currency |-> DefaultCostCurrency(config),
          remaining |-> a.values["data.total_credits"] - a.values["data.total_usage"]]

\* An unlimited subscription counts for what was used only.
SubscriptionAmounts(a) ==
    LET limited == SelectSeq(a.items, LAMBDA i : Or0(i, "total") > 0)
    IN IF ~a.ok THEN [used |-> 0, remaining |-> 0]
       ELSE [used |-> SumOf(a.items, "used"), remaining |-> SumOf(limited, "total") - SumOf(limited, "used")]

\* The wallet, and the subscriptions if the upstream knows them; per unit.
NewAPICosts(config, account, status, subscription) ==
    LET unit == Or0(status.values, "data.quota_per_unit")
        extra == IF FetchUpstreamJSON(subscription) = {} THEN [used |-> 0, remaining |-> 0]
                 ELSE SubscriptionAmounts(subscription)
    IN IF ~account.ok \/ ~status.ok \/ unit <= 0
             \/ ~({"data.used_quota", "data.quota"} \subseteq DOMAIN account.values)
       THEN Failed(0)
       ELSE [used |-> (account.values["data.used_quota"] + extra.used) \div unit,
             remaining |-> (account.values["data.quota"] + extra.remaining) \div unit,
             currency |-> DefaultCostCurrency(config)]

-----------------------------------------------------------------------------
(* The windows of a plan: [kind, percent] with entries used, total,          *)
(* remaining, reset as far as they are known, and done, accounts for one     *)
(* that counts accounts. A view: [level, windows, errors].                   *)

View(level, windows) ==
    IF windows = <<>> THEN Failed(0) ELSE [level |-> level, windows |-> windows, errors |-> {}]

Reset(item) == IF Or0(item, "reset") > 0 THEN [reset |-> item.reset] ELSE <<>>

Window(kind, item) ==
    Join([kind |-> kind, percent |-> Larger(Or0(item, "percent"), 0)],
         Join(Reset(item), [k \in DOMAIN item \cap {"used", "total", "remaining"} |-> item[k]]))

\* The calls first, then the token windows by their reset: five hours, a week, and every
\* further one a week again.
ParseQuotaResponse(a) ==
    LET calls == SelectSeq(a.items, LAMBDA i : i.type = "TIME_LIMIT")
        tokens == SortSeq(SelectSeq(a.items, LAMBDA i : i.type \in {"TOKENS_LIMIT", "CREDIT_LIMIT"}),
                          LAMBDA i, j : Or0(i, "reset") < Or0(j, "reset"))
    IN IF ~a.ok THEN Failed(0)
       ELSE View(a.level, [i \in DOMAIN calls |-> Window("mcp", calls[i])]
                   \o [i \in DOMAIN tokens |-> Window(IF i = 1 THEN "five_hour" ELSE "weekly", tokens[i])])

Kinds == <<"five_hour", "weekly", "monthly">>

\* items: window by kind. A window without its percent is left out.
ParseOpenCodeGoUsage(a) ==
    LET there == SelectSeq(Kinds, LAMBDA k : k \in DOMAIN a.items /\ "percent" \in DOMAIN a.items[k])
    IN View("", [i \in DOMAIN there |-> Window(there[i], a.items[there[i]])])

\* A window without a quota is a placeholder.
ParseAFPResponse(a) ==
    LET there == SelectSeq(Kinds, LAMBDA k : k \in DOMAIN a.items /\ Or0(a.items[k], "total") > 0)
        Of(k) == LET total == a.items[k].total
                     used == Or0(a.items[k], "used")
                 IN Join([kind |-> k, percent |-> (100 * used) \div total, used |-> used, total |-> total,
                          remaining |-> Larger(total - used, 0)], Reset(a.items[k]))
    IN IF ~a.ok THEN Failed(0) ELSE View(a.level, [i \in DOMAIN there |-> Of(there[i])])

\* A package says two of its total, rest and use, the total among them unless both others.
IsPackage(item) ==
    \/ "total" \in DOMAIN item /\ {"remaining", "used"} \cap DOMAIN item # {}
    \/ {"remaining", "used"} \subseteq DOMAIN item

\* packages: the list the answer is read from, if it has it; else whatever looks like a
\* package anywhere in it. Equal ones count once.
CollectWorkBuddyPackages(a) ==
    LET found == SelectSeq(IF "packages" \in DOMAIN a THEN a.packages ELSE a.items, IsPackage)
        first == SelectSeq([i \in DOMAIN found |-> i],
                           LAMBDA i : \A j \in 1..(i - 1) : found[j] # found[i])
    IN [i \in DOMAIN first |-> found[first[i]]]

\* What is missing is filled up: the use from total and rest, the total from rest and use.
ParseWorkBuddyCredits(a) ==
    LET usable == SelectSeq(CollectWorkBuddyPackages(a),
                            LAMBDA p : Or0(p, "total") > 0 \/ Or0(p, "remaining") > 0 \/ Or0(p, "used") > 0)
        Of(p) == LET known == Or0(p, "total") > 0
                     rest == Larger(Or0(p, "remaining"), 0)
                     used == IF known /\ Or0(p, "used") <= 0 THEN Larger(p.total - Or0(p, "remaining"), 0)
                             ELSE Larger(Or0(p, "used"), 0)
                     total == IF known THEN p.total ELSE used + rest
                 IN [kind |-> "monthly", used |-> used, total |-> total, percent |-> (100 * used) \div total,
                     remaining |-> IF rest > total THEN total ELSE rest]
    IN IF ~a.ok THEN Failed(0) ELSE View(a.level, [i \in DOMAIN usable |-> Of(usable[i])])

\* The packages of the account, summed up.
SumWorkBuddyWindows(view) ==
    Join([used |-> SumOf(view.windows, "used")], [remaining |-> SumOf(view.windows, "remaining")])

WorkBuddyCosts(a) ==
    LET view == ParseWorkBuddyCredits(a)
    IN IF IsFailed(view) THEN view ELSE Join([currency |-> "XXX"], SumWorkBuddyWindows(view))

ParseWorkBuddyCheckin(checked) ==
    <<[kind |-> "checkin", percent |-> IF checked THEN 100 ELSE 0,
       done |-> IF checked THEN 1 ELSE 0, accounts |-> 1]>>

-----------------------------------------------------------------------------
(* The views of several keys as one.                                        *)

WindowsOf(views, kind) ==
    SelectSeq(FoldLeft(LAMBDA all, v : all \o v.windows, <<>>, views), LAMBDA w : w.kind = kind)

\* A value none of the windows has stays absent.
AddQuotaValues(windows, k) ==
    LET having == SelectSeq(windows, LAMBDA w : k \in DOMAIN w)
    IN Entry1(k, IF having = <<>> THEN {} ELSE {SumOf(having, k)})

EarliestQuotaTime(windows) ==
    LET resets == UNION {At1(windows[i], "reset") : i \in DOMAIN windows}
    IN Entry1("reset", {t \in resets : \A o \in resets : t <= o})

\* Percents are averaged, amounts added; of windows that count accounts only the counts.
MergeWindows(windows, kind) ==
    LET counted == \E i \in DOMAIN windows : "accounts" \in DOMAIN windows[i]
        done == SumOf(windows, "done")
        accounts == SumOf(windows, "accounts")
    IN IF counted
       THEN Join([kind |-> kind, done |-> done, accounts |-> accounts,
                  percent |-> IF accounts > 0 THEN (100 * done) \div accounts ELSE 0],
                 EarliestQuotaTime(windows))
       ELSE Join([kind |-> kind, percent |-> SumOf(windows, "percent") \div Len(windows)],
                 Join(EarliestQuotaTime(windows),
                      Join(AddQuotaValues(windows, "used"),
                           Join(AddQuotaValues(windows, "total"), AddQuotaValues(windows, "remaining")))))

\* The errors of the single views are not carried over.
MergeQuotaViews(views) ==
    LET all == FoldLeft(LAMBDA sofar, v : sofar \o v.windows, <<>>, views)
        kinds == FoldLeft(LAMBDA sofar, w : IF w.kind \in Range(sofar) THEN sofar ELSE Append(sofar, w.kind),
                          <<>>, all)
    IN [level |-> {views[i].level : i \in DOMAIN views} \ {""},
        windows |-> [i \in DOMAIN kinds |-> MergeWindows(WindowsOf(views, kinds[i]), kinds[i])],
        errors |-> {}]
=============================================================================
