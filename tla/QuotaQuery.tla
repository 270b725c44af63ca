------------------------------- MODULE QuotaQuery -------------------------------
(***************************************************************************)
(* The plan of a channel's accounts: its query by an administrator, for    *)
(* one credential or for all of them at once, with its cache of one minute *)
(* (src/internal/logic/channel/quota.go, quota_volc.go,                    *)
(* quota_workbuddy.go), the daily check-in of WorkBuddy accounts, which a  *)
(* query does on its way and a job once a day (workbuddy_checkin_job.go),  *)
(* and the register of the background jobs (src/internal/logic/schedule).  *)
(*                                                                         *)
(* The credentials of a query are asked concurrently: a call moves each of *)
(* them on its own. Ask[c].cred is None for all of them. The upstream      *)
(* knows who has checked in today; asked again it grants nothing.          *)
(***************************************************************************)
EXTENDS ChannelCosts, Schedule
LOCAL INSTANCE SequencesExt
LOCAL INSTANCE FiniteSetsExt

CONSTANTS
    Plans      \* adapter -> credential, or None -> what its upstream may say of its plan

VARIABLES
    quotaCache,\* the view in Redis, or None
    checkedIn, \* the credentials whose accounts have checked in today
    granted,   \* credential -> the rewards its account was granted
    jobs       \* job -> its entry in the register

quotaVars == <<quotaCache, checkedIn, granted, jobs>>

Jobs == {"daily", "checkin"}

StartQuotas ==
    /\ quotaCache = None
    /\ checkedIn = {}
    /\ granted = [k \in Creds |-> 0]
    /\ jobs = [j \in Jobs |-> Register(NoTask)]

-----------------------------------------------------------------------------
(* Which accounts are asked, and with which key.                            *)

CredentialCiphers == {k \in Creds : creds[k].there}

\* A Volcengine plan is asked with a credential's own management key, else with the
\* channel's, if it has one: then with the same answer for each.
ChannelHasKey(type) == None \in DOMAIN Plans[type.quota]
VolcKeys(type) == {k \in CredentialCiphers : creds[k].own \/ ChannelHasKey(type)}

KeysAsked(type, k) ==
    LET all == IF type.quota = "volcengine_afp" THEN VolcKeys(type) ELSE CredentialCiphers
    IN IF k = None THEN all ELSE all \cap {k}

AskedAs(type, k) ==
    IF type.quota = "volcengine_afp" /\ ~creds[k].own /\ ChannelHasKey(type) THEN None ELSE k

ParseQuota(type, a) ==
    CASE a.status # 200 -> Failed(a.status)
      [] a.status = 200 /\ type.quota = "opencode_go" -> ParseOpenCodeGoUsage(a)
      [] a.status = 200 /\ type.quota = "workbuddy_credits" -> ParseWorkBuddyCredits(a)
      [] a.status = 200 /\ type.quota = "volcengine_afp" -> ParseAFPResponse(a)
      [] OTHER -> ParseQuotaResponse(a)

\* Once more, with another form of the header, if the first is not let in; WorkBuddy is
\* asked in a second form after any failure, Volcengine never.
FetchQuota(type, says) ==
    LET first == {ParseQuota(type, a) : a \in says}
        again == CASE type.quota = "volcengine_afp" -> {}
                   [] type.quota = "workbuddy_credits" -> {a \in says : a.status # 200}
                   [] OTHER -> {a \in says : a.status \in {401, 403}}
    IN {ParseQuota(type, a) : a \in says \ again} \cup (IF again = {} THEN {} ELSE first)

-----------------------------------------------------------------------------
(* The query.                                                               *)

QueryQuota(c) ==
    LET type == Ask[c].type
    IN /\ At(c, "quota", "start")
       /\ CASE type.quota \in {"", "none"} -> End(c, "refused")
            [] type.quota \notin {"", "none"} /\ Ask[c].cred = None /\ ~Ask[c].on /\ quotaCache # None ->
                  Go(c, "done") /\ mem' = [mem EXCEPT ![c].result = "cached", ![c].answer = quotaCache]
            [] OTHER ->
                  IF KeysAsked(type, Ask[c].cred) = {} THEN End(c, "refused")
                  ELSE /\ Go(c, "fetch")
                       /\ mem' = [mem EXCEPT ![c].keys = [k \in KeysAsked(type, Ask[c].cred) |-> "todo"],
                                             ![c].views = [k \in KeysAsked(type, Ask[c].cred) |-> None]]
       /\ UNCHANGED <<Ask, priceVars, costVars, quotaVars>>

Move(c, k, step) == mem' = [mem EXCEPT ![c].keys[k] = step]

FetchQuotaWithCredential(c, k) ==
    LET type == Ask[c].type
        next == IF type.quota = "workbuddy_credits" THEN "status" ELSE "done"
    IN /\ At(c, "quota", "fetch") /\ mem[c].keys[k] = "todo"
       /\ \E view \in FetchQuota(type, Plans[type.quota][AskedAs(type, k)]) :
             mem' = [mem EXCEPT ![c].views[k] = view,
                                ![c].keys[k] = IF IsFailed(view) THEN "done" ELSE next]
       /\ UNCHANGED <<Ask, pc, priceVars, costVars, quotaVars>>

Note(view, what) == [view EXCEPT !.errors = @ \cup {what}]

\* The state of the check-in as one more window; what cannot be read is noted and nothing
\* is claimed.
CheckinStatus(c, k) ==
    /\ At(c, "quota", "fetch") /\ mem[c].keys[k] = "status"
    /\ \/ mem' = [mem EXCEPT
             ![c].views[k].windows = @ \o ParseWorkBuddyCheckin(k \in checkedIn),
             ![c].keys[k] = IF k \in checkedIn THEN "done" ELSE "claim"]
       \/ mem' = [mem EXCEPT ![c].views[k] = Note(@, "status_unknown"), ![c].keys[k] = "done"]
    /\ UNCHANGED <<Ask, pc, priceVars, costVars, quotaVars>>

Claimed(k) ==
    /\ checkedIn' = checkedIn \cup {k}
    /\ granted' = [granted EXCEPT ![k] = IF k \in checkedIn THEN @ ELSE @ + 1]

ClaimCheckin(c, k) ==
    /\ At(c, "quota", "fetch") /\ mem[c].keys[k] = "claim"
    /\ \/ Claimed(k) /\ mem' = [mem EXCEPT ![c].views[k] = Note(@, "claimed"), ![c].keys[k] = "done"]
       \/ /\ mem' = [mem EXCEPT ![c].views[k] = Note(@, "claim_failed"), ![c].keys[k] = "done"]
          /\ UNCHANGED <<checkedIn, granted>>
    /\ UNCHANGED <<Ask, pc, priceVars, costVars, quotaCache, jobs>>

\* The views of those that answered, by id, as one; the failures of the others with it. The
\* view of one credential is not merged and not cached.
JoinQuotas(c) ==
    LET views == mem[c].views
        asked == SelectSeq(Credentials, LAMBDA k : k \in DOMAIN views)
        good == SelectSeq(asked, LAMBDA k : ~IsFailed(views[k]))
        merged == MergeQuotaViews([i \in DOMAIN good |-> views[good[i]]])
        view == [merged EXCEPT !.errors = Range(asked) \ Range(good)]
    IN /\ At(c, "quota", "fetch")
       /\ \A k \in DOMAIN mem[c].keys : mem[c].keys[k] = "done"
       /\ CASE good = <<>> -> End(c, "failed")
            [] good # <<>> /\ Ask[c].cred # None ->
                  Go(c, "done") /\ mem' = [mem EXCEPT ![c] =
                                    [Start EXCEPT !.result = "ok", !.answer = views[Head(good)]]]
            [] OTHER -> Go(c, "cache") /\ mem' = [mem EXCEPT ![c] = [Start EXCEPT !.answer = view]]
       /\ UNCHANGED <<Ask, priceVars, costVars, quotaVars>>

WriteQuotaCache(c) ==
    /\ At(c, "quota", "cache")
    /\ quotaCache' = mem[c].answer
    /\ Go(c, "done") /\ Keep(c, "result", "ok")
    /\ UNCHANGED <<Ask, priceVars, costVars, checkedIn, granted, jobs>>

QuotaCacheExpires(c) ==
    /\ At(c, "minute", "start")
    /\ quotaCache' = None
    /\ End(c, "ok")
    /\ UNCHANGED <<Ask, priceVars, costVars, checkedIn, granted, jobs>>

-----------------------------------------------------------------------------
(* The job: every account that is not known to have checked in is claimed   *)
(* for, also if its state could not be read.                                *)

RunCheckins(c) ==
    /\ At(c, "checkin", "start")
    /\ Go(c, "checkin") /\ Keep(c, "keys", [k \in CredentialCiphers |-> "status"])
    /\ jobs' = [jobs EXCEPT !["checkin"] = Begin(@)]
    /\ UNCHANGED <<Ask, priceVars, costVars, quotaCache, checkedIn, granted>>

JobCheckin(c, k) ==
    /\ At(c, "checkin", "checkin")
    /\ \/ /\ mem[c].keys[k] = "status"
          /\ \/ Move(c, k, IF k \in checkedIn THEN "done" ELSE "claim")
             \/ Move(c, k, "claim")
          /\ UNCHANGED <<checkedIn, granted>>
       \/ /\ mem[c].keys[k] = "claim"
          /\ Move(c, k, "done")
          /\ Claimed(k) \/ UNCHANGED <<checkedIn, granted>>
    /\ UNCHANGED <<Ask, pc, priceVars, costVars, quotaCache, jobs>>

CheckinsEnd(c) ==
    /\ At(c, "checkin", "checkin")
    /\ \A k \in DOMAIN mem[c].keys : mem[c].keys[k] = "done"
    /\ jobs' = [jobs EXCEPT !["checkin"] = Finish(@, FALSE)]
    /\ End(c, "ok")
    /\ UNCHANGED <<Ask, priceVars, costVars, quotaCache, checkedIn, granted>>

RunCostSync(c) ==
    /\ At(c, "daily", "start")
    /\ Go(c, "query") /\ UNCHANGED mem
    /\ jobs' = [jobs EXCEPT !["daily"] = Begin(@)]
    /\ UNCHANGED <<Ask, priceVars, costVars, quotaCache, checkedIn, granted>>

CostSyncEnd(c) ==
    /\ At(c, "daily", "finish")
    /\ jobs' = [jobs EXCEPT !["daily"] = Finish(@, FALSE)]
    /\ End(c, "ok")
    /\ UNCHANGED <<Ask, priceVars, costVars, quotaCache, checkedIn, granted>>

QuotaStep(c) ==
    \/ QueryQuota(c) \/ JoinQuotas(c) \/ WriteQuotaCache(c) \/ QuotaCacheExpires(c)
    \/ RunCheckins(c) \/ CheckinsEnd(c) \/ RunCostSync(c) \/ CostSyncEnd(c)
    \/ \E k \in IF mem[c].keys = None THEN {} ELSE DOMAIN mem[c].keys :
          \/ FetchQuotaWithCredential(c, k) \/ CheckinStatus(c, k) \/ ClaimCheckin(c, k)
          \/ JobCheckin(c, k)
=============================================================================
