--------------------------- MODULE ChannelHealth ---------------------------
(***************************************************************************)
(* Health of one channel: scores of its (model, credential) combinations,  *)
(* isolation of a combination, automatic disabling of a credential and the *)
(* recovery checks that bring both back.                                   *)
(*                                                                         *)
(* Sources: src/internal/logic/system/{combo_health,model_health,          *)
(* auto_disable,recovery_schedule,credential_failure}.go and               *)
(* src/internal/logic/channel/{health,health_combo,health_model,test,      *)
(* channel_status,cost_health,credentials}.go.                             *)
(*                                                                         *)
(* A moment is a distance: what the code stores as "until t" is counted    *)
(* down and what it measures from a stored time is counted up to the       *)
(* longest interval, so the clock itself is not a variable.                *)
(*                                                                         *)
(* The system's settings switch automatic disabling and recovery on        *)
(* (AutoDisableEnabled, RecoveryEnabled, an interval above 0); switched    *)
(* off, no round runs at all (health.go:44-72). The channel's own switch   *)
(* is modelled. Calls to Redis and the database succeed.                   *)
(***************************************************************************)
EXTENDS Integers, Sequences, FiniteSets, FiniteSetsExt

CONSTANTS
    Creds,               \* credentials of the channel
    Models,              \* models of the channel
    Edited,              \* bound: those the administrator edits, or tests with
    Asked,               \* bound: those that requests ask for
    Marked,              \* bound: those that carry a mark of the old kind
    Requests,            \* requests in flight
    MaxScore,            \* a new combination's score
    FailurePenalty,      \* score lost by a failure
    LightPenalty,        \* score lost by a 429, or by a failure after output
    TestSuccess,         \* score gained by a successful test
    Gains,               \* scores a successful request may gain
    Threshold,           \* consecutive matched failures that disable
    Isolation,           \* ticks a combination at score 0 is left alone
    Midnight,            \* ticks to the next UTC midnight, at most
    Intervals,           \* ticks before each recovery attempt
    LockTicks,           \* ticks the lock of an attempt lives
    MaxEvents            \* bound: acts of the administrator and process stops

ASSUME ScoresAssumption ==
    /\ MaxScore \in Nat \ {0} /\ FailurePenalty \in 1..MaxScore
    /\ LightPenalty \in 1..FailurePenalty /\ TestSuccess \in 1..MaxScore
    /\ Gains \subseteq 1..MaxScore

ASSUME ModelsAssumption == Edited \cup Asked \cup Marked \subseteq Models

ASSUME TimesAssumption ==
    /\ Threshold \in Nat \ {0} /\ Isolation \in Nat \ {0} /\ Midnight \in Nat \ {0}
    /\ Intervals \in Seq(Nat \ {0}) /\ Len(Intervals) > 0
    /\ LockTicks \in Nat /\ LockTicks > 1 /\ MaxEvents \in Nat

VARIABLES
    channel,             \* [status, auto, managed, tested, source], see Channels
    cred,                \* [Creds -> [status, auto, age]]: as channel, ticks since
    model,               \* [Models -> [enabled, health, mark]]
    combo,               \* [Models \X Creds -> NoRow or [score, pause]]
    failures,            \* consecutive matched failures of each credential
    schedule,            \* [Targets -> [attempts, since, lock]]
    request,             \* [Requests -> Idle or <<model, credential>>]
    worker,              \* the recovery round: [phase, pc, todo, at, marked]
    mode,                \* setting: regular checks of "all", or "passive"
    events               \* acts of the administrator and process stops so far

vars == <<channel, cred, model, combo, failures, schedule, request, worker, mode, events>>

None == "none"
Channel == "channel"
Gone == -1                 \* the status of a deleted credential
Targets == {Channel} \cup Models \cup Creds
NoRow == [score |-> MaxScore, pause |-> -1]
Idle == <<>>
NotTried == -1
Longest == Max({Intervals[i] : i \in DOMAIN Intervals})
NoSchedule == [attempts |-> 0, since |-> NotTried, lock |-> 0]
\* Enabled; disabled by the system; its switch of automatic disabling; the
\* configured test model or None; what the system disabled it for.
Channels == [status : {0, 1}, auto : BOOLEAN, managed : BOOLEAN,
             tested : Edited \cup {None}, source : {None, "relay_request", "model_test"}]
Resting == [phase |-> "rest", pc |-> "next", todo |-> {}, at |-> Idle, marked |-> FALSE]

\* What an upstream answer that is not a success tells about the credential.
Failures == {"plain", "matched", "limited", "daily", "definitive", "committed"}

(***************************************************************************)
(* Rules.                                                                  *)
(***************************************************************************)

\* The failures that make the credential itself unusable: 402, a named cause.
DefinitiveCredentialFailure(f) == f = "definitive"

\* The failures the settings' codes, latency and keywords match.
MatchesAutoDisable(f) == f # "plain"

\* The score a failure costs.
ModelHealthFailurePenalty(f) ==
    IF f \in {"committed", "limited", "daily"} THEN LightPenalty ELSE FailurePenalty

ReachesAutoDisableFailureThreshold(count) == count >= Threshold

\* The wait before the next attempt, after `attempts` completed ones.
RecoveryRetryInterval(attempts) ==
    Intervals[IF attempts >= Len(Intervals) THEN Len(Intervals) ELSE attempts + 1]

\* The model a channel is tested with: the configured one while it is enabled
\* and no other in its place; the first enabled one if none is configured.
HealthCheckModel ==
    LET enabled == {m \in Models : model[m].enabled}
    IN  CASE channel.tested # None -> {channel.tested} \cap enabled
          [] enabled = {}          -> {}
          [] OTHER                 -> {CHOOSE m \in enabled : TRUE}

\* A combination with a row whose pause has not passed.
Cooling(cs, m, c) == cs[m, c].pause > 0

\* Best score among enabled credentials whose combination is not paused.
UpdateModelHealthProjection(cs, creds, m) ==
    LET usable == {c \in Creds : creds[c].status = 1 /\ ~Cooling(cs, m, c)}
    IN  Max({0} \cup {cs[m, c].score : c \in usable})

\* The rows after one result of (m, c). A daily quota pauses every row of c.
ChangeComboHealth(cs, m, c, delta, success, daily) ==
    LET score == Max({0, Min({MaxScore, cs[m, c].score + delta})})
        row   == [score |-> score,
                  pause |-> IF success /\ score > 0 THEN 0
                            ELSE IF daily > 0 THEN daily
                            ELSE IF score = 0 THEN Isolation
                            ELSE Max({0, cs[m, c].pause})]
    IN  [k \in Models \X Creds |->
            IF k = <<m, c>> THEN row
            ELSE IF daily > 0 /\ k[2] = c /\ cs[k] # NoRow THEN [cs[k] EXCEPT !.pause = daily]
            ELSE cs[k]]

\* The transaction on the model row: nothing for a disabled model or a
\* credential that is gone, else the rows, the projection and no mark.
ApplyModelHealthScore(creds, m, c, delta, success, daily) ==
    IF model[m].enabled /\ creds[c].status # Gone
    THEN /\ combo' = ChangeComboHealth(combo, m, c, delta, success, daily)
         /\ model' = [model EXCEPT ![m].mark = FALSE,
                        ![m].health = UpdateModelHealthProjection(combo', creds, m)]
    ELSE UNCHANGED <<combo, model>>

\* The channel is enabled and has its automatic disabling switched on.
Active == channel.status = 1 /\ channel.managed

(***************************************************************************)
(* Automatic disabling.                                                    *)
(***************************************************************************)

\* A failure of c disables it: a definitive one at once, one without a model
\* (m = None) at the threshold, and none of an answer that wrote output.
Disables(m, c, f) ==
    /\ Active /\ cred[c].status = 1 /\ f # "committed"
    /\ \/ DefinitiveCredentialFailure(f)
       \/ /\ m = None /\ MatchesAutoDisable(f)
          /\ ReachesAutoDisableFailureThreshold(failures[c] + 1)

\* The counter after the failure. The cooldown key that the threshold sets is
\* deleted by the disabling it leads to.
RecordConsecutiveFailure(m, c, f) ==
    IF Disables(m, c, f)
    THEN failures' = [failures EXCEPT ![c] = 0]
    ELSE failures' = [failures EXCEPT ![c] = @ +
                IF /\ Active /\ cred[c].status = 1 /\ m = None
                   /\ MatchesAutoDisable(f) /\ f # "committed" THEN 1 ELSE 0]

\* The row of a credential the system disables, and its schedule.
DisableCredentialNow(m, c, f) ==
    cred' = IF Disables(m, c, f)
            THEN [cred EXCEPT ![c] = [status |-> 0, auto |-> TRUE, age |-> 0]] ELSE cred

ResetRecoverySchedule(m, c, f) ==
    IF Disables(m, c, f) THEN [schedule EXCEPT ![c] = NoSchedule] ELSE schedule

\* A failure of credential c, with the model it happened on or None. A failure
\* with a model is scored unless it is definitive.
DisableIfNeeded(m, c, f, daily) ==
    /\ DisableCredentialNow(m, c, f)
    /\ RecordConsecutiveFailure(m, c, f)
    /\ IF Active /\ m # None /\ (f = "committed" \/ ~DefinitiveCredentialFailure(f))
       THEN ApplyModelHealthScore(cred, m, c, -ModelHealthFailurePenalty(f), FALSE,
                                  IF f = "daily" THEN daily ELSE 0)
       ELSE UNCHANGED <<combo, model>>

(***************************************************************************)
(* Requests.                                                               *)
(***************************************************************************)

\* A request leaves with a credential of the pool; the pool may be stale, the
\* pause of the combination is read now.
Send(r, m, c) ==
    /\ request[r] = Idle /\ channel.status = 1
    /\ cred[c].status # Gone /\ model[m].enabled /\ ~model[m].mark
    /\ ~Cooling(combo, m, c)
    /\ request' = [request EXCEPT ![r] = <<m, c>>]
    /\ UNCHANGED <<channel, cred, model, combo, failures, schedule, worker>>

\* It succeeds: the counter goes, the combination gains.
Succeed(r, gain) ==
    /\ request[r] # Idle
    /\ LET m == request[r][1]
           c == request[r][2]
       IN  /\ failures' = [failures EXCEPT ![c] = 0]
          
           /\ ApplyModelHealthScore(cred, m, c, gain, TRUE, 0)
    /\ request' = [request EXCEPT ![r] = Idle]
    /\ UNCHANGED <<channel, cred, schedule, worker>>

\* It fails, before or after it wrote output.
Fail(r, f, daily) ==
    /\ request[r] # Idle
    /\ DisableIfNeeded(request[r][1], request[r][2], f, daily)
    /\ schedule' = ResetRecoverySchedule(request[r][1], request[r][2], f)
    /\ request' = [request EXCEPT ![r] = Idle]
    /\ UNCHANGED <<channel, worker>>

\* The client is gone: nothing is scored.
Abandon(r) ==
    /\ request[r] # Idle
    /\ request' = [request EXCEPT ![r] = Idle]
    /\ UNCHANGED <<channel, cred, model, combo, failures, schedule, worker>>

\* A cost query of a credential fails; it has no model.
ApplyCredentialCostHealthCheck(c, f) ==
    /\ cred[c].status # Gone
    /\ DisableIfNeeded(None, c, f, 0)
    /\ schedule' = ResetRecoverySchedule(None, c, f)
    /\ UNCHANGED <<channel, request, worker>>

\* The counter's key expires.
FailureCountExpires(c) ==
    /\ failures[c] > 0
    /\ failures' = [failures EXCEPT ![c] = 0]
    /\ UNCHANGED <<channel, cred, model, combo, schedule, request, worker>>

(***************************************************************************)
(* The administrator.                                                      *)
(***************************************************************************)

\* Enabling a channel enables its credentials and gives its models a full
\* score; the rows of the combinations keep theirs.
SetStatus(status) ==
    /\ channel' = [channel EXCEPT !.status = status, !.auto = FALSE, !.source = None]
    /\ schedule' = [t \in Targets |-> IF t = Channel \/ (status = 1 /\ t \in Creds)
                                      THEN NoSchedule ELSE schedule[t]]
    /\ IF status = 0 THEN UNCHANGED <<cred, model, failures>>
       ELSE LET own == {c \in Creds : cred[c].status # Gone}
            IN  /\ cred' = [c \in Creds |-> IF c \in own
                                THEN [status |-> 1, auto |-> FALSE, age |-> 0] ELSE cred[c]]
                /\ model' = [m \in Models |-> [model[m] EXCEPT !.health = MaxScore, !.mark = FALSE]]
                /\ failures' = [c \in Creds |-> IF c \in own THEN 0 ELSE failures[c]]
    /\ UNCHANGED <<combo, request, worker>>

SetCredentialStatus(c, status) ==
    /\ cred[c].status # Gone
    /\ cred' = [cred EXCEPT ![c] = [status |-> status, auto |-> FALSE, age |-> 0]]
    /\ failures' = [failures EXCEPT ![c] = 0]
    /\ schedule' = [schedule EXCEPT ![c] = NoSchedule]
    /\ UNCHANGED <<channel, model, combo, request, worker>>

\* The channel is edited: a test model has to be enabled when it is chosen, the
\* credentials and the schedule are left alone. Only the fields that matter to
\* health are kept.
Update(status, tested, managed) ==
    /\ tested # None => model[tested].enabled
    /\ channel' = [channel EXCEPT !.status = status, !.auto = FALSE, !.source = None,
                                  !.tested = tested, !.managed = managed]
    /\ UNCHANGED <<cred, model, combo, failures, schedule, request, worker>>

\* The rows of its combinations go with a credential.
DeleteCredential(c) ==
    /\ cred[c].status # Gone
    /\ cred' = [cred EXCEPT ![c] = [status |-> Gone, auto |-> FALSE, age |-> 0]]
    /\ combo' = [k \in Models \X Creds |-> IF k[2] = c THEN NoRow ELSE combo[k]]
    /\ failures' = [failures EXCEPT ![c] = 0]
    /\ UNCHANGED <<channel, model, schedule, request, worker>>

\* A model is edited; enabling it gives it a full score and removes the mark.
UpdateModel(m, enabled) ==
    /\ model' = [model EXCEPT ![m] =
            IF enabled THEN [enabled |-> TRUE, health |-> MaxScore, mark |-> FALSE]
            ELSE [@ EXCEPT !.enabled = FALSE]]
    /\ UNCHANGED <<channel, cred, combo, failures, schedule, request, worker>>

(***************************************************************************)
(* The recovery round of the health checks: the channel, credentials,      *)
(* models with an old mark, combinations, then the regular check. The list *)
(* of a phase is read once, its tests follow.                              *)
(***************************************************************************)

RecoverableChannel == channel.managed /\ (channel.status = 1 \/ channel.auto)

\* Bug: the combinations of disabled credentials are tested instead.
MutLoadComboRecoveryCandidates ==
    {<<None, m, c>> : <<m, c>> \in {k \in Models \X Creds :
        /\ combo[k] # NoRow /\ combo[k].score = 0 /\ combo[k].pause = 0
        /\ model[k[1]].enabled /\ cred[k[2]].status = 0 /\ RecoverableChannel}}

\* The isolated combinations whose pause has passed, with an enabled model, an
\* enabled credential and a channel that is enabled or was disabled by the system.
LoadComboRecoveryCandidates ==
    {<<None, m, c>> : <<m, c>> \in {k \in Models \X Creds :
        /\ combo[k] # NoRow /\ combo[k].score = 0 /\ combo[k].pause = 0
        /\ model[k[1]].enabled /\ cred[k[2]].status = 1 /\ RecoverableChannel}}

\* In passive mode a channel is tested only if requests had it disabled.
RecoverySourceRestriction == mode = "passive" => channel.source = "relay_request"

\* <<target, model, credential>> of the channel the system disabled.
RunChannelRecoveryChecks ==
    {<<Channel, m, None>> : m \in
        IF channel.status = 0 /\ channel.managed /\ channel.auto /\ RecoverySourceRestriction
        THEN HealthCheckModel ELSE {}}

RunCredentialRecoveryChecks ==
    {<<c, m, c>> : c \in {k \in Creds : cred[k].status = 0 /\ cred[k].auto},
                   m \in IF Active THEN HealthCheckModel ELSE {}}

RunModelRecoveryChecks ==
    {<<m, m, None>> : m \in {k \in Models : model[k].enabled /\ model[k].mark /\ RecoverableChannel}}

RunRegularHealthChecks ==
    {<<None, m, None>> : m \in IF Active /\ mode = "all" THEN HealthCheckModel ELSE {}}

Checks(phase) ==
    CASE phase = "channel"    -> RunChannelRecoveryChecks
      [] phase = "credential" -> RunCredentialRecoveryChecks
      [] phase = "model"      -> RunModelRecoveryChecks
      [] phase = "combo"      -> LoadComboRecoveryCandidates
      [] phase = "regular"    -> RunRegularHealthChecks
      [] OTHER                -> {}

Phases == <<"rest", "channel", "credential", "model", "combo", "regular">>
After(phase) == LET i == CHOOSE k \in DOMAIN Phases : Phases[k] = phase
                IN  Phases[IF i = Len(Phases) THEN 1 ELSE i + 1]

\* The ticker starts a round, and each phase follows when the last is through.
RunRecoveryChecks ==
    /\ worker.pc = "next" /\ worker.todo = {}
    /\ worker' = [worker EXCEPT !.phase = After(@), !.todo = Checks(After(worker.phase))]
    /\ UNCHANGED <<channel, cred, model, combo, failures, schedule, request>>

\* Time since the last attempt, or since the disabling before the first.
RecoveryDue(t) ==
    LET age == IF t \in Creds THEN cred[t].age ELSE Longest
    IN  (IF schedule[t].since = NotTried THEN age ELSE schedule[t].since)
            >= RecoveryRetryInterval(schedule[t].attempts)

\* The credential of a test: the named one, else any enabled one, or None.
CredentialForTest(k) ==
    LET pool == IF k[3] # None THEN {k[3]} \cap {c \in Creds : cred[c].status # Gone}
                ELSE {c \in Creds : cred[c].status = 1}
    IN  IF pool = {} THEN {None} ELSE pool

\* One target of the list: skipped unless it is due and its lock is free.
BeginRecoveryAttempt(k, c) ==
    /\ worker.pc = "next" /\ k[1] # None /\ c \in CredentialForTest(k)
    /\ IF RecoveryDue(k[1]) /\ schedule[k[1]].lock = 0
       THEN /\ schedule' = [schedule EXCEPT ![k[1]].lock = LockTicks]
            /\ worker' = [worker EXCEPT !.pc = "test", !.at = <<k[1], k[2], c>>, !.todo = @ \ {k}]
       ELSE /\ worker' = [worker EXCEPT !.todo = @ \ {k}]
            /\ UNCHANGED schedule
    /\ UNCHANGED <<channel, cred, model, combo, failures, request>>

\* A combination, or the regular check, is tested without a schedule.
RunComboRecoveryChecks(k, c) ==
    /\ worker.pc = "next" /\ k[1] = None /\ c \in CredentialForTest(k)
    /\ worker' = [worker EXCEPT !.pc = "test", !.at = <<k[1], k[2], c>>, !.todo = @ \ {k}]
    /\ UNCHANGED <<channel, cred, model, combo, failures, schedule, request>>

\* Bug: a failed attempt keeps its lock and never counts.
MutFinishRecoveryAttempt(sch, t, succeeded) ==
    IF t = None THEN sch
    ELSE [sch EXCEPT ![t] = IF succeeded THEN NoSchedule ELSE [@ EXCEPT !.lock = -1]]

\* A failed attempt counts and releases the lock, a successful one forgets all.
FinishRecoveryAttempt(sch, t, succeeded) ==
    IF t = None THEN sch
    ELSE [sch EXCEPT ![t] = IF succeeded THEN NoSchedule
            ELSE [attempts |-> Min({Len(Intervals), @.attempts + 1}), since |-> 0, lock |-> 0]]

\* The test succeeds: the counter goes, and the credential is read.
TestModelSucceeds(c) ==
    /\ worker.pc = "test" /\ c = worker.at[3]
    /\ failures' = [failures EXCEPT ![c] = 0]
    /\ worker' = [worker EXCEPT !.pc = "recover",
                    !.marked = cred[c].status = 0 /\ cred[c].auto]
    /\ UNCHANGED <<channel, cred, model, combo, schedule, request>>

\* The update follows the read and asks for status 0 only.
RecoverCredentialIfAllowed(c) ==
    IF worker.marked /\ cred[c].status = 0
    THEN [cred EXCEPT ![c] = [status |-> 1, auto |-> FALSE, age |-> 0]] ELSE cred

RecoverIfAllowed ==
    IF channel.status = 0 /\ channel.auto THEN [channel EXCEPT !.status = 1, !.auto = FALSE, !.source = None] ELSE channel

\* The rest of a successful test: credential, channel, score, schedules.
TestModelRecovers ==
    /\ worker.pc = "recover"
    /\ LET m == worker.at[2]
           c == worker.at[3]
       IN  /\ cred' = RecoverCredentialIfAllowed(c)
           /\ channel' = RecoverIfAllowed
           /\ ApplyModelHealthScore(cred', m, c, TestSuccess, TRUE, 0)
           /\ schedule' = FinishRecoveryAttempt(
                    [t \in Targets |-> IF \/ t = c /\ cred' # cred
                                          \/ t = Channel /\ channel' # channel
                                       THEN NoSchedule ELSE schedule[t]], worker.at[1], TRUE)
    /\ worker' = [worker EXCEPT !.pc = "next", !.at = Idle, !.marked = FALSE]
    /\ UNCHANGED <<failures, request>>

\* The test fails.
TestModelFails(c, f, daily) ==
    /\ worker.pc = "test" /\ f # "committed" /\ c = worker.at[3]
    /\ DisableIfNeeded(worker.at[2], c, f, daily)
    /\ schedule' = FinishRecoveryAttempt(ResetRecoverySchedule(worker.at[2], c, f), worker.at[1], FALSE)
    /\ worker' = [worker EXCEPT !.pc = "next", !.at = Idle]
    /\ UNCHANGED <<channel, request>>

\* No credential is left to test with.
TestModelUnavailable ==
    /\ worker.pc = "test" /\ worker.at[3] = None
    /\ schedule' = FinishRecoveryAttempt(schedule, worker.at[1], FALSE)
    /\ worker' = [worker EXCEPT !.pc = "next", !.at = Idle]
    /\ UNCHANGED <<channel, cred, model, combo, failures, request>>

\* The process stops; a lock it holds stays until it expires.
Crash ==
    /\ worker # Resting
    /\ worker' = Resting
    /\ UNCHANGED <<channel, cred, model, combo, failures, schedule, request>>

\* Time passes. A test is cut off before its lock expires.
Tick ==
    /\ (worker.pc # "next" /\ worker.at[1] # None) => schedule[worker.at[1]].lock > 1
    /\ combo' = [k \in Models \X Creds |-> [combo[k] EXCEPT !.pause = IF @ > 0 THEN @ - 1 ELSE @]]
    /\ cred' = [c \in Creds |-> [cred[c] EXCEPT !.age = IF cred[c].auto /\ @ < Longest THEN @ + 1 ELSE @]]
    /\ schedule' = [t \in Targets |-> [schedule[t] EXCEPT
                        !.since = IF @ = NotTried THEN @ ELSE Min({Longest, @ + 1}),
                        !.lock = IF @ > 0 THEN @ - 1 ELSE @]]
    /\ UNCHANGED <<channel, model, failures, request, worker>>

\* A channel with full scores, or one the system had disabled before the
\* combinations were scored, with the marks of that time; a test model is
\* configured, an edit may take it away. The source of a
\* disabling matters in passive mode only.
Init ==
    /\ mode \in {"passive", "all"}
    /\ \E old \in BOOLEAN :
        /\ channel \in {ch \in Channels : /\ ch.managed /\ ch.auto = old /\ ch.tested # None
                                          /\ ch.status = IF old THEN 0 ELSE 1
                                          /\ (ch.source = None) <=> ~old
                                          /\ ch.source = "model_test" => mode = "passive"}
        /\ model = [m \in Models |-> [enabled |-> TRUE, health |-> IF old THEN 0 ELSE MaxScore,
                                       mark |-> old /\ m \in Marked]]
    /\ cred = [c \in Creds |-> [status |-> 1, auto |-> FALSE, age |-> 0]]
    /\ combo = [k \in Models \X Creds |-> NoRow]
    /\ failures = [c \in Creds |-> 0]
    /\ schedule = [t \in Targets |-> NoSchedule]
    /\ request = [r \in Requests |-> Idle]
    /\ worker = Resting
    /\ events = 0

Relay ==
    \/ \E r \in Requests :
        \/ \E m \in Asked, c \in Creds : Send(r, m, c)
        \/ \E g \in Gains : Succeed(r, g)
        \/ \E f \in Failures, daily \in 1..Midnight : Fail(r, f, daily)
        \/ Abandon(r)
    \/ \E c \in Creds :
        \/ \E f \in Failures \ {"committed"} : ApplyCredentialCostHealthCheck(c, f)
        \/ FailureCountExpires(c)

Admin ==
    \/ \E status \in {0, 1} : SetStatus(status) \/ \E c \in Creds : SetCredentialStatus(c, status)
    \/ \E status \in {0, 1}, tested \in Edited \cup {None}, managed \in BOOLEAN :
        Update(status, tested, managed)
    \/ \E c \in Creds : DeleteCredential(c)
    \/ \E m \in Edited, enabled \in BOOLEAN : UpdateModel(m, enabled)

Round ==
    \/ RunRecoveryChecks
    \/ \E k \in worker.todo, c \in Creds \cup {None} :
        BeginRecoveryAttempt(k, c) \/ RunComboRecoveryChecks(k, c)
    \/ \E c \in Creds : TestModelSucceeds(c)
    \/ TestModelRecovers
    \/ \E c \in Creds, f \in Failures, daily \in 1..Midnight : TestModelFails(c, f, daily)
    \/ TestModelUnavailable

Next ==
    \/ (Relay \/ Round \/ Tick) /\ UNCHANGED <<mode, events>>
    \/ (Admin \/ Crash) /\ events < MaxEvents /\ events' = events + 1 /\ UNCHANGED mode

Spec == Init /\ [][Next]_vars

\* The ticker's goroutine goes on, its lists are finite, a test ends within its
\* timeout, and time passes.
FairSpec == Spec /\ WF_vars(Round /\ UNCHANGED <<mode, events>>) /\ WF_vars(Tick /\ UNCHANGED <<mode, events>>)

(***************************************************************************)
(* Properties.                                                             *)
(***************************************************************************)

\* A credential the system disabled is tested again: the schedule, the lock of
\* a stopped process and the order of the lists never keep it out for ever
\* (BeginRecoveryAttempt, FinishRecoveryAttempt, runCredentialRecoveryChecks).
\* It waits only while the channel is enabled, with automatic disabling on, and
\* has a model to test with: while the configured test model is disabled it is
\* passed over in every round, whatever other models are enabled
\* (selectHealthCheckModelID, health.go:195-198).
AutoDisabledIsRetried ==
    \A c \in Creds :
        LET waiting == cred[c].auto /\ Active /\ HealthCheckModel # {}
        IN  waiting ~> (~waiting \/ (worker.pc = "test" /\ worker.at[3] = c))

\* A result pauses the combination for longer, as a daily quota found exhausted
\* on another model of the credential does.
PausedAgain(m, c) == combo'[m, c].pause > Max({0, combo[m, c].pause})

\* An isolated combination of enabled parts is used again, by a test or,
\* once its pause has passed, by a request (comboRecoveryDue,
\* loadComboRecoveryCandidates), as long as the channel has automatic disabling
\* on (health.go:331) and the settings let the rounds run (health.go:44-72).
IsolatedIsRetried ==
    \A m \in Models, c \in Creds : <>[][~PausedAgain(m, c)]_vars =>
        LET isolated == /\ combo[m, c].score = 0 /\ model[m].enabled
                        /\ cred[c].status = 1 /\ Active
        IN  isolated ~> \/ ~isolated
                        \/ worker.pc = "test" /\ worker.at[2] = m /\ worker.at[3] = c
                        \/ ~Cooling(combo, m, c) /\ \E r \in Requests : request[r] = <<m, c>>
=============================================================================
