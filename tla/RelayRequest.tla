---------------------------- MODULE RelayRequest ----------------------------
(***************************************************************************)
(* One relayed request from its ordered candidates to the client's answer  *)
(* and the usage row: failover between channels, keys and addresses, the   *)
(* protocol fallback, same-candidate retries, waiting for a key's slot,    *)
(* billing and the two passes of Handle.                                   *)
(*                                                                         *)
(* Concurrent requests meet in the slots of the keys (KeySlots), in the    *)
(* combo cooldowns that failures cause and in disabled keys.  What one     *)
(* upstream call brings is a member of Outcomes; module RelayStream says   *)
(* which outcomes a streamed call has.                                     *)
(***************************************************************************)
EXTENDS Integers, FiniteSets, Sequences

CONSTANTS
    Requests,
    Order,          \* the candidates of the model: a sequence of channels
    Keys,           \* channel -> its upstream keys
    Limit,          \* channel -> concurrency limit per key, 0 = none
    Addresses,      \* channel -> number of base URLs
    Priced,         \* BOOLEAN: the model has a price
    Owned,          \* the channels created by the request's user: never charged
    Converts,       \* BOOLEAN: protocol conversion is enabled
    Outcomes        \* request -> what an upstream call of it may bring

None == "none"
AllKeys == UNION {Keys[Order[i]] : i \in DOMAIN Order}

\* attemptResult, as far as the control flow tells results apart.
Outcome == [stream : BOOLEAN,       \* brought by a streamed call
            status : {"ok", "throttled", "quota", "risk", "transient", "client"},
            error : BOOLEAN,        \* no usable response: recorded as a 502
            wrote : BOOLEAN,        \* bytes reached the client
            broken : BOOLEAN,       \* a write to the client failed
            completed : BOOLEAN,    \* the end marker of the stream was seen
            usage : {"none", "yes", "late"},    \* late: priced now, not at the start
            unsupported : BOOLEAN,  \* the endpoint is refused: protocol.ShouldFallback
            dead : BOOLEAN]         \* a disable rule or failure keyword matches

ASSUME RelayConstants ==
    /\ Outcomes \in [Requests -> SUBSET Outcome]
    /\ \A r \in Requests : \A o \in Outcomes[r] :
        /\ ~ o.stream => ~ o.wrote /\ ~ o.broken
        /\ o.error => o.status = "transient" /\ ~ o.wrote
    /\ Priced \in BOOLEAN /\ Converts \in BOOLEAN
    /\ Len(Order) \in Nat \ {0}
    /\ \A i \in 1 .. Len(Order) :
        Addresses[Order[i]] \in Nat \ {0} /\ IsFiniteSet(Keys[Order[i]])

VARIABLES
    req,        \* request -> its local state
    cooling,    \* keys in combo cooldown for this model
    disabled    \* keys that were disabled

vars == <<req, cooling, disabled>>

Fresh(stream) ==
         [stream |-> stream, pc |-> "begin", pass |-> 0, cand |-> 1, excluded |-> {}, bypass |-> FALSE,
          retries |-> 0, key |-> None, url |-> 1, last |-> None, lastKey |-> None,
          tried |-> 0, handled |-> FALSE, exhausted |-> FALSE, gap |-> None,
          counted |-> FALSE, cancelled |-> FALSE, output |-> FALSE,
          row |-> None, charged |-> FALSE, reply |-> None]

Channel(r) == Order[req[r].cand]
IsLastCandidate(r) == req[r].cand = Len(Order)
Holders(k) == {r \in Requests : req[r].key = k}
HasResult(r) == req[r].lastKey # None

\* Handle's attempts, as far as they are zero or not.
Counted(r) == req[r].counted \/ req[r].tried > 0

\* The request is over: its local variables are gone.
Done(q, reply) ==
    [q EXCEPT !.pc = "done", !.reply = reply, !.pass = 0, !.excluded = {}, !.bypass = FALSE,
              !.retries = 0, !.url = 1, !.last = None, !.lastKey = None, !.tried = 0,
              !.handled = FALSE, !.exhausted = FALSE, !.gap = None, !.counted = FALSE,
              !.cancelled = FALSE]

Set(r, q) == req' = [req EXCEPT ![r] = q]

Init == /\ \E S \in SUBSET Requests :
            /\ \A r \in Requests : \E o \in Outcomes[r] : o.stream = (r \in S)
            /\ req = [r \in Requests |-> Fresh(r \in S)]
        /\ cooling = {} /\ disabled = {}

-----------------------------------------------------------------------------
(* Classification of a result.                                              *)

StreamTruncated(o) == o.stream /\ o.wrote /\ ~ o.completed

MissingBillableUsage(o) == o.status = "ok" /\ Priced /\ o.usage = "none"

\* The attempt itself is over: a stream that ran to its end or wrote something.
StreamHandled(o) == o.stream /\ (o.wrote \/ o.broken \/ (o.status = "ok" /\ ~ o.error))

NeedsFallback(o) ==
    /\ Converts /\ ~ o.error /\ ~ StreamHandled(o)
    /\ o.unsupported \/ MissingBillableUsage(o)

\* Bug: output that was cut short counts as a failed attempt.
MutAttemptCompleted(o) == ~ o.error /\ o.status = "ok" /\ (o.stream => o.completed)

AttemptCompleted(o) ==
    \/ o.wrote \/ o.broken
    \/ ~ o.error /\ o.status = "ok" /\ (o.stream => o.completed)

ChannelDeadFailure(o) == ~ o.wrote /\ o.dead

IsTransientUpstreamFailure(o) == o.status = "transient"

\* At most 1 retry after a throttled result, 2 after risk control, 3 after a
\* transient failure, all counted together; only on the last candidate.
SameCandidateRetryDelay(r, dead) ==
    LET o == req[r].last
        retries == req[r].retries
    IN  /\ HasResult(r) /\ ~ req[r].cancelled
        /\ ~ o.wrote /\ ~ o.broken /\ IsLastCandidate(r)
        /\ \/ o.status = "throttled" /\ retries = 0
           \/ o.status = "risk" /\ retries < 2
           \/ ~ dead /\ ~ o.completed /\ IsTransientUpstreamFailure(o) /\ retries < 3

-----------------------------------------------------------------------------
(* Handle: before the loop.                                                 *)

\* Validation, routing or the balance check refuses: no row, nothing sent.
Refuse(r) ==
    /\ req[r].pc = "begin"
    /\ Set(r, Done(req[r], "refused"))
    /\ UNCHANGED <<cooling, disabled>>

Begin(r) ==
    /\ req[r].pc = "begin"
    /\ Set(r, [req[r] EXCEPT !.pc = "enter"])
    /\ UNCHANGED <<cooling, disabled>>

\* attemptChannel starts: its counters are fresh, the exclusions are Handle's.
EnterChannel(r) ==
    /\ req[r].pc = "enter"
    /\ Set(r, [req[r] EXCEPT !.pc = "acquire", !.retries = 0, !.bypass = req[r].pass > 0,
                             !.tried = 0, !.last = None, !.lastKey = None, !.handled = FALSE,
                             !.exhausted = FALSE, !.gap = None])
    /\ UNCHANGED <<cooling, disabled>>

-----------------------------------------------------------------------------
(* acquireKeySlot: see KeySlots for its own steps.                          *)

UsableKeys(r) ==
    {k \in Keys[Channel(r)] \ (req[r].excluded \cup disabled) : req[r].bypass \/ k \notin cooling}

FreeKeys(r) ==
    {k \in UsableKeys(r) : Limit[Channel(r)] = 0 \/ Cardinality(Holders(k)) < Limit[Channel(r)]}

AcquireKeySlot(r, k) ==
    /\ req[r].pc = "acquire" /\ k \in FreeKeys(r)
    /\ Set(r, [req[r] EXCEPT !.pc = "attempt", !.key = k, !.url = 1])
    /\ UNCHANGED <<cooling, disabled>>

\* Every usable key is full: at once, or after the window of the last candidate.
\* Slots are shared by all models, so other requests may hold any of them.
ConcurrencyExhausted(r) ==
    /\ req[r].pc = "acquire" /\ UsableKeys(r) # {} /\ Limit[Channel(r)] # 0
    /\ Set(r, [req[r] EXCEPT !.pc = "unkeyed", !.gap = "full"])
    /\ UNCHANGED <<cooling, disabled>>

CredentialUnavailable(r) ==
    /\ req[r].pc = "acquire"
    /\ UsableKeys(r) = {} \/ req[r].cancelled
    /\ Set(r, [req[r] EXCEPT !.pc = "unkeyed", !.gap = "unavailable"])
    /\ UNCHANGED <<cooling, disabled>>

\* Bug: the retries are not counted.
MutRetrySameCandidate(r) ==
    /\ req[r].pc = "unkeyed" /\ SameCandidateRetryDelay(r, FALSE)
    /\ Set(r, [req[r] EXCEPT !.pc = "backoff", !.bypass = TRUE,
                             !.excluded = @ \ {req[r].lastKey}])
    /\ UNCHANGED <<cooling, disabled>>

\* No key: back off and try the last key again, or give the channel up.
RetrySameCandidate(r) ==
    /\ req[r].pc = "unkeyed" /\ SameCandidateRetryDelay(r, FALSE)
    /\ Set(r, [req[r] EXCEPT !.pc = "backoff", !.retries = @ + 1, !.bypass = TRUE,
                             !.excluded = @ \ {req[r].lastKey}])
    /\ UNCHANGED <<cooling, disabled>>

LeaveChannel(r) ==
    /\ \/ req[r].pc = "unkeyed" /\ ~ SameCandidateRetryDelay(r, FALSE)
       \/ req[r].pc = "backoff" /\ req[r].cancelled
    /\ Set(r, [req[r] EXCEPT !.pc = "outcome", !.exhausted = req[r].gap = "full"])
    /\ UNCHANGED <<cooling, disabled>>

WaitForRetry(r) ==
    /\ req[r].pc = "backoff" /\ ~ req[r].cancelled
    /\ Set(r, [req[r] EXCEPT !.pc = "acquire", !.gap = None])
    /\ UNCHANGED <<cooling, disabled>>

-----------------------------------------------------------------------------
(* One key: its addresses, and the protocol fallback of each call.          *)

Possible(r, o) == o.stream = req[r].stream /\ (req[r].cancelled => o.error /\ ~ o.wrote)

Sent(q, o) == [q EXCEPT !.tried = @ + 1, !.output = @ \/ o.wrote]

\* maybeAutoDisable: a failure may cool the combo down or disable the key.
MaybeAutoDisable(r, k, failed, dead) ==
    IF failed /\ ~ req[r].cancelled
    THEN /\ cooling' \in {cooling, cooling \cup {k}}
         /\ disabled' \in IF dead THEN {disabled, disabled \cup {k}} ELSE {disabled}
    ELSE UNCHANGED <<cooling, disabled>>

\* What attemptChannel does with the result of an address.
Judged(r, q, o) ==
    IF AttemptCompleted(o) THEN [q EXCEPT !.pc = "outcome", !.key = None, !.handled = TRUE]
    ELSE IF ChannelDeadFailure(o) THEN [q EXCEPT !.pc = "dead", !.key = None, !.gap = None]
    ELSE IF q.url < Addresses[Channel(r)] THEN [q EXCEPT !.pc = "attempt", !.url = @ + 1]
    ELSE [q EXCEPT !.pc = "acquire", !.key = None, !.excluded = @ \cup {q.key}]

Settle(r, o) ==
    /\ Set(r, Judged(r, [Sent(req[r], o) EXCEPT !.last = o, !.lastKey = req[r].key], o))
    /\ MaybeAutoDisable(r, req[r].key, ~ o.wrote /\ ~ o.broken /\ o.status # "ok", o.dead)

Attempt(r, o) ==
    /\ req[r].pc = "attempt" /\ Possible(r, o)
    /\ IF NeedsFallback(o)
       THEN /\ Set(r, [Sent(req[r], o) EXCEPT !.pc = "fallback"])
            /\ UNCHANGED <<cooling, disabled>>
       ELSE Settle(r, o)

\* The second call of an attempt, on the alternate endpoint.
Fallback(r, o) ==
    /\ req[r].pc = "fallback" /\ Possible(r, o)
    /\ Settle(r, o)

ChannelDead(r) ==
    /\ req[r].pc = "dead"
    /\ IF SameCandidateRetryDelay(r, TRUE)
       THEN Set(r, [req[r] EXCEPT !.pc = "backoff", !.retries = @ + 1, !.bypass = TRUE])
       ELSE Set(r, [req[r] EXCEPT !.pc = "outcome"])
    /\ UNCHANGED <<cooling, disabled>>

-----------------------------------------------------------------------------
(* Handle: what becomes of the outcome of a candidate.                      *)

\* The next candidate, the second pass if nothing was sent, or the end.
NextCandidate(r, counted) ==
    IF ~ IsLastCandidate(r) THEN [req[r] EXCEPT !.pc = "enter", !.cand = @ + 1]
    ELSE IF ~ counted /\ req[r].pass = 0
         THEN [req[r] EXCEPT !.pc = "enter", !.cand = 1, !.pass = 1]
         ELSE [req[r] EXCEPT !.pc = "failed"]

\* The attempts of an exhausted outcome are not added up.
Exhausted(r) ==
    /\ req[r].pc = "outcome" /\ req[r].exhausted
    /\ Set(r, IF IsLastCandidate(r) THEN Done(req[r], "429") ELSE NextCandidate(r, req[r].counted))
    /\ UNCHANGED <<cooling, disabled>>

Failover(r) ==
    /\ req[r].pc = "outcome" /\ ~ req[r].exhausted /\ ~ req[r].handled
    /\ Set(r, [NextCandidate(r, Counted(r)) EXCEPT !.counted = Counted(r)])
    /\ UNCHANGED <<cooling, disabled>>

\* Bug: the key that reports no usage is not excluded.
MutRetryUnbillable(r) ==
    /\ Set(r, [req[r] EXCEPT !.pc = "enter", !.counted = TRUE])
    /\ MaybeAutoDisable(r, req[r].lastKey, ~ req[r].last.broken, FALSE)

\* An answer that cannot be billed is dropped and the candidate tried again.
RetryUnbillable(r) ==
    /\ Set(r, [req[r] EXCEPT !.pc = "enter", !.counted = TRUE,
                             !.excluded = @ \cup {req[r].lastKey}])
    /\ MaybeAutoDisable(r, req[r].lastKey, ~ req[r].last.broken, FALSE)

Handled(r) == req[r].pc = "outcome" /\ req[r].handled

DropUnbillable(r) ==
    /\ Handled(r) /\ ~ req[r].last.wrote /\ MissingBillableUsage(req[r].last)
    /\ RetryUnbillable(r)

\* Bug: a truncated stream is billed.
MutBillable(o) == o.status = "ok"

Billable(o) == o.status = "ok" /\ ~ StreamTruncated(o)

\* recordUsage commits: the charge and the row in one transaction; request_id
\* is unique, so a second row of the request cannot be written.
Recorded(r, o, funds) ==
    LET unbillable == Billable(o) /\ Priced /\ o.usage # "yes"
        charge == Billable(o) /\ Priced /\ o.usage = "yes" /\ Channel(r) \notin Owned
    IN  /\ req[r].row = None
        /\ IF unbillable \/ (charge /\ ~ funds)
           THEN Set(r, [req[r] EXCEPT !.pc = IF unbillable THEN "unbillable" ELSE "unpaid",
                                      !.row = "402"])
           ELSE Set(r, [req[r] EXCEPT !.pc = "answer", !.charged = charge,
                                      !.row = IF Billable(o) THEN "ok" ELSE "error"])

Record(r, funds) ==
    /\ Handled(r) /\ (req[r].last.wrote \/ ~ MissingBillableUsage(req[r].last))
    /\ Recorded(r, req[r].last, funds)
    /\ UNCHANGED <<cooling, disabled>>

\* Bug: a failed transaction does not withhold the answer.
MutRecordFails(r) ==
    /\ Handled(r) /\ (req[r].last.wrote \/ ~ MissingBillableUsage(req[r].last))
    /\ Set(r, [req[r] EXCEPT !.pc = "answer"])
    /\ UNCHANGED <<cooling, disabled>>

\* The transaction fails, always when the request already has a row.
RecordFails(r) ==
    /\ Handled(r) /\ (req[r].last.wrote \/ ~ MissingBillableUsage(req[r].last))
    /\ Set(r, [req[r] EXCEPT !.pc = "unpaid"])
    /\ UNCHANGED <<cooling, disabled>>

\* The usage was billable when it arrived but not at the start of the request.
Unbillable(r) ==
    /\ req[r].pc = "unbillable"
    /\ IF req[r].last.wrote
       THEN Set(r, [req[r] EXCEPT !.pc = "unpaid"]) /\ UNCHANGED <<cooling, disabled>>
       ELSE RetryUnbillable(r)

\* A non-stream client gets 402 or 500 instead of the answer.
Unpaid(r) ==
    /\ req[r].pc = "unpaid"
    /\ Set(r, Done(req[r], IF req[r].stream THEN "streamed" ELSE "error"))
    /\ UNCHANGED <<cooling, disabled>>

\* Scoring, then the buffered answer; a stream has been written already.
Answer(r) ==
    LET o == req[r].last
        truncated == StreamTruncated(o)
    IN  /\ req[r].pc = "answer"
        /\ Set(r, Done(req[r], IF truncated THEN "truncated"
                               ELSE IF req[r].stream THEN "streamed" ELSE "answer"))
        /\ MaybeAutoDisable(r, req[r].lastKey, truncated /\ ~ o.broken, FALSE)

\* All candidates failed: one row (written if the request has none), the last
\* error is passed through; with nothing sent a 503 row and a 503.
AllCandidatesFailed(r, stored) ==
    /\ req[r].pc = "failed"
    /\ LET status == IF req[r].counted THEN "error" ELSE "503"
       IN  Set(r, [Done(req[r], status) EXCEPT
                       !.row = IF @ = None /\ stored THEN status ELSE @])
    /\ UNCHANGED <<cooling, disabled>>

-----------------------------------------------------------------------------
(* The environment.                                                         *)

Cancel(r) ==
    /\ req[r].pc # "done" /\ ~ req[r].cancelled
    /\ Set(r, [req[r] EXCEPT !.cancelled = TRUE])
    /\ UNCHANGED <<cooling, disabled>>

CooldownEnds(k) ==
    /\ k \in cooling
    /\ cooling' = cooling \ {k}
    /\ UNCHANGED <<req, disabled>>

Step(r) ==
    \/ Refuse(r) \/ Begin(r) \/ EnterChannel(r)
    \/ \E k \in AllKeys : AcquireKeySlot(r, k)
    \/ ConcurrencyExhausted(r) \/ CredentialUnavailable(r) \/ RetrySameCandidate(r)
    \/ LeaveChannel(r) \/ WaitForRetry(r)
    \/ \E o \in Outcomes[r] : Attempt(r, o) \/ Fallback(r, o)
    \/ ChannelDead(r) \/ Exhausted(r) \/ Failover(r) \/ DropUnbillable(r)
    \/ \E funds \in BOOLEAN : Record(r, funds)
    \/ RecordFails(r) \/ Unbillable(r) \/ Unpaid(r) \/ Answer(r)
    \/ \E stored \in BOOLEAN : AllCandidatesFailed(r, stored)

Next ==
    \/ \E r \in Requests : Step(r) \/ Cancel(r)
    \/ \E k \in AllKeys : CooldownEnds(k)

Spec == Init /\ [][Next]_vars
FairSpec == Spec /\ \A r \in Requests : WF_vars(Step(r))

-----------------------------------------------------------------------------
(* Properties.                                                              *)

\* Once a byte of an answer has reached the client nothing is sent upstream
\* again for the request, whatever failed after it (attemptCompleted, Handle).
NoReplayAfterOutput ==
    [][\A r \in Requests : req[r].output => req'[r].tried <= req[r].tried]_vars

\* A charged request ends with the answer delivered: it is never dropped,
\* retried, truncated or replaced by an error after the charge (recordUsage).
ChargedIsDelivered ==
    \A r \in Requests : (req[r].charged /\ req[r].pc = "done")
        => req[r].reply \in {"answer", "streamed"} /\ req[r].row = "ok"

\* A buffered answer is delivered only after its usage row was written, and
\* on a channel of another user only after it was paid for.
AnswerIsRecorded ==
    \A r \in Requests : req[r].reply = "answer"
        => req[r].row = "ok" /\ (Priced /\ Channel(r) \notin Owned => req[r].charged)

\* Throttle, risk control and transient retries share one budget: a visit to a
\* channel sends at most two calls per address, for each key once and for at
\* most three repeats, however the kinds of failure alternate.
BoundedPressure ==
    \A r \in Requests : req[r].pc # "enter" =>
        req[r].tried <= 2 * Addresses[Channel(r)] * (Cardinality(Keys[Channel(r)]) + 3)

\* Every request ends: no candidate, key, pass or retry is repeated for ever
\* and nobody waits for a slot without end.
RequestEnds == \A r \in Requests : <>(req[r].pc = "done")

=============================================================================
