----------------------------- MODULE RelayProofs -----------------------------
(***************************************************************************)
(* What a relayed request owes its client and its owner, for any number of *)
(* requests, channels, keys and addresses and any set of outcomes: nothing *)
(* is sent upstream after output, what is charged is delivered, what is    *)
(* delivered is recorded, and a visit to a channel makes a bounded number  *)
(* of calls.  Requests meet only in cooldowns, disabled keys and slots, on *)
(* which none of this depends, so the invariants speak of one request at a *)
(* time (RequestSafe, Pressed).                                            *)
(*                                                                         *)
(* And how old the route may be the request begins with (module            *)
(* RelayRouting): a version is announced once and never again              *)
(* (VersionsAreFinal), so what a request read under a version, or stores   *)
(* under it however late, is compared with a revision that cannot change   *)
(* any more.                                                               *)
(*                                                                         *)
(* And who answers (module RelayStream): whom the client has heard is the  *)
(* attempt in use, and while that attempt is open it is marked as having   *)
(* written, which no verdict on it overlooks (AnswerInv).                  *)
(***************************************************************************)
EXTENDS RelayRequest, RelayRouting, RelayStream, FiniteSetTheorems, TLAPS

Fields == {"stream", "pc", "pass", "cand", "excluded", "bypass", "retries", "key", "url", "last",
           "lastKey", "tried", "handled", "exhausted", "gap", "counted", "cancelled", "output",
           "row", "charged", "reply"}

\* Stages in which a candidate is being attempted, and stages after its outcome.
Attempting == {"acquire", "attempt", "fallback", "dead", "unkeyed", "backoff"}
Settling   == {"answer", "unpaid", "unbillable"}

Shape(q) == DOMAIN q = Fields /\ q.tried \in Nat

\* Which stages have a result that ends the attempt.
ResultIsKept(r, q) ==
    /\ q.handled => /\ q.last \in Outcomes[r] /\ q.last.stream = q.stream
                    /\ AttemptCompleted(q.last)
    /\ q.pc \in Attempting \cup {"begin", "failed"} => ~ q.handled
    /\ q.pc \in Attempting \/ (q.pc = "outcome" /\ q.handled) => ~ q.exhausted
    /\ q.pc \in Settling => q.handled

\* Output was the end of the attempts.
OutputIsFinal(q) ==
    q.output => \/ q.pc = "done"
                \/ q.pc \in Settling \cup {"outcome"} /\ q.handled /\ q.last.wrote

\* A charge is made for an answer that is about to be delivered.
ChargeIsForAnswer(q) ==
    q.charged => /\ q.row = "ok"
                 /\ \/ q.pc = "answer" /\ Billable(q.last)
                    \/ q.pc = "done" /\ q.reply \in {"answer", "streamed"}

Paid(q) == Priced /\ Order[q.cand] \notin Owned => q.charged

\* An answer is about to be delivered when its row is there.
AnswerHasRow(q) ==
    /\ q.pc = "answer" => /\ q.row = IF Billable(q.last) THEN "ok" ELSE "error"
                          /\ Billable(q.last) => Paid(q)
    /\ q.reply = "answer" => q.pc = "done" /\ q.row = "ok" /\ Paid(q)

RequestSafe(r, q) ==
    /\ Shape(q) /\ ResultIsKept(r, q) /\ OutputIsFinal(q) /\ ChargeIsForAnswer(q)
    /\ AnswerHasRow(q)

RequestInv ==
    /\ DOMAIN req = Requests
    /\ \A r \in Requests : RequestSafe(r, req[r])

-----------------------------------------------------------------------------
(* Steps that the client and the owner do not notice. *)

\* What such a step leaves alone.
Quiet(q, n) ==
    /\ n.stream = q.stream /\ n.reply = q.reply
    /\ (n.output => q.output) /\ (n.charged => q.charged)

\* A request that has neither output nor a result that ends it stays safe.
LEMMA QuietStep ==
    ASSUME NEW r \in Requests, NEW q, NEW n, RequestSafe(r, q), Shape(n), Quiet(q, n),
           \/ q.pc \in Attempting \cup {"begin", "enter", "failed"}
           \/ q.pc = "outcome" /\ ~ q.handled,
           ~ n.handled \/ (n.pc = "enter" /\ n.handled = q.handled /\ n.last = q.last),
           n.pc \in Attempting \cup {"begin", "enter", "failed", "outcome"},
           n.pc \in Attempting => ~ n.exhausted
    PROVE  RequestSafe(r, n)
<1> USE DEF RequestSafe, Quiet, Shape
<1>1. ~ q.output
  BY DEF OutputIsFinal, Settling, Attempting, ResultIsKept
<1>2. ~ q.charged
  BY DEF ChargeIsForAnswer, Attempting
<1>3. q.reply # "answer"
  BY DEF AnswerHasRow, Attempting
<1>4. ResultIsKept(r, n)
  BY DEF ResultIsKept, Attempting, Settling
<1>5. OutputIsFinal(n) /\ ChargeIsForAnswer(n)
  BY <1>1, <1>2 DEF OutputIsFinal, ChargeIsForAnswer
<1>6. AnswerHasRow(n)
  BY <1>3 DEF AnswerHasRow, Attempting
<1> QED BY <1>4, <1>5, <1>6

\* The end of a request.
LEMMA DoneFacts ==
    ASSUME NEW q, NEW reply, DOMAIN q = Fields
    PROVE  LET n == Done(q, reply)
           IN  /\ DOMAIN n = Fields /\ n.pc = "done" /\ n.reply = reply /\ n.tried = 0
               /\ ~ n.handled /\ ~ n.exhausted
               /\ n.stream = q.stream /\ n.output = q.output /\ n.charged = q.charged
               /\ n.row = q.row /\ n.cand = q.cand
BY DEF Done, Fields

LEMMA DoneStep ==
    ASSUME NEW r \in Requests, NEW q, NEW reply, RequestSafe(r, q),
           q.charged => q.row = "ok" /\ reply \in {"answer", "streamed"},
           reply = "answer" => q.row = "ok" /\ Paid(q)
    PROVE  RequestSafe(r, Done(q, reply))
<1> DEFINE n == Done(q, reply)
<1>1. /\ DOMAIN n = Fields /\ n.pc = "done" /\ n.reply = reply /\ n.tried = 0
      /\ ~ n.handled /\ ~ n.exhausted
      /\ n.stream = q.stream /\ n.output = q.output /\ n.charged = q.charged
      /\ n.row = q.row /\ n.cand = q.cand
  BY DoneFacts DEF RequestSafe, Shape
<1> HIDE DEF n
<1>2. Shape(n) /\ ResultIsKept(r, n)
  BY <1>1 DEF Shape, ResultIsKept, Attempting, Settling
<1>3. OutputIsFinal(n) /\ ChargeIsForAnswer(n) /\ AnswerHasRow(n)
  BY <1>1 DEF OutputIsFinal, ChargeIsForAnswer, AnswerHasRow, Paid
<1> QED BY <1>2, <1>3 DEF RequestSafe, n

-----------------------------------------------------------------------------
(* The steps, one request at a time. *)

\* What is known of a request by its stage.
LEMMA StageFacts ==
    ASSUME NEW r \in Requests, NEW q, RequestSafe(r, q)
    PROVE  /\ Shape(q)
           /\ q.pc \notin {"answer", "done"} => ~ q.charged
           /\ q.pc # "done" => q.reply # "answer"
           /\ q.pc \notin {"done", "outcome"} \cup Settling => ~ q.output
           /\ q.handled => q.last \in Outcomes[r] /\ q.last.stream = q.stream
                           /\ AttemptCompleted(q.last)
           /\ q.output /\ q.pc # "done" => q.handled /\ q.last.wrote
           /\ q.pc \in Settling => q.handled
           /\ q.pc \in Attempting \cup {"begin", "failed"} => ~ q.handled
           /\ q.pc = "outcome" /\ q.handled => ~ q.exhausted
           /\ q.pc \in Attempting => ~ q.exhausted
BY DEF RequestSafe, ResultIsKept, OutputIsFinal, ChargeIsForAnswer, AnswerHasRow, Settling,
       Attempting

\* The first call of an attempt asks for the alternate endpoint.
LEMMA FallbackStep ==
    ASSUME NEW r \in Requests, NEW q, RequestSafe(r, q), q.pc = "attempt",
           NEW o, NeedsFallback(o), ~ o.stream => ~ o.wrote
    PROVE  RequestSafe(r, [Sent(q, o) EXCEPT !.pc = "fallback"])
<1> DEFINE n == [Sent(q, o) EXCEPT !.pc = "fallback"]
<1>1. Shape(q) /\ ~ q.handled /\ ~ q.exhausted
  BY StageFacts DEF Attempting
<1>2. ~ o.wrote
  BY DEF NeedsFallback, StreamHandled
<1>3. /\ DOMAIN n = Fields /\ n.tried = q.tried + 1 /\ n.pc = "fallback"
      /\ n.stream = q.stream /\ n.reply = q.reply /\ n.charged = q.charged
      /\ n.handled = q.handled /\ n.exhausted = q.exhausted
  BY <1>1 DEF Shape, Sent, Fields
<1>4. n.output => q.output
  BY <1>1, <1>2 DEF Shape, Sent, Fields
<1> HIDE DEF n
<1>5. Shape(n) /\ Quiet(q, n) /\ ~ n.handled /\ ~ n.exhausted
  BY <1>1, <1>3, <1>4 DEF Shape, Quiet
<1>6. RequestSafe(r, n)
  BY <1>3, <1>5, QuietStep DEF Attempting
<1> QED BY <1>6 DEF n

\* A call has its result: the attempt is over, or a further one is made.
LEMMA SettleStep ==
    ASSUME NEW r \in Requests, NEW q, RequestSafe(r, q), q.pc \in {"attempt", "fallback"},
           NEW o \in Outcomes[r], o.stream = q.stream
    PROVE  RequestSafe(r, Judged(r, [Sent(q, o) EXCEPT !.last = o, !.lastKey = q.key], o))
<1> DEFINE m == [Sent(q, o) EXCEPT !.last = o, !.lastKey = q.key]
           n == Judged(r, m, o)
<1>1. Shape(q) /\ ~ q.handled /\ ~ q.exhausted /\ ~ q.output /\ ~ q.charged /\ q.reply # "answer"
  BY StageFacts DEF Attempting, Settling
<1>2. /\ DOMAIN m = Fields /\ m.tried = q.tried + 1 /\ m.last = o
      /\ m.stream = q.stream /\ m.reply = q.reply /\ m.charged = q.charged
      /\ m.handled = q.handled /\ m.exhausted = q.exhausted
  BY <1>1 DEF Shape, Sent, Fields
<1>3. m.output => o.wrote
  BY <1>1 DEF Shape, Sent, Fields
<1> HIDE DEF m
<1>4. CASE AttemptCompleted(o)
  <2>1. n = [m EXCEPT !.pc = "outcome", !.key = None, !.handled = TRUE]
    BY <1>4 DEF Judged
  <2>2. /\ DOMAIN n = Fields /\ n.tried = m.tried /\ n.last = o /\ n.pc = "outcome" /\ n.handled
        /\ n.stream = m.stream /\ n.reply = m.reply /\ n.charged = m.charged
        /\ n.exhausted = m.exhausted
    BY <2>1, <1>2 DEF Fields
  <2>3. n.output => m.output
    BY <2>1, <1>2 DEF Fields
  <2> HIDE DEF n
  <2>4. Shape(n) /\ ResultIsKept(r, n)
    BY <1>1, <1>2, <1>4, <2>2 DEF Shape, ResultIsKept, Attempting, Settling
  <2>5. OutputIsFinal(n) /\ ChargeIsForAnswer(n) /\ AnswerHasRow(n)
    BY <1>1, <1>2, <1>3, <2>2, <2>3 DEF OutputIsFinal, ChargeIsForAnswer, AnswerHasRow
  <2> QED BY <2>4, <2>5 DEF RequestSafe, n, m
<1>5. CASE ~ AttemptCompleted(o)
  <2>1. \/ n = [m EXCEPT !.pc = "dead", !.key = None, !.gap = None]
        \/ n = [m EXCEPT !.pc = "attempt", !.url = @ + 1]
        \/ n = [m EXCEPT !.pc = "acquire", !.key = None, !.excluded = @ \cup {m.key}]
    BY <1>5 DEF Judged
  <2>2. /\ DOMAIN n = Fields /\ n.tried = m.tried /\ n.pc \in Attempting
        /\ n.stream = m.stream /\ n.reply = m.reply /\ n.charged = m.charged
        /\ n.handled = m.handled /\ n.exhausted = m.exhausted
    <3> HIDE DEF n
    <3>1. CASE n = [m EXCEPT !.pc = "dead", !.key = None, !.gap = None]
      BY <3>1, <1>2 DEF Fields, Attempting
    <3>2. CASE n = [m EXCEPT !.pc = "attempt", !.url = @ + 1]
      BY <3>2, <1>2 DEF Fields, Attempting
    <3>3. CASE n = [m EXCEPT !.pc = "acquire", !.key = None, !.excluded = @ \cup {m.key}]
      BY <3>3, <1>2 DEF Fields, Attempting
    <3> QED BY <2>1, <3>1, <3>2, <3>3
  <2>3. n.output => m.output
    <3> HIDE DEF n
    <3> QED BY <2>1, <1>2 DEF Fields
  <2>4. ~ o.wrote
    BY <1>5 DEF AttemptCompleted
  <2> HIDE DEF n
  <2>5. Shape(n) /\ Quiet(q, n) /\ ~ n.handled /\ ~ n.exhausted
    BY <1>1, <1>2, <1>3, <2>2, <2>3, <2>4 DEF Shape, Quiet
  <2>6. RequestSafe(r, n)
    BY <2>2, <2>5, QuietStep DEF Attempting
  <2> QED BY <2>6 DEF n, m
<1> QED BY <1>4, <1>5

\* A candidate that brought nothing: the next one, the second pass, or the end.
LEMMA FailoverStep ==
    ASSUME NEW r \in Requests, RequestSafe(r, req[r]), req[r].pc = "outcome", ~ req[r].handled,
           NEW counted, NEW value
    PROVE  /\ RequestSafe(r, NextCandidate(r, counted))
           /\ RequestSafe(r, [NextCandidate(r, counted) EXCEPT !.counted = value])
<1> DEFINE q == req[r]
           m == NextCandidate(r, counted)
           n == [m EXCEPT !.counted = value]
<1>1. Shape(q)
  BY StageFacts
<1>2. \/ m = [q EXCEPT !.pc = "enter", !.cand = @ + 1]
      \/ m = [q EXCEPT !.pc = "enter", !.cand = 1, !.pass = 1]
      \/ m = [q EXCEPT !.pc = "failed"]
  BY DEF NextCandidate
<1> HIDE DEF m
<1>3. /\ DOMAIN m = Fields /\ m.tried = q.tried /\ m.pc \in {"enter", "failed"}
      /\ m.stream = q.stream /\ m.reply = q.reply /\ m.charged = q.charged
      /\ m.handled = q.handled /\ m.output = q.output
  <2>1. CASE m = [q EXCEPT !.pc = "enter", !.cand = @ + 1]
    BY <1>1, <2>1 DEF Shape, Fields
  <2>2. CASE m = [q EXCEPT !.pc = "enter", !.cand = 1, !.pass = 1]
    BY <1>1, <2>2 DEF Shape, Fields
  <2>3. CASE m = [q EXCEPT !.pc = "failed"]
    BY <1>1, <2>3 DEF Shape, Fields
  <2> QED BY <1>2, <2>1, <2>2, <2>3
<1>4. /\ DOMAIN n = Fields /\ n.tried = m.tried /\ n.pc = m.pc
      /\ n.stream = m.stream /\ n.reply = m.reply /\ n.charged = m.charged
      /\ n.handled = m.handled /\ n.output = m.output
  BY <1>3 DEF Fields
<1> HIDE DEF n
<1>5. Shape(m) /\ Quiet(q, m) /\ ~ m.handled
  BY <1>1, <1>3 DEF Shape, Quiet
<1>6. Shape(n) /\ Quiet(q, n) /\ ~ n.handled
  BY <1>1, <1>3, <1>4 DEF Shape, Quiet
<1>7. RequestSafe(r, m)
  BY <1>3, <1>5, QuietStep DEF Attempting
<1>8. RequestSafe(r, n)
  BY <1>3, <1>4, <1>6, QuietStep DEF Attempting
<1> QED BY <1>7, <1>8 DEF n, m

\* An answer nobody can be billed for is dropped before anything was written.
LEMMA DropStep ==
    ASSUME NEW r \in Requests, NEW q, RequestSafe(r, q),
           q.pc \in {"outcome", "unbillable"}, q.handled, ~ q.last.wrote
    PROVE  RequestSafe(r, [q EXCEPT !.pc = "enter", !.counted = TRUE,
                                    !.excluded = @ \cup {q.lastKey}])
<1> DEFINE n == [q EXCEPT !.pc = "enter", !.counted = TRUE, !.excluded = @ \cup {q.lastKey}]
<1>1. /\ Shape(q) /\ ~ q.output /\ ~ q.charged /\ q.reply # "answer"
      /\ q.last \in Outcomes[r] /\ q.last.stream = q.stream /\ AttemptCompleted(q.last)
  BY StageFacts
<1>2. /\ DOMAIN n = Fields /\ n.tried = q.tried /\ n.pc = "enter" /\ n.last = q.last
      /\ n.stream = q.stream /\ n.reply = q.reply /\ n.charged = q.charged
      /\ n.output = q.output
  BY <1>1 DEF Shape, Fields
<1> HIDE DEF n
<1>3. Shape(n) /\ ResultIsKept(r, n)
  BY <1>1, <1>2 DEF Shape, ResultIsKept, Attempting, Settling
<1>4. OutputIsFinal(n) /\ ChargeIsForAnswer(n) /\ AnswerHasRow(n)
  BY <1>1, <1>2 DEF OutputIsFinal, ChargeIsForAnswer, AnswerHasRow
<1>5. RequestSafe(r, n)
  BY <1>3, <1>4 DEF RequestSafe
<1> QED BY <1>5 DEF n

\* The charge and the row of a result, or neither.
LEMMA RecordStep ==
    ASSUME NEW r \in Requests, RequestSafe(r, req[r]), Handled(r), NEW funds,
           Recorded(r, req[r].last, funds)
    PROVE  \E n : RequestSafe(r, n) /\ Set(r, n) /\ n.tried = req[r].tried
<1> DEFINE q == req[r]
           o == q.last
           unbillable == Billable(o) /\ Priced /\ o.usage # "yes"
           charge == Billable(o) /\ Priced /\ o.usage = "yes" /\ Channel(r) \notin Owned
           refused == [q EXCEPT !.pc = IF unbillable THEN "unbillable" ELSE "unpaid", !.row = "402"]
           written == [q EXCEPT !.pc = "answer", !.charged = charge,
                                !.row = IF Billable(o) THEN "ok" ELSE "error"]
<1>1. /\ Shape(q) /\ ~ q.charged /\ q.reply # "answer" /\ q.handled /\ ~ q.exhausted
      /\ o \in Outcomes[r] /\ o.stream = q.stream /\ AttemptCompleted(o)
      /\ q.output => o.wrote
  BY StageFacts DEF Handled
<1>2. CASE unbillable \/ (charge /\ ~ funds)
  <2>1. Set(r, refused)
    BY <1>2 DEF Recorded
  <2>2. /\ DOMAIN refused = Fields /\ refused.tried = q.tried
        /\ refused.pc \in {"unbillable", "unpaid"} /\ refused.last = q.last
        /\ refused.stream = q.stream /\ refused.reply = q.reply /\ refused.charged = q.charged
        /\ refused.handled = q.handled /\ refused.output = q.output
    <3> HIDE DEF unbillable
    <3> QED BY <1>1 DEF Shape, Fields
  <2> HIDE DEF refused
  <2>3. Shape(refused) /\ ResultIsKept(r, refused)
    BY <1>1, <2>2 DEF Shape, ResultIsKept, Attempting, Settling
  <2>4. OutputIsFinal(refused) /\ ChargeIsForAnswer(refused) /\ AnswerHasRow(refused)
    BY <1>1, <2>2 DEF OutputIsFinal, ChargeIsForAnswer, AnswerHasRow, Settling
  <2>5. RequestSafe(r, refused)
    BY <2>3, <2>4 DEF RequestSafe
  <2> QED BY <2>1, <2>2, <2>5
<1>3. CASE ~ (unbillable \/ (charge /\ ~ funds))
  <2>1. Set(r, written)
    BY <1>3 DEF Recorded
  <2>2. /\ DOMAIN written = Fields /\ written.tried = q.tried
        /\ written.pc = "answer" /\ written.last = q.last
        /\ written.stream = q.stream /\ written.reply = q.reply /\ written.cand = q.cand
        /\ written.handled = q.handled /\ written.output = q.output
        /\ written.row = IF Billable(o) THEN "ok" ELSE "error"
    <3> HIDE DEF charge
    <3> QED BY <1>1 DEF Shape, Fields
  <2>3. written.charged <=> charge
    <3> HIDE DEF charge
    <3> QED BY <1>1 DEF Shape, Fields
  <2> HIDE DEF written
  <2>4. Shape(written) /\ ResultIsKept(r, written) /\ OutputIsFinal(written)
    BY <1>1, <2>2 DEF Shape, ResultIsKept, OutputIsFinal, Attempting, Settling
  <2>5. ChargeIsForAnswer(written)
    BY <2>2, <2>3 DEF ChargeIsForAnswer
  <2>6. Billable(o) => Paid(written)
    BY <1>3, <2>2, <2>3 DEF Paid, Channel
  <2>7. AnswerHasRow(written)
    BY <1>1, <2>2, <2>6 DEF AnswerHasRow
  <2>8. RequestSafe(r, written)
    BY <2>4, <2>5, <2>7 DEF RequestSafe
  <2> QED BY <2>1, <2>2, <2>8
<1> QED BY <1>2, <1>3

\* The transaction fails, or its refusal stands.
LEMMA UnpaidStep ==
    ASSUME NEW r \in Requests, NEW q, RequestSafe(r, q),
           q.pc \in {"outcome", "unbillable"}, q.handled
    PROVE  RequestSafe(r, [q EXCEPT !.pc = "unpaid"])
<1> DEFINE n == [q EXCEPT !.pc = "unpaid"]
<1>1. /\ Shape(q) /\ ~ q.charged /\ q.reply # "answer"
      /\ q.last \in Outcomes[r] /\ q.last.stream = q.stream /\ AttemptCompleted(q.last)
      /\ q.output => q.last.wrote
  BY StageFacts
<1>2. /\ DOMAIN n = Fields /\ n.tried = q.tried /\ n.pc = "unpaid" /\ n.last = q.last
      /\ n.stream = q.stream /\ n.reply = q.reply /\ n.charged = q.charged
      /\ n.output = q.output /\ n.handled = q.handled
  BY <1>1 DEF Shape, Fields
<1> HIDE DEF n
<1>3. Shape(n) /\ ResultIsKept(r, n)
  BY <1>1, <1>2 DEF Shape, ResultIsKept, Attempting, Settling
<1>4. OutputIsFinal(n) /\ ChargeIsForAnswer(n) /\ AnswerHasRow(n)
  BY <1>1, <1>2 DEF OutputIsFinal, ChargeIsForAnswer, AnswerHasRow, Settling
<1>5. RequestSafe(r, n)
  BY <1>3, <1>4 DEF RequestSafe
<1> QED BY <1>5 DEF n

\* What an answer tells the client is true of its row and its charge.
LEMMA AnswerStep ==
    ASSUME NEW r \in Requests, NEW q, RequestSafe(r, q), q.pc = "answer", RelayConstants
    PROVE  RequestSafe(r, Done(q, IF StreamTruncated(q.last) THEN "truncated"
                                  ELSE IF q.stream THEN "streamed" ELSE "answer"))
<1> DEFINE o == q.last
           reply == IF StreamTruncated(o) THEN "truncated"
                    ELSE IF q.stream THEN "streamed" ELSE "answer"
<1>1. o \in Outcomes[r] /\ o.stream = q.stream /\ AttemptCompleted(o)
  BY StageFacts DEF Settling
<1>2. q.charged => q.row = "ok" /\ Billable(o)
  BY DEF RequestSafe, ChargeIsForAnswer
<1>3. q.charged => q.row = "ok" /\ reply \in {"answer", "streamed"}
  BY <1>2 DEF Billable
<1>4. reply = "answer" => Billable(o)
  BY <1>1 DEF Billable, AttemptCompleted, RelayConstants
<1>5. reply = "answer" => q.row = "ok" /\ Paid(q)
  BY <1>4 DEF RequestSafe, AnswerHasRow
<1> HIDE DEF reply
<1>6. RequestSafe(r, Done(q, reply))
  BY <1>3, <1>5, DoneStep
<1> QED BY <1>6 DEF reply

\* The last error of a request without a result is passed through.
LEMMA FailedStep ==
    ASSUME NEW r \in Requests, NEW q, RequestSafe(r, q), q.pc = "failed",
           NEW status \in {"error", "503"}, NEW row
    PROVE  RequestSafe(r, [Done(q, status) EXCEPT !.row = row])
<1> DEFINE m == Done(q, status)
           n == [m EXCEPT !.row = row]
<1>1. Shape(q) /\ ~ q.charged
  BY StageFacts
<1>2. /\ DOMAIN m = Fields /\ m.pc = "done" /\ m.reply = status /\ m.tried = 0
      /\ ~ m.handled /\ ~ m.exhausted /\ m.charged = q.charged
  BY <1>1, DoneFacts DEF Shape
<1> HIDE DEF m
<1>3. /\ DOMAIN n = Fields /\ n.pc = "done" /\ n.reply = status /\ n.tried = 0
      /\ ~ n.handled /\ n.charged = m.charged
  BY <1>2 DEF Fields
<1> HIDE DEF n
<1>4. Shape(n) /\ ResultIsKept(r, n)
  BY <1>3 DEF Shape, ResultIsKept, Attempting, Settling
<1>5. OutputIsFinal(n) /\ ChargeIsForAnswer(n) /\ AnswerHasRow(n)
  BY <1>1, <1>2, <1>3 DEF OutputIsFinal, ChargeIsForAnswer, AnswerHasRow
<1>6. RequestSafe(r, n)
  BY <1>4, <1>5 DEF RequestSafe
<1> QED BY <1>6 DEF n, m

\* The client goes away at any stage.
LEMMA CancelStep ==
    ASSUME NEW r \in Requests, NEW q, RequestSafe(r, q)
    PROVE  RequestSafe(r, [q EXCEPT !.cancelled = TRUE])
<1> DEFINE n == [q EXCEPT !.cancelled = TRUE]
<1>1. /\ DOMAIN n = Fields /\ n.tried = q.tried /\ n.pc = q.pc /\ n.last = q.last
      /\ n.stream = q.stream /\ n.reply = q.reply /\ n.charged = q.charged
      /\ n.output = q.output /\ n.handled = q.handled /\ n.exhausted = q.exhausted
      /\ n.row = q.row /\ n.cand = q.cand
  BY DEF RequestSafe, Shape, Fields
<1> HIDE DEF n
<1>2. Shape(n) /\ ResultIsKept(r, n)
  BY <1>1 DEF RequestSafe, Shape, ResultIsKept
<1>3. OutputIsFinal(n) /\ ChargeIsForAnswer(n)
  BY <1>1 DEF RequestSafe, OutputIsFinal, ChargeIsForAnswer
<1>4. AnswerHasRow(n)
  BY <1>1 DEF RequestSafe, AnswerHasRow, Paid
<1>5. RequestSafe(r, n)
  BY <1>2, <1>3, <1>4 DEF RequestSafe
<1> QED BY <1>5 DEF n

-----------------------------------------------------------------------------
(* The invariant. *)

\* What every step makes of its request: safe, and not sent again after output.
Advances(r) ==
    \E n : Set(r, n) /\ RequestSafe(r, n) /\ (req[r].output => n.tried <= req[r].tried)

LEMMA ChannelSteps ==
    ASSUME RequestInv, NEW r \in Requests,
           \/ Begin(r) \/ EnterChannel(r)
           \/ \E k \in AllKeys : AcquireKeySlot(r, k)
           \/ ConcurrencyExhausted(r) \/ CredentialUnavailable(r) \/ RetrySameCandidate(r)
           \/ LeaveChannel(r) \/ WaitForRetry(r) \/ ChannelDead(r)
    PROVE  Advances(r)
<1> DEFINE q == req[r]
<1>1. RequestSafe(r, q)
  BY DEF RequestInv
<1>2. q.pc \in {"begin", "enter"} \cup Attempting
  BY DEF Begin, EnterChannel, AcquireKeySlot, ConcurrencyExhausted, CredentialUnavailable,
         RetrySameCandidate, LeaveChannel, WaitForRetry, ChannelDead, Attempting
<1>3. ~ q.output
  BY <1>1, <1>2, StageFacts DEF Attempting, Settling
<1> SUFFICES \E n : Set(r, n) /\ RequestSafe(r, n)
  BY <1>3 DEF Advances
<1>4. CASE Begin(r)
  <2> DEFINE n == [q EXCEPT !.pc = "enter"]
  <2>1. Set(r, n) /\ q.pc \in {"begin", "enter"} \cup Attempting
    BY <1>4, <1>2 DEF Begin
  <2>2. Shape(n) /\ Quiet(q, n) /\ ~ n.handled
    BY <1>1, <1>4, StageFacts DEF Begin, Shape, Quiet, Fields, Attempting
  <2>3. n.pc = "enter"
    BY <1>1, <1>4, StageFacts DEF Begin, Shape, Fields, Attempting
  <2> HIDE DEF n
  <2> QED BY <1>1, <2>1, <2>2, <2>3, QuietStep DEF Attempting
<1>5. CASE EnterChannel(r)
  <2> DEFINE n == [q EXCEPT !.pc = "acquire", !.retries = 0, !.bypass = q.pass > 0,
                            !.tried = 0, !.last = None, !.lastKey = None, !.handled = FALSE,
                            !.exhausted = FALSE, !.gap = None]
  <2>1. Set(r, n) /\ q.pc \in {"begin", "enter"} \cup Attempting
    BY <1>5, <1>2 DEF EnterChannel
  <2>2. DOMAIN q = Fields
    BY <1>1, StageFacts DEF Shape
  <2>3. DOMAIN n = Fields /\ n.tried = 0
    BY <2>2 DEF Fields
  <2>4. n.stream = q.stream /\ n.reply = q.reply
    BY <2>2 DEF Fields
  <2>5. (n.output => q.output) /\ (n.charged => q.charged)
    BY <2>2 DEF Fields
  <2>6. Shape(n) /\ Quiet(q, n)
    <3> HIDE DEF n
    <3> QED BY <2>3, <2>4, <2>5 DEF Shape, Quiet
  <2>7. n.pc = "acquire" /\ ~ n.exhausted /\ ~ n.handled
    BY <2>2 DEF Fields
  <2> HIDE DEF n
  <2> QED BY <1>1, <2>1, <2>6, <2>7, QuietStep DEF Attempting
<1>6. CASE \E k \in AllKeys : AcquireKeySlot(r, k)
  <2>0. PICK k \in AllKeys : AcquireKeySlot(r, k)
    BY <1>6
  <2> DEFINE n == [q EXCEPT !.pc = "attempt", !.key = k, !.url = 1]
  <2>1. Set(r, n) /\ q.pc \in {"begin", "enter"} \cup Attempting
    BY <2>0, <1>2 DEF AcquireKeySlot
  <2>2. Shape(n) /\ Quiet(q, n) /\ ~ n.handled
    BY <1>1, <2>0, StageFacts DEF AcquireKeySlot, Shape, Quiet, Fields, Attempting
  <2>3. n.pc = "attempt" /\ ~ n.exhausted
    BY <1>1, <2>0, StageFacts DEF AcquireKeySlot, Shape, Fields, Attempting
  <2> HIDE DEF n
  <2> QED BY <1>1, <2>1, <2>2, <2>3, QuietStep DEF Attempting
<1>7. CASE ConcurrencyExhausted(r)
  <2> DEFINE n == [q EXCEPT !.pc = "unkeyed", !.gap = "full"]
  <2>1. Set(r, n) /\ q.pc \in {"begin", "enter"} \cup Attempting
    BY <1>7, <1>2 DEF ConcurrencyExhausted
  <2>2. Shape(n) /\ Quiet(q, n) /\ ~ n.handled
    BY <1>1, <1>7, StageFacts DEF ConcurrencyExhausted, Shape, Quiet, Fields, Attempting
  <2>3. n.pc = "unkeyed" /\ ~ n.exhausted
    BY <1>1, <1>7, StageFacts DEF ConcurrencyExhausted, Shape, Fields, Attempting
  <2> HIDE DEF n
  <2> QED BY <1>1, <2>1, <2>2, <2>3, QuietStep DEF Attempting
<1>8. CASE CredentialUnavailable(r)
  <2> DEFINE n == [q EXCEPT !.pc = "unkeyed", !.gap = "unavailable"]
  <2>1. Set(r, n) /\ q.pc \in {"begin", "enter"} \cup Attempting
    BY <1>8, <1>2 DEF CredentialUnavailable
  <2>2. Shape(n) /\ Quiet(q, n) /\ ~ n.handled
    BY <1>1, <1>8, StageFacts DEF CredentialUnavailable, Shape, Quiet, Fields, Attempting
  <2>3. n.pc = "unkeyed" /\ ~ n.exhausted
    BY <1>1, <1>8, StageFacts DEF CredentialUnavailable, Shape, Fields, Attempting
  <2> HIDE DEF n
  <2> QED BY <1>1, <2>1, <2>2, <2>3, QuietStep DEF Attempting
<1>9. CASE RetrySameCandidate(r)
  <2> DEFINE n == [q EXCEPT !.pc = "backoff", !.retries = @ + 1, !.bypass = TRUE,
                            !.excluded = @ \ {q.lastKey}]
  <2>1. Set(r, n) /\ q.pc \in {"begin", "enter"} \cup Attempting
    BY <1>9, <1>2 DEF RetrySameCandidate
  <2>2. Shape(n) /\ Quiet(q, n) /\ ~ n.handled
    BY <1>1, <1>9, StageFacts DEF RetrySameCandidate, Shape, Quiet, Fields, Attempting
  <2>3. n.pc = "backoff" /\ ~ n.exhausted
    BY <1>1, <1>9, StageFacts DEF RetrySameCandidate, Shape, Fields, Attempting
  <2> HIDE DEF n
  <2> QED BY <1>1, <2>1, <2>2, <2>3, QuietStep DEF Attempting
<1>10. CASE LeaveChannel(r)
  <2> DEFINE n == [q EXCEPT !.pc = "outcome", !.exhausted = q.gap = "full"]
  <2>1. Set(r, n) /\ q.pc \in {"begin", "enter"} \cup Attempting
    BY <1>10, <1>2 DEF LeaveChannel
  <2>2. Shape(n) /\ Quiet(q, n) /\ ~ n.handled
    BY <1>1, <1>10, StageFacts DEF LeaveChannel, Shape, Quiet, Fields, Attempting
  <2>3. n.pc = "outcome"
    BY <1>1, <1>10, StageFacts DEF LeaveChannel, Shape, Fields, Attempting
  <2> HIDE DEF n
  <2> QED BY <1>1, <2>1, <2>2, <2>3, QuietStep DEF Attempting
<1>11. CASE WaitForRetry(r)
  <2> DEFINE n == [q EXCEPT !.pc = "acquire", !.gap = None]
  <2>1. Set(r, n) /\ q.pc \in {"begin", "enter"} \cup Attempting
    BY <1>11, <1>2 DEF WaitForRetry
  <2>2. Shape(n) /\ Quiet(q, n) /\ ~ n.handled
    BY <1>1, <1>11, StageFacts DEF WaitForRetry, Shape, Quiet, Fields, Attempting
  <2>3. n.pc = "acquire" /\ ~ n.exhausted
    BY <1>1, <1>11, StageFacts DEF WaitForRetry, Shape, Fields, Attempting
  <2> HIDE DEF n
  <2> QED BY <1>1, <2>1, <2>2, <2>3, QuietStep DEF Attempting
<1>12. CASE ChannelDead(r)
  <2> DEFINE again == [q EXCEPT !.pc = "backoff", !.retries = @ + 1, !.bypass = TRUE]
             over == [q EXCEPT !.pc = "outcome"]
  <2>1. (Set(r, again) \/ Set(r, over)) /\ q.pc = "dead"
    BY <1>12 DEF ChannelDead
  <2>2. /\ Shape(again) /\ Quiet(q, again) /\ ~ again.handled /\ ~ again.exhausted
        /\ again.pc = "backoff"
    BY <1>1, <2>1, StageFacts DEF Shape, Quiet, Fields, Attempting
  <2>3. Shape(over) /\ Quiet(q, over) /\ ~ over.handled /\ over.pc = "outcome"
    BY <1>1, <2>1, StageFacts DEF Shape, Quiet, Fields, Attempting
  <2> HIDE DEF again, over
  <2>4. RequestSafe(r, again) /\ RequestSafe(r, over)
    BY <1>1, <2>1, <2>2, <2>3, QuietStep DEF Attempting
  <2> QED BY <2>1, <2>4
<1> QED BY <1>4, <1>5, <1>6, <1>7, <1>8, <1>9, <1>10, <1>11, <1>12

LEMMA CallSteps ==
    ASSUME RequestInv, RelayConstants, NEW r \in Requests, NEW o \in Outcomes[r],
           Attempt(r, o) \/ Fallback(r, o)
    PROVE  Advances(r)
<1> DEFINE q == req[r]
           settled == Judged(r, [Sent(q, o) EXCEPT !.last = o, !.lastKey = q.key], o)
           second == [Sent(q, o) EXCEPT !.pc = "fallback"]
<1>1. RequestSafe(r, q) /\ q.pc \in {"attempt", "fallback"} /\ o.stream = q.stream
  BY DEF RequestInv, Attempt, Fallback, Possible
<1>2. ~ q.output
  BY <1>1, StageFacts DEF Settling
<1>3. RequestSafe(r, settled)
  BY <1>1, SettleStep
<1>4. NeedsFallback(o) /\ q.pc = "attempt" => RequestSafe(r, second)
  BY <1>1, FallbackStep DEF RelayConstants
<1>5. Set(r, settled) \/ (Set(r, second) /\ NeedsFallback(o) /\ q.pc = "attempt")
  BY DEF Attempt, Fallback, Settle
<1> HIDE DEF settled, second
<1> QED BY <1>2, <1>3, <1>4, <1>5 DEF Advances

LEMMA OutcomeSteps ==
    ASSUME RequestInv, NEW r \in Requests,
           \/ Exhausted(r) \/ Failover(r) \/ DropUnbillable(r)
           \/ \E funds \in BOOLEAN : Record(r, funds)
           \/ RecordFails(r) \/ Unbillable(r)
    PROVE  Advances(r)
<1> DEFINE q == req[r]
<1>1. RequestSafe(r, q) /\ Shape(q)
  BY StageFacts DEF RequestInv
<1>2. CASE Exhausted(r)
  <2>1. q.pc = "outcome" /\ ~ q.handled /\ ~ q.output /\ ~ q.charged
    BY <1>1, <1>2, StageFacts DEF Exhausted
  <2>2. RequestSafe(r, Done(q, "429"))
    BY <1>1, <2>1, DoneStep
  <2>3. RequestSafe(r, NextCandidate(r, q.counted))
    BY <1>1, <2>1, FailoverStep
  <2>4. Set(r, Done(q, "429")) \/ Set(r, NextCandidate(r, q.counted))
    BY <1>2 DEF Exhausted
  <2> QED BY <2>1, <2>2, <2>3, <2>4 DEF Advances
<1>3. CASE Failover(r)
  <2>1. q.pc = "outcome" /\ ~ q.handled /\ ~ q.output
    BY <1>1, <1>3, StageFacts DEF Failover
  <2>2. RequestSafe(r, [NextCandidate(r, Counted(r)) EXCEPT !.counted = Counted(r)])
    BY <1>1, <2>1, FailoverStep
  <2> QED BY <1>3, <2>1, <2>2 DEF Advances, Failover
<1>4. CASE RetryUnbillable(r) /\ q.pc \in {"outcome", "unbillable"} /\ q.handled /\ ~ q.last.wrote
  <2> DEFINE n == [q EXCEPT !.pc = "enter", !.counted = TRUE,
                            !.excluded = @ \cup {q.lastKey}]
  <2>1. ~ q.output
    BY <1>1, <1>4, StageFacts
  <2>2. RequestSafe(r, n)
    BY <1>1, <1>4, DropStep
  <2>3. Set(r, n)
    BY <1>4 DEF RetryUnbillable
  <2> QED BY <2>1, <2>2, <2>3 DEF Advances
<1>5. CASE DropUnbillable(r)
  BY <1>4, <1>5 DEF DropUnbillable, Handled
<1>6. CASE \E funds \in BOOLEAN : Record(r, funds)
  <2>1. PICK funds \in BOOLEAN : Record(r, funds)
    BY <1>6
  <2>2. \E n : RequestSafe(r, n) /\ Set(r, n) /\ n.tried = q.tried
    BY <1>1, <2>1, RecordStep DEF Record
  <2> QED BY <1>1, <2>2 DEF Advances, Shape
<1>7. CASE /\ Set(r, [q EXCEPT !.pc = "unpaid"])
           /\ q.pc \in {"outcome", "unbillable"} /\ q.handled
  <2> DEFINE n == [q EXCEPT !.pc = "unpaid"]
  <2>1. RequestSafe(r, n)
    BY <1>1, <1>7, UnpaidStep
  <2>2. n.tried = q.tried
    BY <1>1 DEF Shape, Fields
  <2>3. Set(r, n)
    BY <1>7
  <2> HIDE DEF n
  <2> QED BY <1>1, <2>1, <2>2, <2>3 DEF Advances, Shape
<1>8. CASE RecordFails(r)
  BY <1>7, <1>8 DEF RecordFails, Handled
<1>9. CASE Unbillable(r)
  <2>1. q.pc = "unbillable" /\ q.handled
    BY <1>1, <1>9, StageFacts DEF Unbillable, Settling
  <2> QED BY <1>4, <1>7, <1>9, <2>1 DEF Unbillable
<1> QED BY <1>2, <1>3, <1>5, <1>6, <1>8, <1>9

LEMMA FinalSteps ==
    ASSUME RequestInv, RelayConstants, NEW r \in Requests,
           \/ Refuse(r) \/ Unpaid(r) \/ Answer(r)
           \/ \E stored \in BOOLEAN : AllCandidatesFailed(r, stored)
    PROVE  Advances(r)
<1> DEFINE q == req[r]
<1>1. RequestSafe(r, q) /\ Shape(q)
  BY StageFacts DEF RequestInv
<1>2. \A reply : Done(q, reply).tried <= q.tried
  BY <1>1, DoneFacts DEF Shape
<1>3. CASE Refuse(r)
  <2>1. ~ q.charged
    BY <1>1, <1>3, StageFacts DEF Refuse
  <2>2. RequestSafe(r, Done(q, "refused"))
    BY <1>1, <2>1, DoneStep
  <2> QED BY <1>2, <1>3, <2>2 DEF Advances, Refuse
<1>4. CASE Unpaid(r)
  <2> DEFINE reply == IF q.stream THEN "streamed" ELSE "error"
  <2>1. ~ q.charged
    BY <1>1, <1>4, StageFacts DEF Unpaid
  <2>2. reply # "answer"
    OBVIOUS
  <2>3. Set(r, Done(q, reply))
    BY <1>4 DEF Unpaid
  <2> HIDE DEF reply
  <2>4. RequestSafe(r, Done(q, reply))
    BY <1>1, <2>1, <2>2, DoneStep
  <2> QED BY <1>2, <2>3, <2>4 DEF Advances
<1>5. CASE Answer(r)
  <2> DEFINE reply == IF StreamTruncated(q.last) THEN "truncated"
                      ELSE IF q.stream THEN "streamed" ELSE "answer"
  <2>1. RequestSafe(r, Done(q, reply))
    BY <1>1, <1>5, AnswerStep DEF Answer
  <2>2. Set(r, Done(q, reply))
    BY <1>5 DEF Answer
  <2> HIDE DEF reply
  <2> QED BY <1>2, <2>1, <2>2 DEF Advances
<1>6. CASE \E stored \in BOOLEAN : AllCandidatesFailed(r, stored)
  <2> DEFINE status == IF q.counted THEN "error" ELSE "503"
             n(stored) == [Done(q, status) EXCEPT !.row = IF @ = None /\ stored THEN status ELSE @]
  <2>1. PICK stored \in BOOLEAN : Set(r, n(stored)) /\ q.pc = "failed"
    BY <1>6 DEF AllCandidatesFailed
  <2>2. status \in {"error", "503"}
    OBVIOUS
  <2> HIDE DEF status
  <2>3. RequestSafe(r, n(stored))
    BY <1>1, <2>1, <2>2, FailedStep
  <2>4. ~ q.output
    BY <1>1, <2>1, StageFacts DEF Settling
  <2> HIDE DEF n
  <2> QED BY <2>1, <2>3, <2>4 DEF Advances
<1> QED BY <1>3, <1>4, <1>5, <1>6

LEMMA StepAdvances ==
    ASSUME RequestInv, RelayConstants, NEW r \in Requests, Step(r) \/ Cancel(r)
    PROVE  Advances(r)
<1>1. CASE Cancel(r)
  <2> DEFINE n == [req[r] EXCEPT !.cancelled = TRUE]
  <2>1. RequestSafe(r, n) /\ Shape(req[r])
    BY CancelStep, StageFacts DEF RequestInv
  <2>2. n.tried = req[r].tried
    BY <2>1 DEF Shape, Fields
  <2>3. Set(r, n)
    BY <1>1 DEF Cancel
  <2> HIDE DEF n
  <2> QED BY <2>1, <2>2, <2>3 DEF Advances, Shape
<1>2. CASE Step(r)
  <2>1. \/ Begin(r) \/ EnterChannel(r)
        \/ \E k \in AllKeys : AcquireKeySlot(r, k)
        \/ ConcurrencyExhausted(r) \/ CredentialUnavailable(r) \/ RetrySameCandidate(r)
        \/ LeaveChannel(r) \/ WaitForRetry(r) \/ ChannelDead(r)
        \/ \E o \in Outcomes[r] : Attempt(r, o) \/ Fallback(r, o)
        \/ Exhausted(r) \/ Failover(r) \/ DropUnbillable(r)
        \/ \E funds \in BOOLEAN : Record(r, funds)
        \/ RecordFails(r) \/ Unbillable(r)
        \/ Refuse(r) \/ Unpaid(r) \/ Answer(r)
        \/ \E stored \in BOOLEAN : AllCandidatesFailed(r, stored)
    BY <1>2 DEF Step
  <2> QED BY <2>1, ChannelSteps, CallSteps, OutcomeSteps, FinalSteps
<1> QED BY <1>1, <1>2

\* Steps of one request leave the others alone.
LEMMA NextKeepsRequests ==
    ASSUME RequestInv, RelayConstants, [Next]_vars
    PROVE  /\ RequestInv'
           /\ \A r \in Requests : req[r].output => req'[r].tried <= req[r].tried
<1>1. \A r \in Requests : RequestSafe(r, req[r]) /\ req[r].tried \in Nat
  BY DEF RequestInv, RequestSafe, Shape
<1>2. CASE UNCHANGED req
  BY <1>1, <1>2 DEF RequestInv
<1>3. CASE \E r \in Requests : Step(r) \/ Cancel(r)
  <2>1. PICK p \in Requests : Advances(p)
    BY <1>3, StepAdvances
  <2>2. PICK n : /\ req' = [req EXCEPT ![p] = n] /\ RequestSafe(p, n)
                 /\ req[p].output => n.tried <= req[p].tried
    BY <2>1 DEF Advances, Set
  <2>3. /\ DOMAIN req' = Requests /\ req'[p] = n
        /\ \A r \in Requests \ {p} : req'[r] = req[r]
    BY <2>2 DEF RequestInv
  <2>4. \A r \in Requests : RequestSafe(r, req'[r])
    BY <1>1, <2>2, <2>3
  <2>5. \A r \in Requests : req[r].output => req'[r].tried <= req[r].tried
    BY <1>1, <2>2, <2>3
  <2> QED BY <2>3, <2>4, <2>5 DEF RequestInv
<1>4. CASE \E k \in AllKeys : CooldownEnds(k)
  BY <1>2, <1>4 DEF CooldownEnds
<1> QED BY <1>2, <1>3, <1>4 DEF Next, vars

\* The inductive invariant holds in every reachable state.
THEOREM RequestsSafe == Spec => []RequestInv
<1>1. Init => RequestInv
  <2> SUFFICES ASSUME NEW S \in SUBSET Requests, req = [r \in Requests |-> Fresh(r \in S)],
                      NEW r \in Requests
               PROVE  RequestSafe(r, req[r])
    BY DEF Init, RequestInv
  <2> DEFINE n == Fresh(r \in S)
  <2>1. /\ DOMAIN n = Fields /\ n.pc = "begin" /\ n.tried = 0 /\ n.reply = None
        /\ ~ n.handled /\ ~ n.exhausted /\ ~ n.output /\ ~ n.charged
    BY DEF Fresh, Fields
  <2> HIDE DEF n
  <2>2. RequestSafe(r, n)
    BY <2>1 DEF RequestSafe, Shape, ResultIsKept, OutputIsFinal, ChargeIsForAnswer, AnswerHasRow,
                Attempting, Settling, None
  <2> QED BY <2>2 DEF n
<1>2. RequestInv /\ [Next]_vars => RequestInv'
  BY NextKeepsRequests, RelayConstants
<1> QED BY <1>1, <1>2, PTL DEF Spec

\* A charged request ends with its answer delivered and its row written
\* (ChargedIsDelivered), for every set of outcomes an upstream may bring.
THEOREM ChargesAreDelivered == Spec => []ChargedIsDelivered
<1>1. RequestInv => ChargedIsDelivered
  BY DEF RequestInv, RequestSafe, ChargeIsForAnswer, ChargedIsDelivered
<1> QED BY <1>1, RequestsSafe, PTL

\* A buffered answer is recorded, and paid for where it is due (AnswerIsRecorded).
THEOREM AnswersAreRecorded == Spec => []AnswerIsRecorded
<1>1. RequestInv => AnswerIsRecorded
  BY DEF RequestInv, RequestSafe, AnswerHasRow, Paid, Channel, AnswerIsRecorded
<1> QED BY <1>1, RequestsSafe, PTL

\* After output nothing is sent upstream again, on any channel, key, address or
\* protocol (NoReplayAfterOutput).
THEOREM OutputIsNeverReplayed == Spec => NoReplayAfterOutput
<1>1. RequestInv /\ [Next]_vars
        => [\A r \in Requests : req[r].output => req'[r].tried <= req[r].tried]_vars
  BY NextKeepsRequests, RelayConstants
<1> QED BY <1>1, RequestsSafe, PTL DEF Spec, NoReplayAfterOutput

-----------------------------------------------------------------------------
(* The pressure on an upstream: the calls one visit to a channel may cost. *)

\* Stages between two keys, during a key's calls, and after the visit.
Between == {"acquire", "unkeyed", "backoff"}
During  == {"attempt", "fallback"}
Over    == {"outcome", "answer", "unpaid", "unbillable", "failed"}

Own(q)  == Keys[Order[q.cand]]
Urls(q) == Addresses[Order[q.cand]]

\* What n keys cost at most: two calls per address.
Worth(q, n) == 2 * Urls(q) * n

\* The keys a visit is through with, and its repeats.
Spent(q) == Cardinality(q.excluded \cap Own(q)) + q.retries

\* Every key and three repeats.
Most(q) == Cardinality(Own(q)) + 3

\* The call of address q.url, and its fallback.
Calls(q) == 2 * (q.url - 1) + (IF q.pc = "fallback" THEN 1 ELSE 0)

\* Every key tried was excluded or is paid for by a repeat; the key in use is
\* neither, so that its calls fit under the bound too.
Pressed(q) ==
    /\ DOMAIN q = Fields
    /\ q.pc \in Between \cup During \cup Over \cup {"begin", "enter", "dead", "done"}
    /\ q.cand \in 1 .. Len(Order) /\ q.tried \in Nat /\ q.retries \in 0 .. 3
    /\ q.pc \in {"begin", "done"} => q.tried = 0
    /\ q.pc \in Between => q.tried <= Worth(q, Spent(q))
    /\ q.pc \in During => /\ q.key \in Own(q) \ q.excluded /\ q.url \in 1 .. Urls(q)
                          /\ q.tried <= Worth(q, Spent(q)) + Calls(q)
    /\ q.pc = "dead" => /\ q.lastKey \in Own(q) \ q.excluded
                        /\ q.tried <= Worth(q, Spent(q) + 1)
    /\ q.pc \in Over => q.tried <= Worth(q, Most(q))

PressureInv ==
    /\ DOMAIN req = Requests
    /\ \A r \in Requests : Pressed(req[r])

LEMMA WorthGrows ==
    ASSUME NEW q, Urls(q) \in Nat
    PROVE  /\ \A m, n \in Nat : m <= n => Worth(q, m) <= Worth(q, n)
           /\ \A n \in Nat : Worth(q, n) \in Nat /\ Worth(q, n + 1) = Worth(q, n) + 2 * Urls(q)
<1> DEFINE a == 2 * Urls(q)
<1>1. a \in Nat
  OBVIOUS
<1>2. \A n : Worth(q, n) = a * n
  BY DEF Worth
<1> HIDE DEF a
<1>3. \A n \in Nat : a * n \in Nat /\ a * (n + 1) = a * n + a
  BY <1>1
<1>4. \A m, n \in Nat : m <= n => a * m <= a * n
  BY <1>1
<1> QED BY <1>2, <1>3, <1>4 DEF a

\* The keys of a channel that are excluded, and one that is not.
LEMMA KeysCount ==
    ASSUME RelayConstants, NEW q, q.cand \in 1 .. Len(Order), q.retries \in 0 .. 3
    PROVE  /\ Urls(q) \in Nat \ {0} /\ Most(q) \in Nat
           /\ Cardinality(q.excluded \cap Own(q)) \in Nat
           /\ Spent(q) \in Nat /\ Spent(q) <= Most(q)
           /\ \A k \in Own(q) \ q.excluded :
                 /\ Spent(q) + 1 <= Most(q)
                 /\ Cardinality((q.excluded \cup {k}) \cap Own(q))
                       = Cardinality(q.excluded \cap Own(q)) + 1
           /\ \A k : /\ Cardinality((q.excluded \ {k}) \cap Own(q)) \in Nat
                     /\ Cardinality((q.excluded \ {k}) \cap Own(q)) + 1
                           >= Cardinality(q.excluded \cap Own(q))
<1> DEFINE own == Own(q)
           out == q.excluded \cap own
<1>1. Urls(q) \in Nat \ {0} /\ IsFiniteSet(own)
  BY DEF RelayConstants, Urls, Own
<1> HIDE DEF own
<1>2. IsFiniteSet(out) /\ Cardinality(out) \in Nat /\ Cardinality(out) <= Cardinality(own)
      /\ Cardinality(own) \in Nat
  BY <1>1, FS_Subset, FS_CardinalityType
<1>3. ASSUME NEW k \in own \ q.excluded
      PROVE  /\ Cardinality(out) + 1 <= Cardinality(own)
             /\ Cardinality((q.excluded \cup {k}) \cap own) = Cardinality(out) + 1
  <2>1. (q.excluded \cup {k}) \cap own = out \cup {k} /\ k \notin out
    OBVIOUS
  <2>2. Cardinality(out \cup {k}) = Cardinality(out) + 1
    BY <1>2, <2>1, FS_AddElement
  <2>3. Cardinality(out \cup {k}) <= Cardinality(own)
    BY <1>1, FS_Subset
  <2> QED BY <2>1, <2>2, <2>3
<1>4. ASSUME NEW k
      PROVE  /\ Cardinality((q.excluded \ {k}) \cap own) \in Nat
             /\ Cardinality((q.excluded \ {k}) \cap own) + 1 >= Cardinality(out)
  <2>1. (q.excluded \ {k}) \cap own = out \ {k}
    OBVIOUS
  <2>2. IsFiniteSet(out \ {k}) /\ Cardinality(out \ {k}) \in Nat
    BY <1>2, FS_RemoveElement, FS_CardinalityType
  <2>3. CASE k \in out
    <3>1. Cardinality(out \ {k}) = Cardinality(out) - 1
      BY <1>2, <2>3, FS_RemoveElement
    <3>2. Cardinality(out \ {k}) + 1 >= Cardinality(out)
      <4> HIDE DEF out
      <4> QED BY <1>2, <3>1
    <3> QED BY <2>1, <2>2, <3>2
  <2>4. CASE k \notin out
    <3>1. out \ {k} = out
      BY <2>4
    <3>2. Cardinality(out) + 1 >= Cardinality(out)
      <4> HIDE DEF out
      <4> QED BY <1>2
    <3> QED BY <1>2, <2>1, <3>1, <3>2
  <2> QED BY <2>3, <2>4
<1>5. Spent(q) = Cardinality(out) + q.retries /\ Most(q) = Cardinality(own) + 3
  BY DEF Spent, Most, own
<1>6. \A k \in own \ q.excluded : Cardinality(out) + 1 <= Cardinality(own)
  BY <1>3
<1> HIDE DEF out
<1>7. Spent(q) \in Nat /\ Most(q) \in Nat /\ Spent(q) <= Most(q)
  BY <1>2, <1>5
<1>8. \A k \in own \ q.excluded : Spent(q) + 1 <= Most(q)
  <2> SUFFICES ASSUME NEW k \in own \ q.excluded
               PROVE  Spent(q) + 1 <= Most(q)
    OBVIOUS
  <2>1. Cardinality(out) + 1 <= Cardinality(own)
    BY <1>6
  <2> QED BY <1>2, <1>5, <2>1
<1> QED BY <1>1, <1>2, <1>3, <1>4, <1>7, <1>8 DEF own, out

\* Steps that call nobody: within the visit, at its end, and to the next one.
LEMMA NoCallStep ==
    ASSUME RelayConstants, NEW q, Pressed(q), NEW n, DOMAIN n = Fields,
           n.tried = q.tried, n.retries = q.retries,
           \/ n.pc = "enter" /\ n.cand \in 1 .. Len(Order)
           \/ /\ n.cand = q.cand /\ n.excluded = q.excluded
              /\ \/ q.pc \in Between /\ n.pc \in Between
                 \/ q.pc \in Between \cup Over \cup {"dead"} /\ n.pc \in Over
    PROVE  Pressed(n)
<1> USE DEF Between, During, Over
<1>1. CASE n.pc = "enter" /\ n.cand \in 1 .. Len(Order)
  BY <1>1 DEF Pressed
<1>2. CASE /\ n.cand = q.cand /\ n.excluded = q.excluded
           /\ q.pc \in Between /\ n.pc \in Between
  <2>1. Spent(n) = Spent(q) /\ Worth(n, Spent(q)) = Worth(q, Spent(q))
    BY <1>2 DEF Spent, Own, Worth, Urls
  <2> QED BY <1>2, <2>1 DEF Pressed
<1>3. CASE /\ n.cand = q.cand /\ n.excluded = q.excluded
           /\ q.pc \in Between \cup Over \cup {"dead"} /\ n.pc \in Over
  <2>0. q.cand \in 1 .. Len(Order) /\ q.retries \in 0 .. 3 /\ q.tried \in Nat
    BY DEF Pressed
  <2>1. /\ Urls(q) \in Nat /\ Spent(q) \in Nat /\ Spent(q) <= Most(q) /\ Most(q) \in Nat
        /\ \A k \in Own(q) \ q.excluded : Spent(q) + 1 <= Most(q)
    BY <2>0, KeysCount
  <2>2. /\ \A k, m \in Nat : k <= m => Worth(q, k) <= Worth(q, m)
        /\ \A m \in Nat : Worth(q, m) \in Nat
    BY <2>1, WorthGrows
  <2>3. Worth(q, Most(q)) \in Nat /\ Worth(q, Spent(q)) \in Nat /\ Worth(q, Spent(q) + 1) \in Nat
    <3>1. Spent(q) + 1 \in Nat
      BY <2>1
    <3> QED BY <2>1, <2>2, <3>1
  <2>4. q.tried <= Worth(q, Most(q))
    <3>1. CASE q.pc \in Between
      <4>1. q.tried <= Worth(q, Spent(q))
        BY <3>1 DEF Pressed
      <4>2. Worth(q, Spent(q)) <= Worth(q, Most(q))
        BY <2>1, <2>2
      <4> QED BY <2>0, <2>3, <4>1, <4>2
    <3>2. CASE q.pc = "dead"
      <4>1. q.tried <= Worth(q, Spent(q) + 1) /\ q.lastKey \in Own(q) \ q.excluded
        BY <3>2 DEF Pressed
      <4>2. Spent(q) + 1 \in Nat /\ Spent(q) + 1 <= Most(q)
        BY <2>1, <4>1
      <4>3. Worth(q, Spent(q) + 1) <= Worth(q, Most(q))
        BY <2>1, <2>2, <4>2
      <4> QED BY <2>0, <2>3, <4>1, <4>3
    <3>3. CASE q.pc \in Over
      BY <3>3 DEF Pressed
    <3> QED BY <1>3, <3>1, <3>2, <3>3
  <2>5. Worth(n, Most(n)) = Worth(q, Most(q))
    BY <1>3 DEF Own, Worth, Urls, Most
  <2> QED BY <1>3, <2>4, <2>5 DEF Pressed
<1> QED BY <1>1, <1>2, <1>3

\* A repeat pays for the key it may try again.
LEMMA RepeatStep ==
    ASSUME RelayConstants, NEW q, Pressed(q), q.pc \in Between \cup {"dead"}, q.retries < 3,
           NEW n, DOMAIN n = Fields, n.pc = "backoff", n.cand = q.cand, n.tried = q.tried,
           n.retries = q.retries + 1,
           \/ n.excluded = q.excluded
           \/ q.pc \in Between /\ \E k : n.excluded = q.excluded \ {k}
    PROVE  Pressed(n)
<1> USE DEF Between, During, Over
<1> DEFINE out == Cardinality(q.excluded \cap Own(q))
<1>1. q.cand \in 1 .. Len(Order) /\ q.retries \in 0 .. 3 /\ q.tried \in Nat
  BY DEF Pressed
<1>2. /\ Urls(q) \in Nat /\ Spent(q) \in Nat /\ out \in Nat
      /\ \A k : /\ Cardinality((q.excluded \ {k}) \cap Own(q)) \in Nat
                /\ Cardinality((q.excluded \ {k}) \cap Own(q)) + 1 >= out
  BY <1>1, KeysCount
<1>3. Spent(q) = out + q.retries
  BY DEF Spent
<1>4. Own(n) = Own(q) /\ \A x : Worth(n, x) = Worth(q, x)
  BY DEF Own, Worth, Urls
<1>5. /\ \A k, m \in Nat : k <= m => Worth(q, k) <= Worth(q, m)
      /\ \A m \in Nat : Worth(q, m) \in Nat
  BY <1>2, WorthGrows
<1>6. /\ q.pc \in Between => q.tried <= Worth(q, Spent(q))
      /\ q.pc = "dead" => q.tried <= Worth(q, Spent(q) + 1)
  BY DEF Pressed
<1>7. Spent(n) \in Nat /\ q.tried <= Worth(q, Spent(n))
  <2>1. CASE n.excluded = q.excluded
    <3>1. Spent(n) = out + (q.retries + 1)
      BY <1>4, <2>1 DEF Spent
    <3> HIDE DEF out
    <3>2. Spent(n) = Spent(q) + 1 /\ Spent(n) \in Nat /\ Spent(q) <= Spent(n)
      BY <1>1, <1>2, <1>3, <3>1
    <3>3. Worth(q, Spent(q)) <= Worth(q, Spent(n))
      BY <1>2, <1>5, <3>2
    <3>4. Worth(q, Spent(q)) \in Nat /\ Worth(q, Spent(n)) \in Nat
      BY <1>2, <1>5, <3>2
    <3>5. CASE q.pc \in Between
      BY <1>1, <1>6, <3>2, <3>3, <3>4, <3>5
    <3>6. CASE q.pc = "dead"
      BY <1>6, <3>2, <3>6
    <3> QED BY <3>5, <3>6
  <2>2. CASE q.pc \in Between /\ \E k : n.excluded = q.excluded \ {k}
    <3> DEFINE left == Cardinality(n.excluded \cap Own(q))
    <3>1. PICK k : n.excluded = q.excluded \ {k}
      BY <2>2
    <3>2. left \in Nat /\ left + 1 >= out
      BY <1>2, <3>1
    <3>3. Spent(n) = left + (q.retries + 1)
      BY <1>4 DEF Spent
    <3> HIDE DEF left, out
    <3>4. Spent(n) \in Nat /\ Spent(q) <= Spent(n)
      <4>0. left \in Nat /\ out \in Nat /\ q.retries \in Nat
        BY <1>1, <1>2, <3>2
      <4>1. PICK l \in Nat, o \in Nat, t \in Nat : l = left /\ o = out /\ t = q.retries /\ l + 1 >= o
        <5>1. \E l \in Nat : l = left
          BY <4>0
        <5>2. \E o \in Nat : o = out
          BY <4>0
        <5>3. \E t \in Nat : t = q.retries
          BY <4>0
        <5> QED BY <3>2, <5>1, <5>2, <5>3
      <4>2. l + (t + 1) \in Nat /\ o + t <= l + (t + 1)
        BY <4>1
      <4>3. Spent(n) = l + (t + 1) /\ Spent(q) = o + t
        BY <1>3, <3>3, <4>1
      <4> QED BY <4>2, <4>3
    <3>5. Worth(q, Spent(q)) <= Worth(q, Spent(n))
      BY <1>2, <1>5, <3>4
    <3>6. Worth(q, Spent(q)) \in Nat /\ Worth(q, Spent(n)) \in Nat
      BY <1>2, <1>5, <3>4
    <3> QED BY <1>1, <1>6, <2>2, <3>4, <3>5, <3>6
  <2> QED BY <2>1, <2>2
<1> QED BY <1>1, <1>4, <1>7 DEF Pressed

\* A call of the key in use, and what comes after it.
LEMMA CallStep ==
    ASSUME RelayConstants, NEW r \in Requests, Pressed(req[r]), req[r].pc \in During,
           NEW o
    PROVE  /\ req[r].pc = "attempt" => Pressed([Sent(req[r], o) EXCEPT !.pc = "fallback"])
           /\ Pressed(Judged(r, [Sent(req[r], o) EXCEPT !.last = o, !.lastKey = req[r].key], o))
<1> USE DEF Between, During, Over
<1> DEFINE q == req[r]
           second == [Sent(q, o) EXCEPT !.pc = "fallback"]
           m == [Sent(q, o) EXCEPT !.last = o, !.lastKey = q.key]
           n == Judged(r, m, o)
<1>1. /\ DOMAIN q = Fields /\ q.cand \in 1 .. Len(Order) /\ q.tried \in Nat /\ q.retries \in 0 .. 3
      /\ q.key \in Own(q) \ q.excluded /\ q.url \in 1 .. Urls(q)
      /\ q.tried <= Worth(q, Spent(q)) + Calls(q)
  BY DEF Pressed
<1> HIDE DEF q
<1>2. /\ Urls(q) \in Nat /\ Spent(q) \in Nat /\ Most(q) \in Nat /\ Spent(q) + 1 <= Most(q)
      /\ Cardinality(q.excluded \cap Own(q)) \in Nat
      /\ Cardinality((q.excluded \cup {q.key}) \cap Own(q))
            = Cardinality(q.excluded \cap Own(q)) + 1
  BY <1>1, KeysCount
<1> DEFINE base == Worth(q, Spent(q))
           next == Worth(q, Spent(q) + 1)
           top == Worth(q, Most(q))
<1>3. base \in Nat /\ next \in Nat /\ top \in Nat /\ next = base + 2 * Urls(q) /\ next <= top
  <2>1. /\ \A k, x \in Nat : k <= x => Worth(q, k) <= Worth(q, x)
        /\ \A x \in Nat : Worth(q, x) \in Nat /\ Worth(q, x + 1) = Worth(q, x) + 2 * Urls(q)
    BY <1>2, WorthGrows
  <2>2. Spent(q) + 1 \in Nat
    BY <1>2
  <2>3. base \in Nat /\ top \in Nat /\ next = base + 2 * Urls(q)
    BY <1>2, <2>1
  <2>4. next \in Nat /\ next <= top
    BY <1>2, <2>1, <2>2
  <2> QED BY <2>3, <2>4
<1> HIDE DEF base, next, top
<1>4. /\ q.tried + 1 <= base + 2 * q.url
      /\ q.tried + 1 <= next
      /\ q.pc = "attempt" => q.tried + 1 <= base + 2 * (q.url - 1) + 1
  <2>1. PICK calls \in Int :
           /\ calls = Calls(q)
           /\ calls + 1 <= 2 * q.url
           /\ q.pc = "attempt" => calls = 2 * (q.url - 1)
    <3>1. q.url \in Int
      BY <1>1, <1>2
    <3>2. \/ q.pc = "fallback" /\ Calls(q) = 2 * (q.url - 1) + 1
          \/ q.pc # "fallback" /\ Calls(q) = 2 * (q.url - 1)
      BY <3>1 DEF Calls
    <3>3. Calls(q) \in Int
      BY <3>1, <3>2
    <3>4. Calls(q) + 1 <= 2 * q.url /\ (q.pc = "attempt" => Calls(q) = 2 * (q.url - 1))
      BY <3>1, <3>2
    <3> QED BY <3>3, <3>4
  <2>2. q.tried <= base + Calls(q)
    BY <1>1 DEF base
  <2>3. q.url \in Int /\ q.url <= Urls(q) /\ q.tried \in Nat
    BY <1>1, <1>2
  <2>4. PICK tried \in Nat, b \in Nat, url \in Int, urls \in Nat :
           tried = q.tried /\ b = base /\ url = q.url /\ urls = Urls(q)
    BY <1>2, <1>3, <2>3
  <2>5. tried <= b + calls /\ calls + 1 <= 2 * url /\ url <= urls /\ next = b + 2 * urls
    BY <1>3, <2>1, <2>2, <2>3, <2>4
  <2>6. tried + 1 <= b + 2 * url /\ tried + 1 <= b + 2 * urls
    BY <2>5
  <2>7. calls = 2 * (url - 1) => tried + 1 <= b + 2 * (url - 1) + 1
    BY <2>5
  <2>8. q.tried + 1 <= base + 2 * q.url /\ q.tried + 1 <= next
    BY <2>4, <2>5, <2>6
  <2>9. q.pc = "attempt" => q.tried + 1 <= base + 2 * (q.url - 1) + 1
    BY <2>1, <2>4, <2>7
  <2> QED BY <2>8, <2>9
<1>5. q.pc = "attempt" => Pressed(second)
  <2>1. /\ DOMAIN second = Fields /\ second.pc = "fallback" /\ second.cand = q.cand
        /\ second.tried = q.tried + 1 /\ second.retries = q.retries /\ second.key = q.key
        /\ second.url = q.url /\ second.excluded = q.excluded
    BY <1>1 DEF Sent, Fields
  <2> HIDE DEF second
  <2>2. Own(second) = Own(q) /\ Urls(second) = Urls(q) /\ Spent(second) = Spent(q)
        /\ Worth(second, Spent(q)) = Worth(q, Spent(q))
    BY <2>1 DEF Own, Urls, Spent, Worth
  <2>3. Calls(second) = 2 * (q.url - 1) + 1
    BY <2>1 DEF Calls
  <2>4. q.pc = "attempt" => second.tried <= Worth(q, Spent(q)) + Calls(second)
    BY <1>1, <1>3, <1>4, <2>1, <2>3 DEF base
  <2> QED BY <1>1, <2>1, <2>2, <2>4 DEF Pressed
<1>6. /\ DOMAIN m = Fields /\ m.cand = q.cand /\ m.tried = q.tried + 1 /\ m.retries = q.retries
      /\ m.key = q.key /\ m.url = q.url /\ m.excluded = q.excluded /\ m.lastKey = q.key
  BY <1>1 DEF Sent, Fields
<1> HIDE DEF m
<1>7. \/ n = [m EXCEPT !.pc = "outcome", !.key = None, !.handled = TRUE]
      \/ n = [m EXCEPT !.pc = "dead", !.key = None, !.gap = None]
      \/ n = [m EXCEPT !.pc = "attempt", !.url = @ + 1] /\ m.url < Urls(q)
      \/ n = [m EXCEPT !.pc = "acquire", !.key = None, !.excluded = @ \cup {m.key}]
  BY DEF Judged, Channel, Urls, q
<1> HIDE DEF n
<1>8. /\ DOMAIN n = Fields /\ n.cand = q.cand /\ n.tried = q.tried + 1 /\ n.retries = q.retries
      /\ n.lastKey = q.key
      /\ \/ n.pc = "outcome"
         \/ n.pc = "dead" /\ n.excluded = q.excluded
         \/ /\ n.pc = "attempt" /\ n.excluded = q.excluded /\ n.key = q.key
            /\ n.url = q.url + 1 /\ q.url < Urls(q)
         \/ n.pc = "acquire" /\ n.excluded = q.excluded \cup {q.key}
  <2>1. CASE n = [m EXCEPT !.pc = "outcome", !.key = None, !.handled = TRUE]
    BY <1>6, <2>1 DEF Fields
  <2>2. CASE n = [m EXCEPT !.pc = "dead", !.key = None, !.gap = None]
    BY <1>6, <2>2 DEF Fields
  <2>3. CASE n = [m EXCEPT !.pc = "attempt", !.url = @ + 1] /\ m.url < Urls(q)
    BY <1>6, <2>3 DEF Fields
  <2>4. CASE n = [m EXCEPT !.pc = "acquire", !.key = None, !.excluded = @ \cup {m.key}]
    BY <1>6, <2>4 DEF Fields
  <2> QED BY <1>7, <2>1, <2>2, <2>3, <2>4
<1>9. Own(n) = Own(q) /\ Urls(n) = Urls(q) /\ \A x : Worth(n, x) = Worth(q, x)
  BY <1>8 DEF Own, Urls, Worth
<1>10. Pressed(n)
  <2>1. CASE n.pc = "outcome"
    <3>1. n.tried <= top
      BY <1>1, <1>3, <1>4, <1>8
    <3>2. Worth(n, Most(n)) = top
      BY <1>9 DEF top, Most
    <3> QED BY <1>1, <1>8, <2>1, <3>1, <3>2 DEF Pressed
  <2>2. CASE n.pc = "dead" /\ n.excluded = q.excluded
    <3>1. Spent(n) = Spent(q)
      BY <1>8, <1>9, <2>2 DEF Spent
    <3> QED BY <1>1, <1>4, <1>8, <1>9, <2>2, <3>1 DEF Pressed, next
  <2>3. CASE /\ n.pc = "attempt" /\ n.excluded = q.excluded /\ n.key = q.key
             /\ n.url = q.url + 1 /\ q.url < Urls(q)
    <3>1. Spent(n) = Spent(q)
      BY <1>8, <1>9, <2>3 DEF Spent
    <3>2. Calls(n) = 2 * q.url
      BY <1>1, <2>3 DEF Calls
    <3>3. n.tried <= Worth(n, Spent(n)) + Calls(n)
      BY <1>4, <1>8, <1>9, <3>1, <3>2 DEF base
    <3>4. n.url \in 1 .. Urls(n) /\ n.key \in Own(n) \ n.excluded
      <4>1. q.url \in Int /\ 1 <= q.url
        BY <1>1, <1>2
      <4> QED BY <1>1, <1>2, <1>9, <2>3, <4>1
    <3> QED BY <1>1, <1>8, <2>3, <3>3, <3>4 DEF Pressed
  <2>4. CASE n.pc = "acquire" /\ n.excluded = q.excluded \cup {q.key}
    <3>1. Spent(n) = Spent(q) + 1
      <4>1. Spent(n) = (Cardinality(q.excluded \cap Own(q)) + 1) + q.retries
        BY <1>2, <1>8, <1>9, <2>4 DEF Spent
      <4>2. Spent(q) = Cardinality(q.excluded \cap Own(q)) + q.retries
        BY DEF Spent
      <4>3. PICK out \in Nat : out = Cardinality(q.excluded \cap Own(q))
        BY <1>2
      <4>4. Spent(n) = (out + 1) + q.retries /\ Spent(q) = out + q.retries
        BY <4>1, <4>2, <4>3
      <4> QED BY <1>1, <4>4
    <3> QED BY <1>1, <1>4, <1>8, <1>9, <2>4, <3>1 DEF Pressed, next
  <2> QED BY <1>8, <2>1, <2>2, <2>3, <2>4
<1> QED BY <1>5, <1>10 DEF n, m, q

\* What every step makes of its request: pressed no further than a visit allows.
Presses(r) == \E n : Set(r, n) /\ Pressed(n)

LEMMA VisitPresses ==
    ASSUME RelayConstants, PressureInv, NEW r \in Requests,
           \/ Begin(r) \/ EnterChannel(r)
           \/ \E k \in AllKeys : AcquireKeySlot(r, k)
           \/ ConcurrencyExhausted(r) \/ CredentialUnavailable(r) \/ RetrySameCandidate(r)
           \/ LeaveChannel(r) \/ WaitForRetry(r) \/ ChannelDead(r)
    PROVE  Presses(r)
<1> DEFINE q == req[r]
<1>1. Pressed(q) /\ DOMAIN q = Fields
  BY DEF PressureInv, Pressed
<1>2. /\ q.cand \in 1 .. Len(Order) /\ q.retries \in 0 .. 3 /\ q.tried \in Nat
      /\ Urls(q) \in Nat \ {0} /\ Spent(q) \in Nat
  <2>1. q.cand \in 1 .. Len(Order) /\ q.retries \in 0 .. 3 /\ q.tried \in Nat
    BY <1>1 DEF Pressed
  <2> HIDE DEF q
  <2> QED BY <2>1, KeysCount
<1>3. CASE Begin(r)
  <2> DEFINE n == [q EXCEPT !.pc = "enter"]
  <2>1. Set(r, n)
    BY <1>3 DEF Begin
  <2>2. /\ DOMAIN n = Fields /\ n.pc = "enter" /\ n.cand = q.cand
        /\ n.tried = q.tried /\ n.retries = q.retries
    BY <1>1 DEF Fields
  <2> HIDE DEF n, q
  <2>3. Pressed(n)
    BY <1>1, <1>2, <2>2, NoCallStep
  <2> QED BY <2>1, <2>3 DEF Presses
<1>4. CASE EnterChannel(r)
  <2> DEFINE n == [q EXCEPT !.pc = "acquire", !.retries = 0, !.bypass = q.pass > 0,
                            !.tried = 0, !.last = None, !.lastKey = None, !.handled = FALSE,
                            !.exhausted = FALSE, !.gap = None]
  <2>1. Set(r, n)
    BY <1>4 DEF EnterChannel
  <2>2. DOMAIN n = Fields /\ n.pc = "acquire" /\ n.cand = q.cand /\ n.tried = 0 /\ n.retries = 0
    BY <1>1 DEF Fields
  <2> HIDE DEF n, q
  <2>3. n.cand \in 1 .. Len(Order) /\ n.retries \in 0 .. 3
    BY <1>2, <2>2
  <2>4. Urls(n) \in Nat /\ Spent(n) \in Nat
    BY <2>3, KeysCount
  <2>5. Worth(n, Spent(n)) \in Nat
    BY <2>4, WorthGrows
  <2>6. Pressed(n)
    BY <2>2, <2>3, <2>5 DEF Pressed, Between, During, Over
  <2> QED BY <2>1, <2>6 DEF Presses
<1>5. CASE \E k \in AllKeys : AcquireKeySlot(r, k)
  <2>0. PICK k \in AllKeys : AcquireKeySlot(r, k)
    BY <1>5
  <2> DEFINE n == [q EXCEPT !.pc = "attempt", !.key = k, !.url = 1]
  <2>1. Set(r, n) /\ q.pc = "acquire" /\ k \in Own(q) \ q.excluded
    BY <2>0 DEF AcquireKeySlot, FreeKeys, UsableKeys, Own, Channel
  <2>2. /\ DOMAIN n = Fields /\ n.pc = "attempt" /\ n.cand = q.cand /\ n.tried = q.tried
        /\ n.retries = q.retries /\ n.excluded = q.excluded /\ n.key = k /\ n.url = 1
    BY <1>1 DEF Fields
  <2>3. q.tried <= Worth(q, Spent(q))
    BY <1>1, <2>1 DEF Pressed, Between
  <2> HIDE DEF n, q
  <2>4. /\ Own(n) = Own(q) /\ Urls(n) = Urls(q) /\ Spent(n) = Spent(q)
        /\ Worth(n, Spent(n)) = Worth(q, Spent(q))
    BY <2>2 DEF Own, Urls, Spent, Worth
  <2>5. Calls(n) = 0 /\ Worth(q, Spent(q)) \in Nat
    <3>1. Calls(n) = 0
      BY <2>2 DEF Calls
    <3>2. Worth(q, Spent(q)) \in Nat
      BY <1>2, WorthGrows
    <3> QED BY <3>1, <3>2
  <2>6. n.tried <= Worth(n, Spent(n)) + Calls(n)
    BY <2>2, <2>3, <2>4, <2>5
  <2>7. Pressed(n)
    BY <1>2, <2>1, <2>2, <2>4, <2>6 DEF Pressed, Between, During, Over
  <2> QED BY <2>1, <2>7 DEF Presses
<1>6. CASE ConcurrencyExhausted(r) \/ CredentialUnavailable(r) \/ WaitForRetry(r)
  <2>1. PICK n : /\ Set(r, n) /\ DOMAIN n = Fields /\ n.tried = q.tried /\ n.retries = q.retries
                 /\ n.cand = q.cand /\ n.excluded = q.excluded
                 /\ q.pc \in Between /\ n.pc \in Between
    <3>1. CASE ConcurrencyExhausted(r)
      <4> DEFINE n == [q EXCEPT !.pc = "unkeyed", !.gap = "full"]
      <4> WITNESS n
      <4> QED BY <1>1, <3>1 DEF ConcurrencyExhausted, Fields, Between
    <3>2. CASE CredentialUnavailable(r)
      <4> DEFINE n == [q EXCEPT !.pc = "unkeyed", !.gap = "unavailable"]
      <4> WITNESS n
      <4> QED BY <1>1, <3>2 DEF CredentialUnavailable, Fields, Between
    <3>3. CASE WaitForRetry(r)
      <4> DEFINE n == [q EXCEPT !.pc = "acquire", !.gap = None]
      <4> WITNESS n
      <4> QED BY <1>1, <3>3 DEF WaitForRetry, Fields, Between
    <3> QED BY <1>6, <3>1, <3>2, <3>3
  <2> HIDE DEF q
  <2>2. Pressed(n)
    BY <1>1, <2>1, NoCallStep
  <2> QED BY <2>1, <2>2 DEF Presses
<1>7. CASE LeaveChannel(r)
  <2> DEFINE n == [q EXCEPT !.pc = "outcome", !.exhausted = q.gap = "full"]
  <2>1. Set(r, n) /\ q.pc \in Between
    BY <1>7 DEF LeaveChannel, Between
  <2>2. /\ DOMAIN n = Fields /\ n.pc \in Over /\ n.cand = q.cand /\ n.tried = q.tried
        /\ n.retries = q.retries /\ n.excluded = q.excluded
    BY <1>1 DEF Fields, Over
  <2> HIDE DEF n, q
  <2>3. Pressed(n)
    BY <1>1, <2>1, <2>2, NoCallStep
  <2> QED BY <2>1, <2>3 DEF Presses
<1>8. \A dead \in BOOLEAN : SameCandidateRetryDelay(r, dead) => q.retries < 3
  BY <1>2 DEF SameCandidateRetryDelay
<1>9. CASE RetrySameCandidate(r)
  <2> DEFINE n == [q EXCEPT !.pc = "backoff", !.retries = @ + 1, !.bypass = TRUE,
                            !.excluded = @ \ {q.lastKey}]
  <2>1. Set(r, n) /\ q.pc \in Between /\ q.retries < 3
    BY <1>8, <1>9 DEF RetrySameCandidate, Between
  <2>2. /\ DOMAIN n = Fields /\ n.pc = "backoff" /\ n.cand = q.cand /\ n.tried = q.tried
        /\ n.retries = q.retries + 1 /\ n.excluded = q.excluded \ {q.lastKey}
    BY <1>1 DEF Fields
  <2> HIDE DEF n, q
  <2>3. Pressed(n)
    BY <1>1, <2>1, <2>2, RepeatStep
  <2> QED BY <2>1, <2>3 DEF Presses
<1>10. CASE ChannelDead(r)
  <2> DEFINE again == [q EXCEPT !.pc = "backoff", !.retries = @ + 1, !.bypass = TRUE]
             over == [q EXCEPT !.pc = "outcome"]
  <2>1. q.pc = "dead" /\ (Set(r, over) \/ (Set(r, again) /\ q.retries < 3))
    BY <1>8, <1>10 DEF ChannelDead
  <2>2. /\ DOMAIN again = Fields /\ again.pc = "backoff" /\ again.cand = q.cand
        /\ again.tried = q.tried /\ again.retries = q.retries + 1 /\ again.excluded = q.excluded
    BY <1>1 DEF Fields
  <2>3. /\ DOMAIN over = Fields /\ over.pc \in Over /\ over.cand = q.cand
        /\ over.tried = q.tried /\ over.retries = q.retries /\ over.excluded = q.excluded
    BY <1>1 DEF Fields, Over
  <2> HIDE DEF again, over, q
  <2>4. Pressed(over)
    BY <1>1, <2>1, <2>3, NoCallStep
  <2>5. q.retries < 3 => Pressed(again)
    BY <1>1, <2>1, <2>2, RepeatStep
  <2> QED BY <2>1, <2>4, <2>5 DEF Presses
<1> QED BY <1>3, <1>4, <1>5, <1>6, <1>7, <1>9, <1>10

LEMMA CallPresses ==
    ASSUME RelayConstants, PressureInv, NEW r \in Requests, NEW o \in Outcomes[r],
           Attempt(r, o) \/ Fallback(r, o)
    PROVE  Presses(r)
<1> DEFINE settled == Judged(r, [Sent(req[r], o) EXCEPT !.last = o, !.lastKey = req[r].key], o)
           second == [Sent(req[r], o) EXCEPT !.pc = "fallback"]
<1>1. Pressed(req[r]) /\ req[r].pc \in During
  BY DEF PressureInv, Attempt, Fallback, During
<1>2. Pressed(settled) /\ (req[r].pc = "attempt" => Pressed(second))
  BY <1>1, CallStep
<1>3. Set(r, settled) \/ (Set(r, second) /\ req[r].pc = "attempt")
  BY DEF Attempt, Fallback, Settle
<1> HIDE DEF settled, second
<1> QED BY <1>2, <1>3 DEF Presses

\* A request that is over has made its calls.
LEMMA DonePressed ==
    ASSUME NEW q, Pressed(q), NEW reply, NEW row
    PROVE  Pressed(Done(q, reply)) /\ Pressed([Done(q, reply) EXCEPT !.row = row])
<1> DEFINE n == Done(q, reply)
           m == [n EXCEPT !.row = row]
<1>1. DOMAIN q = Fields /\ q.cand \in 1 .. Len(Order)
  BY DEF Pressed
<1>2. DOMAIN n = Fields /\ n.pc = "done" /\ n.tried = 0 /\ n.retries = 0 /\ n.cand = q.cand
  BY <1>1 DEF Done, Fields
<1> HIDE DEF n
<1>3. DOMAIN m = Fields /\ m.pc = "done" /\ m.tried = 0 /\ m.retries = 0 /\ m.cand = q.cand
  BY <1>2 DEF Fields
<1> HIDE DEF m
<1>4. Pressed(n) /\ Pressed(m)
  BY <1>1, <1>2, <1>3 DEF Pressed, Between, During, Over
<1> QED BY <1>4 DEF n, m

\* What becomes of an outcome calls nobody, and the next visit starts anew.
LEMMA OutcomePresses ==
    ASSUME RelayConstants, PressureInv, NEW r \in Requests,
           \/ Exhausted(r) \/ Failover(r) \/ DropUnbillable(r)
           \/ \E funds \in BOOLEAN : Record(r, funds)
           \/ RecordFails(r) \/ Unbillable(r)
           \/ Refuse(r) \/ Unpaid(r) \/ Answer(r)
           \/ \E stored \in BOOLEAN : AllCandidatesFailed(r, stored)
    PROVE  Presses(r)
<1> DEFINE q == req[r]
           Later(n) == /\ DOMAIN n = Fields /\ n.tried = q.tried /\ n.retries = q.retries
                       /\ \/ n.pc = "enter" /\ n.cand \in 1 .. Len(Order)
                          \/ /\ n.cand = q.cand /\ n.excluded = q.excluded
                             /\ q.pc \in Over /\ n.pc \in Over
<1>1. Pressed(q) /\ DOMAIN q = Fields /\ q.cand \in 1 .. Len(Order)
  BY DEF PressureInv, Pressed
<1>2. ASSUME NEW n, Set(r, n), Later(n) PROVE Presses(r)
  <2>1. Pressed(n)
    <3> HIDE DEF q
    <3> QED BY <1>1, <1>2, NoCallStep
  <2> QED BY <1>2, <2>1 DEF Presses
<1>3. ASSUME NEW reply, Set(r, Done(q, reply)) PROVE Presses(r)
  BY <1>1, <1>3, DonePressed DEF Presses
<1>4. ASSUME NEW counted, q.pc = "outcome"
      PROVE  /\ Later(NextCandidate(r, counted))
             /\ \A value : Later([NextCandidate(r, counted) EXCEPT !.counted = value])
  <2> DEFINE m == NextCandidate(r, counted)
  <2>1. \/ m = [q EXCEPT !.pc = "enter", !.cand = @ + 1] /\ q.cand # Len(Order)
        \/ m = [q EXCEPT !.pc = "enter", !.cand = 1, !.pass = 1]
        \/ m = [q EXCEPT !.pc = "failed"]
    BY DEF NextCandidate, IsLastCandidate
  <2>2. Len(Order) \in Nat \ {0}
    BY DEF RelayConstants
  <2> HIDE DEF m
  <2>3. /\ DOMAIN m = Fields /\ m.tried = q.tried /\ m.retries = q.retries
        /\ \/ m.pc = "enter" /\ m.cand \in 1 .. Len(Order)
           \/ m.cand = q.cand /\ m.excluded = q.excluded /\ m.pc = "failed"
    <3>1. CASE m = [q EXCEPT !.pc = "enter", !.cand = @ + 1] /\ q.cand # Len(Order)
      BY <1>1, <2>2, <3>1 DEF Fields
    <3>2. CASE m = [q EXCEPT !.pc = "enter", !.cand = 1, !.pass = 1]
      BY <1>1, <2>2, <3>2 DEF Fields
    <3>3. CASE m = [q EXCEPT !.pc = "failed"]
      BY <1>1, <3>3 DEF Fields
    <3> QED BY <2>1, <3>1, <3>2, <3>3
  <2>4. ASSUME NEW value PROVE Later([m EXCEPT !.counted = value])
    <3> DEFINE n == [m EXCEPT !.counted = value]
    <3>1. /\ DOMAIN n = Fields /\ n.tried = m.tried /\ n.retries = m.retries
          /\ n.pc = m.pc /\ n.cand = m.cand /\ n.excluded = m.excluded
      BY <2>3 DEF Fields
    <3> HIDE DEF n
    <3>2. Later(n)
      BY <1>4, <2>3, <3>1 DEF Over
    <3> QED BY <3>2 DEF n
  <2>5. Later(m)
    BY <1>4, <2>3 DEF Over
  <2> QED BY <2>4, <2>5 DEF m
<1>5. CASE Exhausted(r)
  <2>1. q.pc = "outcome" /\ (Set(r, Done(q, "429")) \/ Set(r, NextCandidate(r, q.counted)))
    BY <1>5 DEF Exhausted
  <2>2. Later(NextCandidate(r, q.counted))
    BY <1>4, <2>1
  <2> HIDE DEF Later
  <2> QED BY <1>2, <1>3, <2>1, <2>2
<1>6. CASE Failover(r)
  <2>1. q.pc = "outcome" /\ Set(r, [NextCandidate(r, Counted(r)) EXCEPT !.counted = Counted(r)])
    BY <1>6 DEF Failover
  <2>2. Later([NextCandidate(r, Counted(r)) EXCEPT !.counted = Counted(r)])
    BY <1>4, <2>1
  <2> HIDE DEF Later
  <2> QED BY <1>2, <2>1, <2>2
<1>7. CASE RetryUnbillable(r)
  <2> DEFINE n == [q EXCEPT !.pc = "enter", !.counted = TRUE, !.excluded = @ \cup {q.lastKey}]
  <2>1. Set(r, n)
    BY <1>7 DEF RetryUnbillable
  <2>2. /\ DOMAIN n = Fields /\ n.tried = q.tried /\ n.retries = q.retries
        /\ n.pc = "enter" /\ n.cand = q.cand
    BY <1>1 DEF Fields
  <2> HIDE DEF n
  <2>3. Later(n)
    BY <1>1, <2>2
  <2> HIDE DEF Later
  <2> QED BY <1>2, <2>1, <2>3
<1>8. ASSUME NEW stage \in Over, NEW row, NEW charge, q.pc \in Over,
             \/ Set(r, [q EXCEPT !.pc = stage, !.row = row])
             \/ Set(r, [q EXCEPT !.pc = stage, !.charged = charge, !.row = row])
             \/ Set(r, [q EXCEPT !.pc = stage])
      PROVE  Presses(r)
  <2> DEFINE a == [q EXCEPT !.pc = stage, !.row = row]
             b == [q EXCEPT !.pc = stage, !.charged = charge, !.row = row]
             c == [q EXCEPT !.pc = stage]
  <2>1. Later(a) /\ Later(b) /\ Later(c)
    BY <1>1, <1>8 DEF Fields
  <2>2. Set(r, a) \/ Set(r, b) \/ Set(r, c)
    BY <1>8
  <2> HIDE DEF a, b, c, Later
  <2> QED BY <1>2, <2>1, <2>2
<1>9. CASE \E funds \in BOOLEAN : Record(r, funds)
  <2>1. PICK funds \in BOOLEAN : Recorded(r, q.last, funds) /\ q.pc = "outcome"
    BY <1>9 DEF Record, Handled
  <2>2. \E stage \in {"unbillable", "unpaid", "answer"} : \E row, charge :
           \/ Set(r, [q EXCEPT !.pc = stage, !.row = row])
           \/ Set(r, [q EXCEPT !.pc = stage, !.charged = charge, !.row = row])
    <3> DEFINE o == q.last
               unbillable == Billable(o) /\ Priced /\ o.usage # "yes"
               charge == Billable(o) /\ Priced /\ o.usage = "yes" /\ Channel(r) \notin Owned
               stage == IF unbillable THEN "unbillable" ELSE "unpaid"
               row == IF Billable(o) THEN "ok" ELSE "error"
    <3>1. \/ Set(r, [q EXCEPT !.pc = stage, !.row = "402"])
          \/ Set(r, [q EXCEPT !.pc = "answer", !.charged = charge, !.row = row])
      BY <2>1 DEF Recorded
    <3>2. stage \in {"unbillable", "unpaid"}
      OBVIOUS
    <3> HIDE DEF stage, row, charge
    <3> QED BY <3>1, <3>2
  <2>3. PICK stage \in {"unbillable", "unpaid", "answer"} : \E row, charge :
           \/ Set(r, [q EXCEPT !.pc = stage, !.row = row])
           \/ Set(r, [q EXCEPT !.pc = stage, !.charged = charge, !.row = row])
    BY <2>2
  <2>4. PICK row, charge :
           \/ Set(r, [q EXCEPT !.pc = stage, !.row = row])
           \/ Set(r, [q EXCEPT !.pc = stage, !.charged = charge, !.row = row])
    BY <2>3
  <2>5. stage \in Over /\ q.pc \in Over
    BY <2>1 DEF Over
  <2> QED BY <1>8, <2>4, <2>5
<1>10. CASE RecordFails(r)
  BY <1>8, <1>10 DEF RecordFails, Handled, Over
<1>11. CASE Unbillable(r)
  BY <1>7, <1>8, <1>11 DEF Unbillable, Over
<1>12. CASE DropUnbillable(r)
  BY <1>7, <1>12 DEF DropUnbillable
<1>13. CASE Refuse(r)
  BY <1>3, <1>13 DEF Refuse
<1>14. CASE Unpaid(r)
  BY <1>3, <1>14 DEF Unpaid
<1>15. CASE Answer(r)
  BY <1>3, <1>15 DEF Answer
<1>16. CASE \E stored \in BOOLEAN : AllCandidatesFailed(r, stored)
  <2>1. \E reply, row : Set(r, [Done(q, reply) EXCEPT !.row = row])
    BY <1>16 DEF AllCandidatesFailed
  <2> QED BY <1>1, <2>1, DonePressed DEF Presses
<1> QED BY <1>5, <1>6, <1>9, <1>10, <1>11, <1>12, <1>13, <1>14, <1>15, <1>16

LEMMA CancelPresses ==
    ASSUME PressureInv, NEW r \in Requests, Cancel(r) PROVE Presses(r)
<1> DEFINE q == req[r]
           n == [q EXCEPT !.cancelled = TRUE]
<1>1. Pressed(q) /\ DOMAIN q = Fields
  BY DEF PressureInv, Pressed
<1>2. /\ DOMAIN n = Fields /\ n.pc = q.pc /\ n.cand = q.cand /\ n.tried = q.tried
      /\ n.retries = q.retries /\ n.excluded = q.excluded /\ n.key = q.key /\ n.url = q.url
      /\ n.lastKey = q.lastKey
  BY <1>1 DEF Fields
<1>3. Set(r, n)
  BY DEF Cancel
<1> HIDE DEF n, q
<1>4. /\ Own(n) = Own(q) /\ Urls(n) = Urls(q) /\ Spent(n) = Spent(q) /\ Calls(n) = Calls(q)
      /\ Most(n) = Most(q) /\ \A x : Worth(n, x) = Worth(q, x)
  BY <1>2 DEF Own, Urls, Spent, Calls, Most, Worth
<1>5. Pressed(n)
  BY <1>1, <1>2, <1>4 DEF Pressed
<1> QED BY <1>3, <1>5 DEF Presses

LEMMA PressureNext == ASSUME RelayConstants, PressureInv, [Next]_vars PROVE PressureInv'
<1>1. CASE UNCHANGED req
  BY <1>1 DEF PressureInv
<1>2. CASE \E r \in Requests : Step(r) \/ Cancel(r)
  <2>1. PICK p \in Requests : Step(p) \/ Cancel(p)
    BY <1>2
  <2>2. Presses(p)
    BY <2>1, VisitPresses, CallPresses, OutcomePresses, CancelPresses DEF Step
  <2>3. PICK n : req' = [req EXCEPT ![p] = n] /\ Pressed(n)
    BY <2>2 DEF Presses, Set
  <2>4. DOMAIN req' = Requests /\ req'[p] = n /\ \A r \in Requests \ {p} : req'[r] = req[r]
    BY <2>3 DEF PressureInv
  <2> QED BY <2>3, <2>4 DEF PressureInv
<1>3. CASE \E k \in AllKeys : CooldownEnds(k)
  BY <1>1, <1>3 DEF CooldownEnds
<1> QED BY <1>1, <1>2, <1>3 DEF Next, vars

\* Wherever a visit stands, its calls are within the bound.
LEMMA PressedBound ==
    ASSUME RelayConstants, NEW q, Pressed(q), q.pc # "enter"
    PROVE  q.tried <= Worth(q, Most(q))
<1>1. q.cand \in 1 .. Len(Order) /\ q.retries \in 0 .. 3 /\ q.tried \in Nat
  BY DEF Pressed
<1>2. /\ Urls(q) \in Nat /\ Spent(q) \in Nat /\ Spent(q) <= Most(q) /\ Most(q) \in Nat
      /\ \A k \in Own(q) \ q.excluded : Spent(q) + 1 <= Most(q)
  BY <1>1, KeysCount
<1>3. PICK base \in Nat, top \in Nat :
         base = Worth(q, Spent(q)) /\ top = Worth(q, Most(q)) /\ base <= top
  BY <1>2, WorthGrows
<1>4. CASE q.pc \in {"begin", "done"}
  BY <1>3, <1>4 DEF Pressed
<1>5. CASE q.pc \in Between
  BY <1>1, <1>3, <1>5 DEF Pressed
<1>6. CASE q.pc \in During \cup {"dead"}
  <2>1. PICK next \in Nat : next = Worth(q, Spent(q) + 1)
    <3>1. Spent(q) + 1 \in Nat
      BY <1>2
    <3>2. \A m \in Nat : Worth(q, m) \in Nat
      BY <1>2, WorthGrows
    <3> QED BY <3>1, <3>2
  <2>2. next = base + 2 * Urls(q)
    BY <1>2, <1>3, <2>1, WorthGrows
  <2>3. q.tried <= next
    <3>1. CASE q.pc = "dead"
      BY <2>1, <3>1 DEF Pressed
    <3>2. CASE q.pc \in During
      <4>1. q.url \in 1 .. Urls(q) /\ q.tried <= base + Calls(q)
        BY <1>3, <3>2 DEF Pressed
      <4>2. PICK url \in Int, urls \in Nat, tried \in Nat :
               url = q.url /\ urls = Urls(q) /\ tried = q.tried /\ url <= urls
        BY <1>1, <1>2, <4>1
      <4>3. PICK calls \in Int : calls = Calls(q) /\ calls <= 2 * url
        <5>1. \/ Calls(q) = 2 * (url - 1) + 1
              \/ Calls(q) = 2 * (url - 1)
          BY <4>2 DEF Calls
        <5>2. 2 * (url - 1) + 1 \in Int /\ 2 * (url - 1) \in Int
          OBVIOUS
        <5> QED BY <5>1, <5>2
      <4>4. tried <= base + calls
        BY <4>1, <4>2, <4>3
      <4>5. tried <= base + 2 * urls
        <5>1. calls <= 2 * urls
          BY <4>2, <4>3
        <5> QED BY <4>4, <5>1
      <4>6. next = base + 2 * urls
        BY <2>2, <4>2
      <4> QED BY <4>2, <4>5, <4>6
    <3> QED BY <1>6, <3>1, <3>2
  <2>4. Spent(q) + 1 \in Nat /\ Spent(q) + 1 <= Most(q)
    <3>1. q.key \in Own(q) \ q.excluded \/ q.lastKey \in Own(q) \ q.excluded
      BY <1>6 DEF Pressed
    <3> QED BY <1>2, <3>1
  <2>5. next <= top
    BY <1>2, <1>3, <2>1, <2>4, WorthGrows
  <2> QED BY <1>1, <1>3, <2>1, <2>3, <2>5
<1>7. CASE q.pc \in Over
  BY <1>7 DEF Pressed
<1> QED BY <1>4, <1>5, <1>6, <1>7 DEF Pressed

\* A visit to a channel makes at most two calls per address for each of its keys and
\* for three repeats, however throttling, risk control and transient failures
\* alternate and whatever is excluded, cooled down or disabled meanwhile
\* (BoundedPressure).
THEOREM PressureIsBounded == Spec => []BoundedPressure
<1>1. Init => PressureInv
  <2> SUFFICES ASSUME NEW S \in SUBSET Requests, req = [r \in Requests |-> Fresh(r \in S)],
                      NEW r \in Requests
               PROVE  Pressed(req[r])
    BY DEF Init, PressureInv
  <2> DEFINE n == Fresh(r \in S)
  <2>1. DOMAIN n = Fields /\ n.pc = "begin" /\ n.tried = 0 /\ n.retries = 0 /\ n.cand = 1
    BY DEF Fresh, Fields
  <2> HIDE DEF n
  <2>2. 1 \in 1 .. Len(Order)
    BY RelayConstants DEF RelayConstants
  <2>3. Pressed(n)
    BY <2>1, <2>2 DEF Pressed, Between, During, Over
  <2> QED BY <2>3 DEF n
<1>2. PressureInv /\ [Next]_vars => PressureInv'
  BY PressureNext, RelayConstants
<1>3. PressureInv => BoundedPressure
  <2> SUFFICES ASSUME PressureInv, NEW r \in Requests, req[r].pc # "enter"
               PROVE  req[r].tried <= 2 * Addresses[Channel(r)] * (Cardinality(Keys[Channel(r)]) + 3)
    BY DEF BoundedPressure
  <2>1. PICK q : q = req[r]
    OBVIOUS
  <2>2. Pressed(q)
    BY <2>1 DEF PressureInv
  <2>3. q.tried <= Worth(q, Most(q))
    BY <2>1, <2>2, PressedBound, RelayConstants
  <2> QED BY <2>1, <2>3 DEF Worth, Urls, Own, Most, Channel
<1> QED BY <1>1, <1>2, <1>3, PTL DEF Spec

-----------------------------------------------------------------------------
(* The route a request begins with.                                         *)

\* Where a request has a static route.
Routed == {"store", "filter", "affinity", "pin", "routed"}
Phases == Routed \cup {"start", "lookup", "resolve", "refused"}

\* The types the argument needs, and the versions still to come.
CountersOK ==
    /\ revision \in 0 .. MaxRevision /\ owed \in Nat /\ version \in Nat
    /\ version + owed <= revision
    /\ announced \in [0 .. MaxRevision -> 0 .. revision]
    /\ pc \in [RoutedRequests -> Phases]
    /\ seen \in [RoutedRequests -> 0 .. version]
    /\ since \in [RoutedRequests -> Nat]
    /\ DOMAIN route = RoutedRequests /\ DOMAIN cache = 0 .. MaxRevision

\* The request compares itself with what its version announced.
VersionsAreFinal == announced[0] = 0 /\ \A r \in RoutedRequests : since[r] = announced[seen[r]]

\* What has been resolved or found is at least as new; no version has an entry before
\* it is reached.
RoutesAreFresh ==
    \A r \in RoutedRequests : pc[r] \in Routed =>
        route[r].creators = TRUE /\ route[r].revision \in Nat /\ route[r].revision >= since[r]

EntriesAreFresh ==
    \A v \in DOMAIN cache : cache[v] # NoRoute =>
        /\ v <= version
        /\ cache[v].creators => cache[v].revision \in Nat /\ cache[v].revision >= announced[v]

RoutingInv == CountersOK /\ VersionsAreFinal /\ RoutesAreFresh /\ EntriesAreFresh

-----------------------------------------------------------------------------
\* The invariant holds in the beginning, with or without an entry of an old release.
LEMMA RoutingStarts == StartRouting => RoutingInv
<1> SUFFICES ASSUME StartRouting PROVE RoutingInv
  OBVIOUS
<1>1. CountersOK
  <2>1. DOMAIN cache = 0 .. MaxRevision
    BY RoutingConstants DEF StartRouting
  <2> QED BY <2>1, RoutingConstants DEF StartRouting, CountersOK, Phases
<1>2. VersionsAreFinal /\ RoutesAreFresh
  BY RoutingConstants DEF StartRouting, VersionsAreFinal, RoutesAreFresh, Routed
<1>3. EntriesAreFresh
  <2>1. \A v \in 0 .. MaxRevision : cache[v] = NoRoute \/ cache[v] = Legacy
    BY RoutingConstants DEF StartRouting
  <2>3. \A v \in 0 .. MaxRevision : cache[v] # NoRoute => v = 0
    BY RoutingConstants DEF StartRouting
  <2>2. Legacy.creators = FALSE
    BY DEF Legacy
  <2> QED BY <2>1, <2>2, <2>3, <1>1 DEF EntriesAreFresh, CountersOK
<1> QED BY <1>1, <1>2, <1>3 DEF RoutingInv

\* Steps of the administrator and of time: what the requests hold is untouched.
LEMMA WritersKeepRouting ==
    ASSUME RoutingInv,
           \/ \E w \in Writes : Commit(w[1], w[2])
           \/ InvalidateRoutes \/ InvalidateRoutesFails \/ Tick
           \/ \E k \in DOMAIN pinned : PinExpires(k)
           \/ \E v \in DOMAIN cache : CacheExpires(v)
           \/ UNCHANGED routingVars
    PROVE  RoutingInv'
<1> USE RoutingConstants DEF RoutingInv, CountersOK, VersionsAreFinal, RoutesAreFresh, EntriesAreFresh, Phases, Routed
<1>1. ASSUME NEW w \in Writes, Commit(w[1], w[2]) PROVE RoutingInv'
  <2>1. /\ revision < MaxRevision /\ revision' = revision + 1 /\ owed' = owed + 1
        /\ UNCHANGED <<version, announced, pc, seen, since, route, cache>>
    BY <1>1 DEF Commit, Unread
  <2>2. CountersOK'
    BY <2>1
  <2> QED BY <2>1, <2>2
<1>2. CASE InvalidateRoutes
  <2>1. \A v \in 0 .. version : announced'[v] = announced[v]
    BY <1>2 DEF InvalidateRoutes
  <2>2. CountersOK'
    BY <1>2 DEF InvalidateRoutes, Unread
  <2>3. VersionsAreFinal'
    BY <1>2, <2>1 DEF InvalidateRoutes, Unread
  <2>4. RoutesAreFresh'
    BY <1>2 DEF InvalidateRoutes, Unread
  <2>5. EntriesAreFresh'
    BY <1>2, <2>1 DEF InvalidateRoutes, Unread
  <2> QED BY <2>2, <2>3, <2>4, <2>5
<1>3. CASE InvalidateRoutesFails
  BY <1>3 DEF InvalidateRoutesFails, Unread
<1>4. CASE Tick
  BY <1>4 DEF Tick, Unread
<1>5. ASSUME NEW k \in DOMAIN pinned, PinExpires(k) PROVE RoutingInv'
  BY <1>5 DEF PinExpires, Unread
<1>6. ASSUME NEW v \in DOMAIN cache, CacheExpires(v) PROVE RoutingInv'
  BY <1>6 DEF CacheExpires, Unread
<1>7. CASE UNCHANGED routingVars
  BY <1>7 DEF routingVars
<1> QED BY <1>1, <1>2, <1>3, <1>4, <1>5, <1>6, <1>7

\* A step on which a request only moves on, and only with a route it has, keeps the
\* invariant.
LEMMA PhaseStep ==
    ASSUME RoutingInv, NEW r \in RoutedRequests, NEW p \in Phases, pc' = [pc EXCEPT ![r] = p],
           p \in Routed => pc[r] \in Routed,
           UNCHANGED <<revision, owed, version, announced, cache, seen, since, route>>
    PROVE  RoutingInv'
<1>1. CountersOK'
  BY DEF RoutingInv, CountersOK
<1>2. VersionsAreFinal' /\ EntriesAreFresh'
  BY DEF RoutingInv, VersionsAreFinal, EntriesAreFresh
<1>3. RoutesAreFresh'
  BY DEF RoutingInv, CountersOK, RoutesAreFresh
<1> QED BY <1>1, <1>2, <1>3 DEF RoutingInv

\* The version a request has read is one that was reached.
LEMMA SeenIsReached ==
    ASSUME RoutingInv, NEW r \in RoutedRequests
    PROVE  /\ seen[r] \in 0 .. version /\ seen[r] \in 0 .. MaxRevision
           /\ revision \in Nat /\ since[r] = announced[seen[r]] /\ since[r] \in 0 .. revision
<1>1. /\ seen[r] \in 0 .. version /\ version \in Nat /\ owed \in Nat /\ version + owed <= revision
      /\ revision \in 0 .. MaxRevision /\ since[r] = announced[seen[r]]
  BY DEF RoutingInv, CountersOK, VersionsAreFinal
<1>2. seen[r] \in 0 .. MaxRevision
  BY <1>1, RoutingConstants
<1>3. announced[seen[r]] \in 0 .. revision
  BY <1>2 DEF RoutingInv, CountersOK
<1> QED BY <1>1, <1>2, <1>3, RoutingConstants

\* What RouteWithPolicy leaves a request in.
LEMMA ThreeWays ==
    ASSUME NEW s, NEW t
    PROVE  (CASE s = << >> -> "refused" [] t = << >> -> "routed" [] OTHER -> "affinity")
             \in {"refused", "routed", "affinity"}
  OBVIOUS

\* Steps of one request. What the others hold is untouched, and no version moves.
LEMMA RequestKeepsRouting ==
    ASSUME RoutingInv, NEW r \in RoutedRequests,
           \/ ReadVersion(r) \/ ReadVersionFails(r) \/ ReadRouteCache(r) \/ Resolve(r)
           \/ WriteRouteCache(r) \/ WriteRouteCacheFails(r) \/ RouteWithPolicy(r)
           \/ ReadConversationChannelAffinity(r) \/ WriteConversationChannelAffinity(r)
           \/ NextRequest(r)
    PROVE  RoutingInv'
<1> USE RoutingConstants DEF RoutingInv, CountersOK, VersionsAreFinal, RoutesAreFresh, EntriesAreFresh, Phases, Routed
<1>1. CASE ReadVersion(r)
  <2>1. /\ pc' = [pc EXCEPT ![r] = "lookup"] /\ seen' = [seen EXCEPT ![r] = version]
        /\ since' = [since EXCEPT ![r] = announced[version]]
        /\ UNCHANGED <<revision, owed, version, announced, cache, route>>
    BY <1>1 DEF ReadVersion
  <2>2. version \in 0 .. version /\ announced[version] \in Nat
    OBVIOUS
  <2>3. CountersOK' /\ EntriesAreFresh'
    BY <2>1, <2>2
  <2>4. VersionsAreFinal'
    BY <2>1
  <2>5. RoutesAreFresh'
    BY <2>1
  <2> QED BY <2>3, <2>4, <2>5
<1>2. CASE ReadVersionFails(r)
  <2>1. /\ pc' = [pc EXCEPT ![r] = "lookup"] /\ seen' = [seen EXCEPT ![r] = 0]
        /\ since' = [since EXCEPT ![r] = 0]
        /\ UNCHANGED <<revision, owed, version, announced, cache, route>>
    BY <1>2 DEF ReadVersionFails
  <2>2. CountersOK' /\ EntriesAreFresh'
    BY <2>1
  <2>3. VersionsAreFinal'
    BY <2>1
  <2>4. RoutesAreFresh'
    BY <2>1
  <2> QED BY <2>2, <2>3, <2>4
<1>3. CASE ReadRouteCache(r)
  <2>1. seen[r] \in DOMAIN cache
    OBVIOUS
  <2>2. pc'[r] = "filter" => /\ route'[r] = cache[seen[r]] /\ cache[seen[r]] # NoRoute
                             /\ cache[seen[r]].creators
    BY <1>3 DEF ReadRouteCache, RouteCacheCarriesCreator
  <2>3. RoutesAreFresh'
    BY <1>3, <2>1, <2>2 DEF ReadRouteCache
  <2> QED BY <1>3, <2>3 DEF ReadRouteCache
<1>4. CASE Resolve(r)
  <2>1. RouteStatic.revision = revision /\ RouteStatic.creators = TRUE
    BY DEF RouteStatic
  <2>2. /\ pc' = [pc EXCEPT ![r] = "store"] /\ route' = [route EXCEPT ![r] = RouteStatic]
        /\ UNCHANGED <<revision, owed, version, announced, cache, seen, since>>
    BY <1>4 DEF Resolve
  <2>3. since[r] <= revision /\ revision \in Nat
    BY SeenIsReached
  <2>4. ASSUME NEW q \in RoutedRequests, pc'[q] \in Routed
        PROVE  route'[q].creators = TRUE /\ route'[q].revision \in Nat /\ route'[q].revision >= since'[q]
    <3>1. CASE q = r
      BY <2>1, <2>2, <2>3, <3>1
    <3>2. CASE q # r
      BY <2>2, <2>4, <3>2
    <3> QED BY <3>1, <3>2
  <2>5. CountersOK' /\ VersionsAreFinal' /\ EntriesAreFresh'
    BY <2>2
  <2> QED BY <2>4, <2>5
<1>5. CASE WriteRouteCache(r)
  <2>1. /\ pc[r] = "store" /\ pc' = [pc EXCEPT ![r] = "filter"]
        /\ UNCHANGED <<revision, owed, version, announced, seen, since, route>>
        /\ cache' = cache \/ cache' = [cache EXCEPT ![seen[r]] = route[r]]
    BY <1>5 DEF WriteRouteCache
  <2>2. /\ route[r].creators = TRUE /\ route[r].revision \in Nat
        /\ route[r].revision >= announced[seen[r]] /\ seen[r] \in 0 .. version
    BY <2>1, SeenIsReached
  <2>3. ASSUME NEW v \in DOMAIN cache', cache'[v] # NoRoute
        PROVE  /\ v <= version'
               /\ cache'[v].creators =>
                    cache'[v].revision \in Nat /\ cache'[v].revision >= announced'[v]
    <3>1. CASE cache'[v] = cache[v]
      BY <2>1, <2>3, <3>1
    <3>2. CASE cache'[v] # cache[v]
      <4>1. v = seen[r] /\ cache'[v] = route[r]
        BY <2>1, <3>2
      <4> QED BY <2>1, <2>2, <4>1
    <3> QED BY <3>1, <3>2
  <2>4. CountersOK'
    BY <2>1
  <2>5. VersionsAreFinal' /\ RoutesAreFresh'
    BY <2>1
  <2> QED BY <2>3, <2>4, <2>5
<1>6. CASE WriteRouteCacheFails(r)
  BY <1>6, PhaseStep DEF WriteRouteCacheFails, Phases, Routed
<1>7. CASE RouteWithPolicy(r)
  <2>1. PICK s \in WeightedOrders(FilterCandidatesByAllowedModels(FilterCandidates(route[r], now))) :
            pc' = [pc EXCEPT ![r] = CASE s = << >> -> "refused"
                                      [] ConversationKey(r) = << >> -> "routed"
                                      [] OTHER -> "affinity"]
    BY <1>7 DEF RouteWithPolicy
  <2> DEFINE p == CASE s = << >> -> "refused"
                    [] ConversationKey(r) = << >> -> "routed"
                    [] OTHER -> "affinity"
  <2>2. p \in {"refused", "routed", "affinity"}
    BY ThreeWays
  <2>3. pc' = [pc EXCEPT ![r] = p]
    BY <2>1, Zenon
  <2> HIDE DEF p
  <2> QED BY <1>7, <2>2, <2>3, PhaseStep DEF RouteWithPolicy, Phases, Routed
<1>8. CASE ReadConversationChannelAffinity(r)
  <2>1. pc' = [pc EXCEPT ![r] = "pin"] \/ pc' = [pc EXCEPT ![r] = "routed"]
    BY <1>8 DEF ReadConversationChannelAffinity
  <2> QED BY <1>8, <2>1, PhaseStep DEF ReadConversationChannelAffinity, Phases, Routed
<1>9. CASE WriteConversationChannelAffinity(r)
  BY <1>9, PhaseStep DEF WriteConversationChannelAffinity, Phases, Routed
<1>10. CASE NextRequest(r)
  <2>1. /\ pc' = [pc EXCEPT ![r] = "start"] /\ seen' = [seen EXCEPT ![r] = 0]
        /\ since' = [since EXCEPT ![r] = 0] /\ route' = [route EXCEPT ![r] = NoRoute]
        /\ UNCHANGED <<revision, owed, version, announced, cache>>
    BY <1>10 DEF NextRequest
  <2>2. CountersOK' /\ EntriesAreFresh'
    BY <2>1
  <2>3. VersionsAreFinal'
    BY <2>1
  <2>4. RoutesAreFresh'
    BY <2>1
  <2> QED BY <2>2, <2>3, <2>4
<1> QED BY <1>1, <1>2, <1>3, <1>4, <1>5, <1>6, <1>7, <1>8, <1>9, <1>10

\* The invariant of the route cache, in every behaviour (routeCached, invalidateRoutes).
THEOREM RoutingSafe == RoutingSpec => []RoutingInv
<1>1. RoutingInv /\ [RoutingStep]_routingVars => RoutingInv'
  BY WritersKeepRouting, RequestKeepsRouting DEF RoutingStep
<1> QED BY <1>1, RoutingStarts, PTL DEF RoutingSpec

\* A request that starts after a write was announced is routed by that write or a later
\* one (route_cache.go:85).
THEOREM RoutesFollowWrites == RoutingSpec => []FreshRoute
<1>1. RoutingInv => FreshRoute
  BY DEF RoutingInv, RoutesAreFresh, FreshRoute, Routed
<1> QED BY <1>1, RoutingSafe, PTL

\* An entry stored late under an old version is still as new as that version
\* (route_cache.go:99).
THEOREM EntriesAreAsNewAsTheirVersion == RoutingSpec => []EntriesFollowTheirVersion
<1>1. RoutingInv => EntriesFollowTheirVersion
  BY DEF RoutingInv, EntriesAreFresh, EntriesFollowTheirVersion, RouteCacheCarriesCreator
<1> QED BY <1>1, RoutingSafe, PTL
-----------------------------------------------------------------------------
(* Who answers a chat request (module RelayStream).                         *)

ResultFields == {"status", "wrote", "writerFailed", "completed", "error", "timedOut", "visible",
                 "usage", "handled"}

\* A result whose flags mean something.
Flagged(res) == /\ DOMAIN res = ResultFields
                /\ res.wrote \in BOOLEAN /\ res.handled \in BOOLEAN /\ res.writerFailed \in BOOLEAN

\* Whoever the client has heard is the attempt in use; it is marked as having written
\* until the request is done, and a verdict on it is that it was handled.
AnswerInv ==
    /\ Flagged(result)
    /\ senders \subseteq {at}
    /\ senders # {} => result.wrote \/ phase = "done"
    /\ result.wrote => request.stream /\ phase # "sent"
    /\ result.wrote /\ phase = "judge" => result.handled

\* What a client may have after this attempt wrote to it, or did not.
Heard(w) == /\ Flagged(w.result)
            /\ w.senders \subseteq {at}
            /\ w.senders # {} => w.result.wrote

LEMMA Written ==
    ASSUME NEW w, Heard(w), NEW lines, NEW n, n > 0 \/ n = 0
    PROVE  /\ Heard(Write(w, lines, n))
           /\ Write(w, lines, n).result.wrote = (w.result.wrote \/ n > 0)
           /\ Write(w, lines, n).result.handled = w.result.handled
<1> DEFINE broken == w.result.writerFailed \/ n < Len(lines)
           res == [w.result EXCEPT !.wrote = @ \/ n > 0, !.writerFailed = broken]
<1>1. /\ Write(w, lines, n).result = res
      /\ Write(w, lines, n).senders = IF n = 0 THEN w.senders ELSE w.senders \cup {at}
  BY DEF Write
<1>a. broken \in BOOLEAN
  OBVIOUS
<1> HIDE DEF broken
<1>2. /\ DOMAIN res = ResultFields /\ res.wrote = (w.result.wrote \/ n > 0)
      /\ res.handled = w.result.handled /\ res.writerFailed = broken
  BY DEF Heard, Flagged, ResultFields
<1> HIDE DEF res
<1> QED BY <1>1, <1>a, <1>2 DEF Heard, Flagged

\* The explicit end is written only after something else was (TerminateTruncated).
Ends(t, w) == \/ t = w
              \/ w.result.wrote /\ \E lines : t = Write(w, lines, Len(lines))

LEMMA Terminated ==
    ASSUME NEW w, Heard(w), NEW t, Ends(t, w)
    PROVE  Heard(t) /\ t.result.wrote = w.result.wrote /\ t.result.handled = w.result.handled
<1>1. ASSUME w.result.wrote, NEW lines
      PROVE  /\ Heard(Write(w, lines, Len(lines)))
             /\ Write(w, lines, Len(lines)).result.wrote = w.result.wrote
             /\ Write(w, lines, Len(lines)).result.handled = w.result.handled
  <2> DEFINE n == Len(lines)
             broken == w.result.writerFailed \/ n < Len(lines)
             more == w.result.wrote \/ n > 0
             res == [w.result EXCEPT !.wrote = more, !.writerFailed = broken]
  <2>1. more = TRUE
    BY <1>1
  <2>2. /\ Write(w, lines, n).result = res
        /\ Write(w, lines, n).senders \subseteq w.senders \cup {at}
    BY DEF Write
  <2>a. broken \in BOOLEAN
    OBVIOUS
  <2> HIDE DEF broken, more, n
  <2>3. /\ DOMAIN res = ResultFields /\ res.wrote = TRUE /\ res.handled = w.result.handled
        /\ res.writerFailed = broken
    BY <2>1 DEF Heard, Flagged, ResultFields
  <2> HIDE DEF res
  <2>4. /\ Heard(Write(w, lines, n))
        /\ Write(w, lines, n).result.wrote = w.result.wrote
        /\ Write(w, lines, n).result.handled = w.result.handled
    BY <1>1, <2>2, <2>a, <2>3 DEF Heard, Flagged
  <2> QED BY <2>4 DEF n
<1> QED BY <1>1 DEF Ends

LEMMA AnswerStarts == StartStream => AnswerInv
BY DEF StartStream, AnswerInv, Flagged, NewResult, ResultFields

\* A new call of an upstream, while the client has heard nobody.
LEMMA CallStarts ==
    ASSUME senders = {}, UNCHANGED senders, NEW channel, NEW hop, NEW p, Start(channel, hop, p)
    PROVE  AnswerInv'
BY DEF Start, AnswerInv, Flagged, NewResult, ResultFields

\* An attempt that hands its result on for a verdict.
LEMMA Verdict ==
    ASSUME NEW w, Heard(w), w.result.wrote => request.stream /\ w.result.handled,
           result' = w.result, senders' = w.senders, phase' = "judge", UNCHANGED <<request, at>>
    PROVE  AnswerInv'
<1>1. /\ result'.wrote = w.result.wrote /\ result'.handled = w.result.handled
      /\ Flagged(result')
  BY DEF Heard
<1> QED BY <1>1 DEF AnswerInv, Heard, Flagged

LEMMA Connected ==
    ASSUME AnswerInv, phase # "done", NEW res, Flagged(res), res.wrote = result.wrote
    PROVE  Heard(Connection(res)) /\ Connection(res).result = res
BY DEF AnswerInv, Heard, Connection

\* The upstream's status, or none.
LEMMA AnswerArrives ==
    ASSUME AnswerInv, NEW status, DoStreamRequest(status)
    PROVE  AnswerInv'
<1> DEFINE code == IF status = TimedOut THEN 0 ELSE status
           failed == status # 200
           late == status = TimedOut
           res == [result EXCEPT !.status = code, !.error = failed, !.timedOut = late]
<1>1. /\ phase = "sent" /\ UNCHANGED <<request, at, senders>>
      /\ phase' \in {"reading", "judge"} /\ result' = res
  BY DEF DoStreamRequest
<1> HIDE DEF code, failed, late
<1>2. Flagged(res) /\ res.wrote = result.wrote /\ res.handled = result.handled
  BY DEF AnswerInv, Flagged, ResultFields
<1> HIDE DEF res
<1> QED BY <1>1, <1>2 DEF AnswerInv

\* A line that ends the attempt: what was written stands, and is the client's answer.
LEMMA LineAborts ==
    ASSUME AnswerInv, phase = "reading", request.stream, UNCHANGED <<request, at>>,
           NEW h, Abort(result, h)
    PROVE  AnswerInv'
<1>1. PICK w : /\ w = TerminateTruncated(Connection(result), h, FALSE)
               /\ result' = [w.result EXCEPT !.error = TRUE, !.status = 502, !.handled = result.wrote]
               /\ senders' = w.senders /\ phase' = "judge"
  BY DEF Abort
<1> DEFINE written == result.wrote
           res == [w.result EXCEPT !.error = TRUE, !.status = 502, !.handled = written]
<1>2. Heard(Connection(result)) /\ Connection(result).result = result
  BY Connected DEF AnswerInv
<1>3. Heard(w) /\ w.result.wrote = written
  <2>1. w = TerminateTruncated(Connection(result), h, FALSE)
    BY <1>1
  <2>2. Ends(w, Connection(result))
    BY <2>1 DEF TerminateTruncated, Ends
  <2> QED BY <1>2, <2>2, Terminated
<1>4. result' = res
  BY <1>1
<1>4a. written \in BOOLEAN /\ (written => request.stream)
  BY DEF AnswerInv, Flagged
<1> HIDE DEF written
<1>5. /\ Flagged(res) /\ res.wrote = w.result.wrote /\ res.handled = written
  BY <1>3, <1>4a DEF Heard, Flagged, ResultFields
<1> HIDE DEF res
<1>6. Flagged(result') /\ senders' \subseteq {at} /\ (senders' # {} => result'.wrote)
  BY <1>1, <1>3, <1>4, <1>5 DEF Heard
<1>7. result'.wrote => request.stream /\ result'.handled
  BY <1>3, <1>4, <1>4a, <1>5
<1> QED BY <1>1, <1>6, <1>7 DEF AnswerInv

\* A line that goes on to the client, or is held back.
LEMMA LineForwarded ==
    ASSUME AnswerInv, phase = "reading", request.stream, UNCHANGED <<request, at>>,
           NEW lines, NEW n \in 0 .. 12, Forward(lines, n)
    PROVE  AnswerInv'
<1> DEFINE visible == \E j \in DOMAIN lines : StreamPayloadHasVisibleOutput(lines[j])
           usage == \E j \in DOMAIN lines : lines[j].u
           completed == \E j \in DOMAIN lines : CaptureCompleted(lines[j])
           Open(out) == out # <<>> /\ (committed \/ visible \/ Len(pending \o out) > MaxPending)
           Batch(out) == IF Open(out) THEN pending \o out ELSE <<>>
           noted == [result EXCEPT !.visible = @ \/ visible, !.usage = @ \/ usage,
                                   !.completed = @ \/ completed]
<1>1. PICK out : \E w \in {Write(Connection(noted), Batch(out), n)} :
          /\ result' = [w.result EXCEPT !.handled = w.result.writerFailed,
                                        !.error = w.result.error \/ w.result.writerFailed]
          /\ senders' = w.senders
          /\ phase' = IF w.result.writerFailed THEN "judge" ELSE "reading"
  BY Zenon DEF Forward
<1> DEFINE w == Write(Connection(noted), Batch(out), n)
           broke == w.result.writerFailed
           failed == w.result.error \/ broke
           res == [w.result EXCEPT !.handled = broke, !.error = failed]
<1>1a. result' = res
  <2> HIDE DEF Batch, visible, usage, completed, noted
  <2> QED BY <1>1
<1>1b. senders' = w.senders /\ phase' = IF broke THEN "judge" ELSE "reading"
  BY <1>1
<1> HIDE DEF Batch, visible, usage, completed, failed
<1>2. Flagged(noted) /\ noted.wrote = result.wrote
  BY DEF AnswerInv, Flagged, ResultFields
<1> HIDE DEF noted
<1>3. Heard(w)
  BY <1>2, Connected, Written
<1>4. broke \in BOOLEAN
  BY <1>3 DEF Heard, Flagged
<1> HIDE DEF w, broke
<1>5. /\ Flagged(res) /\ res.wrote = w.result.wrote /\ res.handled = broke
  BY <1>3, <1>4 DEF Heard, Flagged, ResultFields
<1> HIDE DEF res
<1>6. Flagged(result') /\ senders' \subseteq {at} /\ (senders' # {} => result'.wrote)
  BY <1>1a, <1>1b, <1>3, <1>5 DEF Heard
<1>7. phase' \in {"judge", "reading"} /\ (phase' = "judge" => result'.handled)
  BY <1>1a, <1>1b, <1>4, <1>5
<1> QED BY <1>6, <1>7 DEF AnswerInv

\* The line of the loop over the stream is one of the two.
LEMMA LineIsRead ==
    ASSUME AnswerInv, NEW e, NEW n \in 0 .. 12, ReadLine(e, n)
    PROVE  AnswerInv'
<1>1. /\ phase = "reading" /\ request.stream /\ UNCHANGED <<request, at>>
      /\ Abort(result, held) \/ \E line : Forward(line, n)
  BY DEF ReadLine
<1>2. CASE Abort(result, held)
  BY <1>1, <1>2, LineAborts
<1>3. CASE \E line : Forward(line, n)
  BY <1>1, <1>3, LineForwarded
<1> QED BY <1>1, <1>2, <1>3

\* The end of the stream: only an attempt that wrote nothing, and has nothing left to
\* write, is given up.
LEMMA StreamEnds ==
    ASSUME AnswerInv, NEW err, NEW n \in 0 .. 12, EndOfStream(err, n)
    PROVE  AnswerInv'
<1> DEFINE broken == err # "eof"
           late == err = "timeout"
           res == [result EXCEPT !.error = broken, !.timedOut = late]
<1>1. PICK r : SendLast(err, n, r)
  BY DEF EndOfStream
<1>2. phase = "reading" /\ request.stream /\ phase' = "judge" /\ UNCHANGED <<request, at>>
  BY DEF EndOfStream
<1> DEFINE gaveUp == GaveUp(err, r)
           w == Write(Connection(res), LastLines(err, r), n)
           t == EndCut(w, err)
<1>3. gaveUp => n = 0 /\ ~ result.wrote
  <2>1. n \in {0, Len(LastLines(err, r))}
    BY <1>1 DEF SendLast
  <2> QED BY <2>1 DEF GaveUp, LastLines
<1>3a. gaveUp \in BOOLEAN
  BY DEF GaveUp
<1>4. senders' = t.senders /\ result' = [t.result EXCEPT !.handled = ~ gaveUp]
  BY <1>1, Zenon DEF SendLast
<1> HIDE DEF w
<1>4a. Ends(t, w)
  BY DEF EndCut, TerminateTruncated, Ends
<1> HIDE DEF t
<1>5. broken \in BOOLEAN /\ late \in BOOLEAN
  OBVIOUS
<1> HIDE DEF gaveUp, broken, late
<1>6. Flagged(res) /\ res.wrote = result.wrote
  BY DEF AnswerInv, Flagged, ResultFields
<1> HIDE DEF res
<1>7. Heard(w) /\ w.result.wrote = (result.wrote \/ n > 0)
  BY <1>2, <1>6, Connected, Written DEF w
<1>7a. w.result.wrote => result.wrote \/ n > 0
  BY <1>7
<1>8. Heard(t) /\ t.result.wrote = w.result.wrote
  BY <1>4a, <1>7, Terminated
<1> DEFINE kept == ~ gaveUp
           end == [t.result EXCEPT !.handled = kept]
<1>9. result' = end
  BY <1>4
<1>9a. kept \in BOOLEAN /\ (t.result.wrote => kept)
  <2>1. gaveUp => ~ w.result.wrote
    BY <1>3, <1>7a
  <2> QED BY <1>3a, <1>8, <2>1
<1> HIDE DEF kept
<1>10. Flagged(end) /\ end.wrote = t.result.wrote /\ end.handled = kept
  BY <1>8, <1>9a DEF Heard, Flagged, ResultFields
<1> HIDE DEF end
<1> QED BY <1>2, <1>4, <1>8, <1>9, <1>9a, <1>10 DEF AnswerInv, Heard

\* An answer that is not streamed is kept until the verdict.
LEMMA AnswerIsBuffered ==
    ASSUME AnswerInv, phase = "reading", ~ request.stream, NEW view, NEW usage,
           Buffered(view, usage)
    PROVE  AnswerInv'
<1> DEFINE bad == InspectBufferedMarkup(view.text) \/ EmptyCompletion(view.text, view.calls)
           status == IF bad THEN 502 ELSE 200
           good == ~ bad
           res == [result EXCEPT !.status = status, !.error = bad, !.completed = good,
                                 !.usage = usage]
<1>1. result' = res /\ phase' = "judge" /\ UNCHANGED <<request, at, senders>>
  BY DEF Buffered
<1> HIDE DEF bad, status, good
<1>2. Flagged(res) /\ res.wrote = result.wrote
  BY DEF AnswerInv, Flagged, ResultFields
<1> HIDE DEF res
<1> QED BY <1>1, <1>2 DEF AnswerInv

LEMMA StreamStepKeepsAnswer == AnswerInv /\ [StreamStep]_streamVars => AnswerInv'
<1> SUFFICES ASSUME AnswerInv, [StreamStep]_streamVars PROVE AnswerInv'
  OBVIOUS
<1>1. CASE \E status \in Statuses : DoStreamRequest(status)
  BY <1>1, AnswerArrives
<1>2. CASE \E e \in UpstreamEvents, n \in 0 .. 12 : ReadLine(e, n)
  BY <1>2, LineIsRead
<1>3. CASE \E err \in {"eof", "timeout", "broken", "cancelled"}, n \in 0 .. 12 : EndOfStream(err, n)
  BY <1>3, StreamEnds
<1>4. CASE \E x \in Bodies, usage \in BOOLEAN : ReadAll(x, usage)
  <2>1. PICK x, usage : /\ phase = "reading" /\ ~ request.stream
                        /\ Buffered([text |-> x, calls |-> {}], usage)
    BY <1>4 DEF ReadAll
  <2> QED BY <2>1, AnswerIsBuffered
<1>5. CASE \E e \in ChatEvents : ReadForced(e)
  <2>1. UNCHANGED <<request, at, phase, result, senders>>
    BY <1>5 DEF ReadForced
  <2> QED BY <2>1 DEF AnswerInv
<1>6. CASE EndForced
  <2>1. PICK view, usage : phase = "reading" /\ ~ request.stream /\ Buffered(view, usage)
    BY <1>6, Zenon DEF EndForced, ForcedStream
  <2> QED BY <2>1, AnswerIsBuffered
<1>7. CASE FallBack
  <2>1. PICK channel, hop, p : Start(channel, hop, p)
    BY <1>7 DEF FallBack
  <2>2. phase = "judge" /\ ~ result.handled /\ UNCHANGED senders
    BY <1>7 DEF FallBack, FallsBack
  <2>3. senders = {}
    BY <2>2 DEF AnswerInv
  <2> QED BY <2>1, <2>2, <2>3, CallStarts
<1>8. CASE Answered
  <2>1. /\ phase = "judge" /\ phase' = "done" /\ UNCHANGED <<request, at, result>>
        /\ senders' = senders \/ senders' = senders \cup {at}
    BY <1>8 DEF Answered
  <2> QED BY <2>1 DEF AnswerInv
<1>9. CASE TryNext
  <2>1. PICK channel, hop, p : Start(channel, hop, p)
    BY <1>9 DEF TryNext
  <2>2. phase = "judge" /\ ~ result.wrote /\ UNCHANGED senders
    BY <1>9 DEF TryNext, AttemptIsCompleted
  <2>3. senders = {}
    BY <2>2 DEF AnswerInv
  <2> QED BY <2>1, <2>2, <2>3, CallStarts
<1>10. CASE Failed
  <2>1. phase = "judge" /\ phase' = "done" /\ UNCHANGED <<request, at, result, senders>>
    BY <1>10 DEF Failed
  <2> QED BY <2>1 DEF AnswerInv
<1>11. CASE UNCHANGED streamVars
  <2>1. UNCHANGED <<request, at, phase, result, senders>>
    BY <1>11 DEF streamVars
  <2> QED BY <2>1 DEF AnswerInv
<1> QED BY <1>1, <1>2, <1>3, <1>4, <1>5, <1>6, <1>7, <1>8, <1>9, <1>10, <1>11 DEF StreamStep

\* Whoever the client has heard is the attempt in use, in every behaviour: a verdict
\* hands the request to another attempt only before anything was written
\* (protocol_attempt.go, attempt_outcome.go).
THEOREM AnswerComesFromTheAttempt == StreamSpec => []AnswerInv
BY AnswerStarts, StreamStepKeepsAnswer, PTL DEF StreamSpec

\* A client never receives a piece of two upstreams' answers, whatever they send, where
\* they break off and how often the request is handed on (protocol_attempt.go,
\* attempt_outcome.go).
THEOREM OneAttemptAnswers == StreamSpec => []OneUpstreamAnswers
<1>1. AnswerInv => OneUpstreamAnswers
  <2> SUFFICES ASSUME AnswerInv PROVE OneUpstreamAnswers
    OBVIOUS
  <2>1. senders = {} \/ senders = {at}
    BY DEF AnswerInv
  <2>2. Cardinality({}) = 0 /\ Cardinality({at}) = 1
    BY FS_EmptySet, FS_Singleton
  <2> QED BY <2>1, <2>2 DEF OneUpstreamAnswers
<1> QED BY <1>1, AnswerComesFromTheAttempt, PTL
=============================================================================
