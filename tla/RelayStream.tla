----------------------------- MODULE RelayStream -----------------------------
(***************************************************************************)
(* One call of an upstream for a chat request, src/internal/logic/relay/   *)
(* protocol_attempt.go: the choice of the upstream's protocol, the request *)
(* under its time limits (timeout.go), and the answer, which passes line   *)
(* by line through the guard against leaked markup (content_guard.go), the *)
(* detection of errors in the stream (stream_failure.go), the conversion   *)
(* (StreamConverter), the restoring of redacted values (sensitive_data_    *)
(* restore.go) and the holding back of lines until one has visible output. *)
(* RelayRequest has the loop over candidates and keys around it, of which  *)
(* only "the next candidate" is left here.                                 *)
(*                                                                         *)
(* Text is a sequence of symbols: "t" ordinary text, "w" white space, "m"  *)
(* and "k" the two halves of a leaked mark, "p" and "q" the two halves of  *)
(* a placeholder that stands for the redacted value "S".                   *)
(***************************************************************************)
EXTENDS StreamConverter, FiniteSets

CONSTANTS
    Scenarios,  \* the requests and channel configurations a run looks at
    ArgsOf,     \* the arguments of each tool call, in its order of index
    MaxEvents,  \* bound: the lines an upstream sends before its stream ends
    MaxPending, \* the lines held back before visible output (1 MiB in the code)
    ProbeLimit  \* the symbols the guard holds back (24 bytes in the code)

ASSUME StreamAssumption ==
    /\ MaxEvents \in Nat /\ MaxPending \in Nat /\ ProbeLimit \in Nat
    /\ \A s \in Scenarios : s.endpoint \in {"chat", "responses", "embeddings"} /\ s.channels # <<>>

VARIABLES
    request,    \* the scenario: endpoint, stream, redacted, notice, words, channels
    at,         \* the candidate in use, and whether its second protocol is tried
    plan,       \* the protocols of client and upstream
    phase,
    up,         \* what the upstream has said so far
    guard, converter, held,     \* the stages of the pipeline
    pending, committed,         \* lines held back before the first visible output
    result,     \* attemptResult
    client,     \* what the client has received
    senders     \* the calls of an upstream it has received anything from

streamVars == <<request, at, plan, phase, up, guard, converter, held, pending, committed, result, client, senders>>

Tools == DOMAIN ArgsOf
NoText == [text |-> <<>>, reason |-> <<>>, args |-> [i \in Tools |-> <<>>]]
NewUpstream == [said |-> NoText, tool |-> [i \in Tools |-> "new"], left |-> MaxEvents,
                ended |-> FALSE, body |-> <<>>]
NewResult == [status |-> 0, wrote |-> FALSE, writerFailed |-> FALSE, completed |-> FALSE,
              error |-> FALSE, timedOut |-> FALSE, visible |-> FALSE, usage |-> FALSE,
              handled |-> FALSE]
NewGuard == [state |-> "idle", buffer |-> <<>>]
NewClient == [text |-> <<>>, reason |-> <<>>, args |-> [i \in 0 .. 5 |-> <<>>],
              names |-> [i \in 0 .. 5 |-> 0], final |-> <<>>, ends |-> 0, errors |-> 0]

-----------------------------------------------------------------------------
(* The protocol of the upstream. *)

DirectPlan(endpoint) == [client |-> endpoint, upstream |-> endpoint, conversion |-> ""]
Convert(endpoint, upstream, conversion) ==
    [client |-> endpoint, upstream |-> upstream, conversion |-> conversion]
Converting(p) == p.conversion # ""

\* The other OpenAI protocol.
FallbackPlan(endpoint) ==
    IF endpoint = "chat" THEN Convert("chat", "responses", "chat_to_responses")
    ELSE Convert("responses", "chat", "responses_to_chat")

PreferredChatCompletionsPlan(endpoint) ==
    IF endpoint = "responses" THEN FallbackPlan(endpoint) ELSE DirectPlan(endpoint)
PreferredResponsesPlan(endpoint) ==
    IF endpoint = "chat" THEN FallbackPlan(endpoint) ELSE DirectPlan(endpoint)
PreferredAnthropicPlan(endpoint) ==
    Convert(endpoint, "messages",
            IF endpoint = "responses" THEN "responses_to_anthropic" ELSE "chat_to_anthropic")

\* By the model's name: gpt models speak Responses, the others Chat.
PreferredPlan(endpoint, gpt) ==
    IF (endpoint = "chat" /\ gpt) \/ (endpoint = "responses" /\ ~gpt)
    THEN FallbackPlan(endpoint) ELSE DirectPlan(endpoint)

\* A channel's configuration is [convert, kind, gpt, streamOnly].
PreferredProtocolPlan(endpoint, c) ==
    CASE ~c.convert \/ endpoint \notin {"chat", "responses"} -> DirectPlan(endpoint)
      [] c.kind = "chatOnly" -> PreferredChatCompletionsPlan(endpoint)
      [] c.kind = "messages" -> PreferredAnthropicPlan(endpoint)
      [] c.kind = "responses" -> PreferredResponsesPlan(endpoint)
      [] OTHER -> PreferredPlan(endpoint, c.gpt)

\* The second protocol to try: direct after a conversion, else the other one.
AlternatePlan(endpoint, primary) ==
    IF Converting(primary) THEN DirectPlan(endpoint) ELSE FallbackPlan(endpoint)
HasAlternate(endpoint, primary) == Converting(primary) \/ endpoint \in {"chat", "responses"}

Candidate == request.channels[at.channel]

\* A client that wants no stream is served from one where the channel type allows
\* nothing else.
ForcedStream == ~request.stream /\ plan.upstream = "chat" /\ Candidate.streamOnly

-----------------------------------------------------------------------------
(* The guard: the first text decides, once. *)

Trim(x) == LET dark == {j \in DOMAIN x : x[j] # "w"}
           IN IF dark = {} THEN <<>>
              ELSE SubSeq(x, CHOOSE j \in dark : \A l \in dark : j <= l, Len(x))

ClassifyGuardPrefix(x) ==
    LET text == Trim(x)
    IN CASE text = <<>> -> "undecided"
         [] IsPrefix(<<"m", "k">>, text) -> "markup"
         [] IsPrefix(text, <<"m", "k">>) -> "undecided"
         [] OTHER -> "none"

\* The guard after a line, the line to forward (or none) and whether it is rejected.
Seen(g, line, leak) == [guard |-> g, line |-> line, leak |-> leak]
DoneGuard == [state |-> "done", buffer |-> <<>>]
Reject == Seen(DoneGuard, <<>>, TRUE)

\* Bug: the guard forgets that it has released what it held.
MutProbe(buffer) ==
    IF ClassifyGuardPrefix(buffer) = "markup" THEN Reject
    ELSE Seen([state |-> "probing", buffer |-> buffer],
              IF ClassifyGuardPrefix(buffer) = "none" THEN <<Event("text", buffer)>> ELSE <<>>, FALSE)

\* In the window: reject, release everything as one line, or wait.
Probe(buffer) ==
    LET verdict == ClassifyGuardPrefix(buffer)
    IN CASE verdict = "markup" -> Reject
         [] verdict = "none" \/ Len(buffer) > ProbeLimit ->
              Seen(DoneGuard, <<Event("text", buffer)>>, FALSE)
         [] OTHER -> Seen([state |-> "probing", buffer |-> buffer], <<>>, FALSE)

\* Bug: the text held when a tool call arrives is dropped.
MutSettleToolCall(g, e) ==
    IF g.state = "probing" /\ ClassifyGuardPrefix(g.buffer) = "markup" THEN Reject
    ELSE Seen(DoneGuard, <<e>>, FALSE)

\* A tool call ends the text: what is held goes out with it.
SettleToolCall(g, e) ==
    IF g.state # "probing" THEN Seen(DoneGuard, <<e>>, FALSE)
    ELSE IF ClassifyGuardPrefix(g.buffer) = "markup" THEN Reject
    ELSE Seen(DoneGuard, <<Event("text", g.buffer), e>>, FALSE)

Observe(g, e) ==
    CASE plan.upstream # "chat" \/ g.state = "done" -> Seen(g, <<e>>, FALSE)
      [] e.k = "tool" -> SettleToolCall(g, e)
      [] e.k = "text" /\ e.x # <<>> /\ g.state = "idle" /\ ClassifyGuardPrefix(e.x) = "none" ->
           Seen(DoneGuard, <<e>>, FALSE)
      [] e.k = "text" /\ e.x # <<>> -> Probe(g.buffer \o e.x)
      [] OTHER -> Seen(g, <<e>>, FALSE)

-----------------------------------------------------------------------------
(* Restoring redacted values in what the client receives. *)

Restore(x) ==
    FoldLeft(LAMBDA acc, y : IF y = "q" /\ acc # <<>> /\ Last(acc) = "p"
                             THEN Append(Front(acc), "S") ELSE Append(acc, y), <<>>, x)

\* The end of the text that may be the start of a placeholder.
PlaceholderPrefixSuffix(x) == IF x # <<>> /\ Last(x) = "p" THEN <<"p">> ELSE <<>>

\* Lines a converter writes for Responses clients start with "event:" and are not
\* recognised as data lines; without redacted values there is no restorer.
Unparsed(e) == ~request.redacted \/ e.k = "noise"
                  \/ (Converting(plan) /\ plan.client = "responses")

\* Event types end in "delta", and "a" is how every placeholder begins: the restorer
\* takes it from the type of these events too.
Mangle(e) == IF plan.client = "responses" /\ e.k \in {"r.text", "r.reason", "args"}
             THEN [e EXCEPT !.k = "mangled"] ELSE e

IsSensitiveStreamTerminal(e) == e.k \in {"completed", "argsDone"}

\* What is held back, in the order in which its fields were first seen.
FlushPending(h) ==
    LET some == SelectSeq(h, LAMBDA e : e.x # <<>>)
    IN [j \in DOMAIN some |-> Mangle(some[j])]

\* The place of a field among what is held, the end if it has none yet.
PlaceOf(h, e) == IF \E j \in DOMAIN h : h[j].k = e.k
                 THEN CHOOSE j \in DOMAIN h : h[j].k = e.k ELSE Len(h) + 1

Keep(h, j, kept) == IF j \in DOMAIN h THEN [h EXCEPT ![j] = kept]
                    ELSE IF kept.x = <<>> THEN h ELSE Append(h, kept)

\* What a line shows of the text of its field, and what it leaves held.
Show(h, j, e, text, tail) ==
    [held |-> Keep(h, j, [e EXCEPT !.x = tail]),
     shown |-> Mangle([e EXCEPT !.x = SubSeq(text, 1, Len(text) - Len(tail))])]

ShowText(h, j, e, text) == Show(h, j, e, text, PlaceholderPrefixSuffix(text))

ShowAt(h, j, e) == ShowText(h, j, e, Restore((IF j \in DOMAIN h THEN h[j].x ELSE <<>>) \o e.x))

Shown(s, terminal) ==
    IF terminal THEN [held |-> <<>>, out |-> FlushPending(s.held) \o <<s.shown>>]
    ELSE [held |-> s.held, out |-> <<s.shown>>]

RestoreSSELine(h, e) ==
    CASE Unparsed(e) -> [held |-> h, out |-> <<e>>]
      [] ~Unparsed(e) /\ e.k = "DONE" -> [held |-> <<>>, out |-> FlushPending(h) \o <<e>>]
      [] ~Unparsed(e) /\ e.k # "DONE" /\ e.x = <<>> /\ ~IsSensitiveStreamTerminal(e) ->
           [held |-> h, out |-> <<e>>]
      [] OTHER -> Shown(ShowAt(h, PlaceOf(h, e), e), IsSensitiveStreamTerminal(e))

After(acc, r) == [held |-> r.held, out |-> acc.out \o r.out]

RestoreAll(h, lines) ==
    FoldLeft(LAMBDA acc, e : After(acc, RestoreSSELine(acc.held, e)),
             [held |-> h, out |-> <<>>], lines)

-----------------------------------------------------------------------------
(* What lines mean. *)

Dark(x) == Trim(x) # <<>>

StreamPayloadHasVisibleOutput(e) ==
    \/ e.k \in {"tool", "added"}
    \/ /\ e.k \in {"text", "reason", "r.text", "r.reason", "args", "text_delta",
                   "thinking_delta", "input_json"}
       /\ Dark(e.x)

\* An error object, an error event, or a response that failed.
ParseStreamFailure(e) == e.k \in {"fail", "failed"}

\* The upstream's end mark, as the capture of the answer knows it.
CaptureCompleted(e) == e.k = "DONE" \/ (plan.upstream = "responses" /\ e.k = "completed")

Accept(view, e) ==
    CASE e.k \in {"text", "r.text"} -> [view EXCEPT !.text = @ \o e.x]
      [] e.k \in {"reason", "r.reason"} -> [view EXCEPT !.reason = @ \o e.x]
      [] e.k \in {"tool", "added"} ->
           [view EXCEPT !.args[e.i] = IF e.k = "tool" THEN @ \o e.x ELSE IF e.x = <<>> THEN @ ELSE e.x,
                        !.names[e.i] = @ + (IF e.n THEN 1 ELSE 0)]
      [] e.k = "args" -> [view EXCEPT !.args[e.i] = @ \o e.x]
      [] e.k = "argsDone" -> [view EXCEPT !.args[e.i] = IF IsPrefix(@, e.x) THEN e.x ELSE @]
      [] e.k \in {"DONE", "completed"} -> [view EXCEPT !.ends = @ + 1, !.final = e.x]
      [] e.k = "error" -> [view EXCEPT !.errors = @ + 1]
      [] OTHER -> view

\* The connection to the client, with the result of the call that may write to it.
Connection(res) == [result |-> res, client |-> client, senders |-> senders]

\* writeOutput for each line; the connection may break before line n + 1.
Write(w, lines, n) ==
    [result |-> [w.result EXCEPT !.wrote = @ \/ n > 0, !.writerFailed = @ \/ n < Len(lines)],
     client |-> FoldLeft(Accept, w.client, SubSeq(lines, 1, n)),
     senders |-> IF n = 0 THEN w.senders ELSE w.senders \cup {at}]

StreamTerminalLines ==
    IF plan.client = "responses" THEN <<Event("error", <<>>)>>
    ELSE <<Event("error", <<>>), Event("DONE", <<>>)>>

\* The explicit end of a stream that was cut, where the settings want it.
TerminateTruncated(w, h, cancelled) ==
    IF ~request.notice \/ ~w.result.wrote \/ w.result.writerFailed \/ cancelled THEN w
    ELSE LET lines == FoldLeft(LAMBDA acc, e : acc \o (IF e.k = "error" THEN <<e>>
                                                       ELSE RestoreSSELine(h, e).out),
                               <<>>, StreamTerminalLines)
         IN Write(w, lines, Len(lines))
-----------------------------------------------------------------------------
(* What the upstream may say next. *)

Full(i) == ArgsOf[i]
Given(i) == Len(up.said.args[i])
Part(name, events) == IF name \in request.parts THEN events ELSE {}
Texts(kind) == Part("text", {Event(kind, <<w>>) : w \in request.words})
Usage(e) == {[e EXCEPT !.u = b] : b \in BOOLEAN}
Fragment(kind, i) == [ToolEvent(kind, i, <<Full(i)[Given(i) + 1]>>, FALSE) EXCEPT !.ids = {"item"}]
Fragments(kind) == Part("tools", {Fragment(kind, i) : i \in
                       {j \in Tools : up.tool[j] \in {"open", "nameless"} /\ Given(j) < Len(Full(j))}})

\* A Chat upstream names a call in its first chunk or, rarely, later.
ChatEvents ==
    Texts("text") \cup Part("reason", {Event("reason", <<"t">>)})
    \cup Part("tools", {ToolEvent("tool", i, <<>>, TRUE) :
                           i \in {j \in Tools : up.tool[j] \in {"new", "nameless"}}})
    \cup Part("tools", {ToolEvent("tool", i, <<Full(i)[1]>>, FALSE) :
                           i \in {j \in Tools : up.tool[j] = "new"}})
    \cup Fragments("tool")
    \cup Part("noise", {Event("role", <<>>), Event("noise", <<>>)})
    \cup Usage(Event("finish", <<>>)) \cup {Event("fail", <<>>), Event("DONE", <<>>)}

\* A Responses upstream announces a call with or without its arguments, repeats
\* itself, and names it in later events by the item alone.
ResponsesEvents ==
    Texts("r.text") \cup Part("reason", {Event("r.reason", <<"t">>)})
    \cup Part("tools", {[ToolEvent("added", i, x, TRUE) EXCEPT !.ids = {"item", "call"}] :
                           i \in {j \in Tools : up.tool[j] \in {"new", "open"}}, x \in {<<>>}})
    \cup Part("tools", {[ToolEvent("added", i, Full(i), TRUE) EXCEPT !.ids = {"item", "call"}] :
                           i \in {j \in Tools : up.tool[j] \in {"new", "whole"}}})
    \cup Fragments("args")
    \cup Part("tools", {[ToolEvent("argsDone", i, Full(i), FALSE) EXCEPT !.ids = {id}] :
                           i \in {j \in Tools : up.tool[j] \in {"open", "whole"}},
                           id \in {"item", "call"}})
    \cup Part("noise", {Event("created", <<>>)})
    \cup Usage(Event("completed", up.said.text))
    \cup {Event("incomplete", <<>>), Event("failed", <<>>)}

MessagesEvents ==
    Texts("text_delta") \cup Part("reason", {Event("thinking_delta", <<"t">>)})
    \cup Part("tools", {ToolEvent("tool_use", i, <<>>, TRUE) :
                           i \in {j \in Tools : up.tool[j] \in {"new", "open"}}})
    \cup Fragments("input_json")
    \cup Part("noise", {Event("noise", <<>>)})
    \cup Usage(Event("message_start", <<>>)) \cup {Event("message_delta", <<>>)}
    \cup {Event("message_stop", <<>>), Event("fail", <<>>)}

UpstreamEvents ==
    CASE plan.upstream = "messages" -> MessagesEvents
      [] plan.upstream = "responses" -> ResponsesEvents
      [] OTHER -> ChatEvents

\* The upstream's own account of what it said.
Say(e) ==
    LET given == IF e.k \in {"added", "argsDone"} /\ e.x # <<>> THEN e.x
                 ELSE up.said.args[e.i] \o e.x
        text == e.k \in {"text", "r.text", "text_delta"}
        reason == e.k \in {"reason", "r.reason", "thinking_delta"}
        tool == e.k \in {"tool", "tool_use", "input_json", "added", "args", "argsDone"}
    IN [up EXCEPT !.left = @ - 1,
                  !.ended = e.k \in {"DONE", "completed", "message_stop"},
                  !.said.text = IF text THEN @ \o e.x ELSE @,
                  !.said.reason = IF reason THEN @ \o e.x ELSE @,
                  !.said.args = IF tool THEN [@ EXCEPT ![e.i] = given] ELSE @,
                  !.tool = IF ~tool THEN @
                           ELSE [@ EXCEPT ![e.i] =
                                   IF e.k \in {"added", "argsDone"} /\ e.x # <<>> THEN "whole"
                                   ELSE IF e.n \/ @ = "open" THEN "open" ELSE "nameless"]]

-----------------------------------------------------------------------------
(* The attempt. *)

Start(channel, hop, p) ==
    /\ at' = [channel |-> channel, hop |-> hop]
    /\ plan' = p
    /\ phase' = "sent"
    /\ up' = NewUpstream
    /\ guard' = NewGuard /\ converter' = NewStreamConverter /\ held' = <<>>
    /\ pending' = <<>> /\ committed' = FALSE
    /\ result' = NewResult

StartStream ==
    /\ request \in Scenarios
    /\ at = [channel |-> 1, hop |-> "primary"]
    /\ plan = PreferredProtocolPlan(request.endpoint, request.channels[1])
    /\ phase = "sent"
    /\ up = NewUpstream
    /\ guard = NewGuard /\ converter = NewStreamConverter /\ held = <<>>
    /\ pending = <<>> /\ committed = FALSE
    /\ result = NewResult
    /\ client = NewClient /\ senders = {}

pipeline == <<guard, converter, held, pending, committed>>

\* What a call brings: a status, no answer at all, or the time limit.
NoAnswer == 0
TimedOut == 1

\* doStreamRequest: the answer, the timer and the client's leaving race; without a
\* stream one timer covers the whole answer.
DoStreamRequest(status) ==
    /\ phase = "sent"
    /\ phase' = IF status = 200 THEN "reading" ELSE "judge"
    /\ result' = [result EXCEPT !.status = IF status = TimedOut THEN 0 ELSE status,
                                !.error = status # 200, !.timedOut = status = TimedOut]
    /\ UNCHANGED <<request, at, plan, up, pipeline, client, senders>>

\* The conversion of one line, and the values restored in what it gives.
Converted(lines) ==
    IF ~Converting(plan) THEN Output(converter, lines)
    ELSE FoldLeft(LAMBDA acc, e : Joined(acc, Transform(plan.conversion, acc.c, e)),
                  Output(converter, <<>>), lines)

\* A bad line ends the attempt: in place where output was written, else for the next. The
\* status found in the line is some failure's; 502 stands for any of them.
Abort(res, h) ==
    \E w \in {TerminateTruncated(Connection(res), h, FALSE)} :
      /\ result' = [w.result EXCEPT !.error = TRUE, !.status = 502, !.handled = res.wrote]
      /\ client' = w.client /\ senders' = w.senders
      /\ phase' = "judge"
      /\ held' = IF res.wrote THEN <<>> ELSE h
      /\ UNCHANGED <<converter, pending, committed>>

\* A good line: hold it back until something visible came, or too much is held.
Forward(lines, n) ==
    \E s \in {Converted(lines)} : \E restored \in {RestoreAll(held, s.out)} :
      LET visible == \E j \in DOMAIN lines : StreamPayloadHasVisibleOutput(lines[j])
          open == restored.out # <<>>
                    /\ (committed \/ visible \/ Len(pending \o restored.out) > MaxPending)
          batch == IF open THEN pending \o restored.out ELSE <<>>
          seen == [result EXCEPT !.visible = @ \/ visible,
                                 !.usage = @ \/ \E j \in DOMAIN lines : lines[j].u,
                                 !.completed = @ \/ \E j \in DOMAIN lines : CaptureCompleted(lines[j])]
      IN /\ n \in {0, 1, Len(batch)} /\ n <= Len(batch)
         /\ converter' = s.c /\ held' = restored.held
         /\ committed' = (committed \/ open)
         /\ pending' = IF open THEN <<>> ELSE pending \o restored.out
         /\ \E w \in {Write(Connection(seen), batch, n)} :
              /\ result' = [w.result EXCEPT !.handled = w.result.writerFailed,
                                            !.error = @ \/ w.result.writerFailed]
              /\ client' = w.client /\ senders' = w.senders
              /\ phase' = IF w.result.writerFailed THEN "judge" ELSE "reading"

\* The body of the loop over the lines of a stream.
ReadLine(e, n) ==
    /\ phase = "reading" /\ request.stream
    /\ up.left > 0 /\ ~up.ended
    /\ up' = Say(e)
    /\ \E seen \in {Observe(guard, e)} :
         /\ guard' = seen.guard
         /\ CASE seen.leak -> n = 0 /\ Abort(result, held)
              [] ~seen.leak /\ seen.line # <<>> /\ ParseStreamFailure(e) ->
                   n = 0 /\ Abort(result, held)
              [] OTHER -> Forward(seen.line, n)
    /\ UNCHANGED <<request, at, plan>>

\* The end of the stream first sends what the converter completes with, after what is
\* held back; an attempt that broke off with nothing to send has nothing to show.
FirstLines(restored) == IF restored.out = <<>> THEN <<>> ELSE pending \o restored.out
GaveUp(err, restored) == err # "eof" /\ ~result.wrote /\ FirstLines(restored) = <<>>
LastLines(err, restored) ==
    IF GaveUp(err, restored) THEN <<>>
    ELSE FirstLines(restored)
           \o (IF FirstLines(restored) = <<>> /\ ~result.wrote THEN pending ELSE <<>>)
           \o FlushPending(restored.held)

\* A stream without its end mark was cut.
EndCut(w, err) ==
    IF w.result.wrote /\ ~w.result.completed
    THEN TerminateTruncated(w, <<>>, err = "cancelled") ELSE w

\* The connection may break before the last lines are all written.
SendLast(err, n, restored) ==
    LET batch == LastLines(err, restored)
        res == [result EXCEPT !.error = err # "eof", !.timedOut = err = "timeout"]
    IN /\ n \in {0, Len(batch)} /\ (err = "cancelled" => n = 0)
       /\ \E w \in {EndCut(Write(Connection(res), batch, n), err)} :
            /\ result' = [w.result EXCEPT !.handled = ~GaveUp(err, restored)]
            /\ client' = w.client /\ senders' = w.senders

\* The stream ends: cleanly, by silence, by a broken connection, or because the
\* client left. The converter completes, then what is held is flushed.
EndOfStream(err, n) ==
    /\ phase = "reading" /\ request.stream
    /\ \E s \in {IF Converting(plan) THEN Complete(plan.conversion, converter)
                  ELSE Output(converter, <<>>)} :
       \E restored \in {RestoreAll(held, s.out)} :
         SendLast(err, n, restored) /\ converter' = s.c
    /\ phase' = "judge"
    /\ held' = <<>> /\ pending' = <<>>
    /\ UNCHANGED <<request, at, plan, up, guard, committed>>

-----------------------------------------------------------------------------
(* Answers that are not streamed to the client. *)

\* The pieces of a forced stream, put together; calls of a Chat stream are kept up
\* to the first index that is missing.
AggregateChatCompletionSSE(events) ==
    LET all == FoldLeft(Accept, NewClient, events)
        calls == {e.i : e \in {events[j] : j \in {l \in DOMAIN events : events[l].k = "tool"}}}
    IN [text |-> all.text, reason |-> all.reason,
        args |-> [i \in Tools |-> IF i < Cardinality(calls) THEN all.args[i] ELSE <<>>],
        calls |-> {i \in calls : i < Cardinality(calls)}]

\* A leaked mark at the start, or an answer that is empty after a conversion, is an
\* upstream failure. Of a Responses answer the code looks only whether its list of outputs is
\* empty; here whether it has neither text nor calls.
InspectBufferedMarkup(text) == plan.upstream = "chat" /\ ClassifyGuardPrefix(text) = "markup"
EmptyCompletion(text, calls) ==
    Converting(plan) /\ plan.upstream # "messages" /\ ~Dark(text) /\ calls = {}

Buffered(view, usage) ==
    LET bad == InspectBufferedMarkup(view.text) \/ EmptyCompletion(view.text, view.calls)
    IN /\ phase' = "judge"
       /\ result' = [result EXCEPT !.status = IF bad THEN 502 ELSE 200, !.error = bad,
                                   !.completed = ~bad, !.usage = usage]
       /\ UNCHANGED <<request, at, plan, pipeline, client, senders>>

ReadAll(x, usage) ==
    /\ phase = "reading" /\ ~request.stream /\ ~ForcedStream
    /\ up' = [up EXCEPT !.said.text = x, !.ended = TRUE]
    /\ Buffered([text |-> x, calls |-> {}], usage)

\* The lines of a forced stream are only collected.
ReadForced(e) ==
    /\ phase = "reading" /\ ForcedStream
    /\ up.left > 0 /\ ~up.ended /\ e.k # "fail"
    /\ up' = [Say(e) EXCEPT !.body = Append(@, e)]
    /\ UNCHANGED <<request, at, plan, phase, pipeline, result, client, senders>>

EndForced ==
    /\ phase = "reading" /\ ForcedStream
    /\ up.body # <<>>
    /\ Buffered(AggregateChatCompletionSSE(up.body), \E j \in DOMAIN up.body : up.body[j].u)
    /\ UNCHANGED up

-----------------------------------------------------------------------------
(* The verdict on an attempt. *)

ShouldFallback(status) == status = 404
UsageIsMissing == result.status = 200 /\ ~result.usage /\ request.priced

\* The other protocol of the same channel.
FallsBack ==
    /\ at.hop = "primary" /\ ~result.handled /\ Candidate.convert
    /\ result.status # 0
    /\ ShouldFallback(result.status) \/ UsageIsMissing
    /\ HasAlternate(request.endpoint, plan)

FallBack ==
    /\ phase = "judge" /\ FallsBack
    /\ Start(at.channel, "fallback", AlternatePlan(request.endpoint, plan))
    /\ UNCHANGED <<request, client, senders>>

\* Bug: only a complete answer ends the request.
MutAttemptIsCompleted ==
    result.status = 200 /\ (request.stream => result.completed) /\ (result.error => result.handled)

\* Output that was written, or could not be, ends the request; so does an answer that
\* is complete.
AttemptIsCompleted ==
    \/ result.wrote \/ result.writerFailed
    \/ result.status = 200 /\ (request.stream => result.completed) /\ (result.error => result.handled)

Answered ==
    /\ phase = "judge" /\ ~FallsBack
    /\ AttemptIsCompleted
    /\ phase' = "done"
    /\ IF request.stream \/ result.error THEN UNCHANGED <<client, senders>>
       ELSE LET view == IF ForcedStream
                        THEN AggregateChatCompletionSSE(up.body).text ELSE up.said.text
            IN /\ client' = [client EXCEPT !.text = IF request.redacted THEN Restore(view) ELSE view]
               /\ senders' = senders \cup {at}
    /\ UNCHANGED <<request, at, plan, up, pipeline, result>>

TryNext ==
    /\ phase = "judge" /\ ~FallsBack
    /\ ~AttemptIsCompleted
    /\ at.channel < Len(request.channels)
    /\ Start(at.channel + 1, "primary",
             PreferredProtocolPlan(request.endpoint, request.channels[at.channel + 1]))
    /\ UNCHANGED <<request, client, senders>>

\* Every candidate failed; the client gets the last error.
Failed ==
    /\ phase = "judge" /\ ~FallsBack
    /\ ~AttemptIsCompleted
    /\ at.channel = Len(request.channels)
    /\ phase' = "done"
    /\ client' = [client EXCEPT !.errors = @ + 1]
    /\ UNCHANGED <<request, at, plan, up, pipeline, result, senders>>

Statuses == {200, 404, 500, NoAnswer, TimedOut}
Bodies == {<<"t">>, <<"m", "k">>, <<>>, <<"p", "q">>}

StreamStep ==
    \/ \E status \in Statuses : DoStreamRequest(status)
    \/ \E e \in UpstreamEvents, n \in 0 .. 12 : ReadLine(e, n)
    \/ \E err \in {"eof", "timeout", "broken", "cancelled"}, n \in 0 .. 12 : EndOfStream(err, n)
    \/ \E x \in Bodies, usage \in BOOLEAN : ReadAll(x, usage)
    \/ \E e \in ChatEvents : ReadForced(e)
    \/ EndForced
    \/ FallBack \/ Answered \/ TryNext \/ Failed

StreamSpec == StartStream /\ [][StreamStep]_streamVars

-----------------------------------------------------------------------------
(* Properties. *)

\* The answer as the client should read it: restored, unless the converter's event
\* lines hide it from the restorer.
Expected(x) == IF request.redacted /\ ~(Converting(plan) /\ plan.client = "responses")
               THEN Restore(x) ELSE x

Unreadable == request.redacted /\ plan.conversion = "" /\ plan.client = "responses"

\* Whatever is held back on the way (by the guard, by the wait for visible output, for
\* a placeholder cut in two), the client reads the upstream's text and reasoning in
\* order, nothing twice, nothing left out in between; each call's arguments too.
TextInOrder ==
    senders # {} =>
        /\ IsPrefix(client.text, Expected(up.said.text))
        /\ IsPrefix(client.reason, Expected(up.said.reason))
        /\ \A j \in DOMAIN client.args :
              \E i \in Tools : IsPrefix(client.args[j], Expected(up.said.args[i]))

\* When the upstream marks its end and the client stayed, nothing that was held back is
\* missing: all text but what the guard still has, every argument of every call under
\* one index, every name once, a final text that is the text of the parts (it is
\* doubled where Messages is converted for a Responses client), and no word of a broken
\* stream (whose end mark model_quality.go:33 does not know where it is Messages').
MarkedEndDeliversAll ==
    (phase = "done" /\ request.stream /\ up.ended /\ ~result.writerFailed /\ senders # {}
        /\ ~Unreadable) =>
        /\ client.text = Expected(SubSeq(up.said.text, 1, Len(up.said.text) - Len(guard.buffer)))
        /\ client.reason = Expected(up.said.reason)
        /\ \A i \in Tools : \E j \in DOMAIN client.args :
              client.args[j] = Expected(up.said.args[i])
        /\ plan.client = "chat" => \A j \in DOMAIN client.names : client.names[j] <= 1
        /\ plan.conversion = "responses_to_chat" => client.final = client.text
        /\ plan.upstream # "messages" => client.errors = 0

\* What a client receives comes from one call of one upstream: an attempt that wrote
\* anything is never followed by another.
OneUpstreamAnswers ==
    /\ Cardinality(senders) <= 1
    /\ senders # {} => senders = {at}

=============================================================================
