--------------------------- MODULE StreamConverter ---------------------------
(***************************************************************************)
(* The event-stream conversions of src/internal/logic/protocol: a client   *)
(* of one chat protocol is served by an upstream of another. stream.go has *)
(* the two directions between Chat Completions and Responses, stream_      *)
(* toolargs.go the accounting of tool-call arguments, anthropic_stream.go  *)
(* the two directions from Anthropic Messages.                             *)
(*                                                                         *)
(* An event is a record: its kind k (the names of the wire's event types,  *)
(* shortened), the text x it carries as a sequence of symbols, the tool    *)
(* call i it belongs to, whether it names the tool (n), which identifiers  *)
(* it has (ids) and whether it reports usage (u). Kinds of Chat chunks:    *)
(* role, text, reason, tool, finish, usage, DONE; of Responses: created,   *)
(* r.reason, r.text, added, args, argsDone, completed, failed, incomplete; *)
(* of Messages: message_start, tool_use, text_delta, thinking_delta,       *)
(* input_json, message_delta, message_stop. A chunk has one kind of        *)
(* content. A converter step gives the new converter c and the events out. *)
(***************************************************************************)
EXTENDS Integers, Sequences, SequencesExt, TLC

Blank == [k |-> "none", x |-> <<>>, i |-> 0, n |-> FALSE, ids |-> {}, u |-> FALSE]
Event(k, x) == [Blank EXCEPT !.k = k, !.x = x]
ToolEvent(k, i, x, n) == [Blank EXCEPT !.k = k, !.i = i, !.x = x, !.n = n]

NewStreamConverter ==
    [started |-> FALSE, roleSent |-> FALSE, finished |-> FALSE, contentStarted |-> FALSE,
     reasoningStarted |-> FALSE, reasoningAfter |-> FALSE, completed |-> FALSE,
     sawTool |-> FALSE, usage |-> FALSE, text |-> <<>>, reason |-> <<>>,
     index |-> <<>>, named |-> {}, args |-> <<>>, sent |-> <<>>, tools |-> <<>>]

Output(c, out) == [c |-> c, out |-> out]
Then(s, out) == [s EXCEPT !.out = @ \o out]
Joined(s, next) == Output(next.c, s.out \o next.out)

-----------------------------------------------------------------------------
(* Tool calls of a Chat client. *)

\* The index of the call with one of these keys, in the order of first mention; a
\* new call is known by all of them.
ChatToolIndex(c, keys) ==
    LET known == {j \in DOMAIN keys : keys[j] \in DOMAIN c.index}
        first == CHOOSE j \in known : \A l \in known : j <= l
        new == Len(c.args)
        fresh == [key \in {keys[j] : j \in DOMAIN keys} |-> new]
    IN IF known # {} THEN [c |-> c, at |-> c.index[keys[first]]]
       ELSE [c |-> [c EXCEPT !.index = fresh @@ @, !.args = Append(@, <<>>),
                             !.sent = Append(@, 0)],
             at |-> new]

\* What was collected and not sent; the watermark moves to the end.
Unsent(c, at) == SubSeq(c.args[at + 1], c.sent[at + 1] + 1, Len(c.args[at + 1]))
MarkSent(c, at) == IF Unsent(c, at) = <<>> THEN c
                   ELSE [c EXCEPT !.sent[at + 1] = Len(c.args[at + 1]), !.sawTool = TRUE]

\* A fragment extends what is collected.
ChatToolAppendArgs(c, at, x) == [c EXCEPT !.args[at + 1] = @ \o x]

\* A full value is taken when it extends what is collected.
ChatToolRecordArgs(c, at, x) ==
    [c EXCEPT !.args[at + 1] = IF IsPrefix(@, x) THEN x ELSE @]

ChatToolArgsChunk(at, x) == IF x = <<>> THEN <<>> ELSE <<ToolEvent("tool", at, x, FALSE)>>

ChatToolFlushPendingArgs(c) ==
    FoldLeft(LAMBDA s, at : Output(MarkSent(s.c, at - 1),
                                   s.out \o ChatToolArgsChunk(at - 1, Unsent(s.c, at - 1))),
             Output(c, <<>>), [at \in 1 .. Len(c.args) |-> at])

EnsureChatRole(c) ==
    IF c.started THEN Output(c, <<>>)
    ELSE Output([c EXCEPT !.started = TRUE], <<Event("role", <<>>)>>)

-----------------------------------------------------------------------------
(* Chat client, Responses upstream. *)

KeysOf(e) == SelectSeq(<<<<"item", e.i>>, <<"call", e.i>>>>, LAMBDA key : key[1] \in e.ids)

\* output_item.added of a function call: the name once, then any arguments it has.
ToolNamed(c, name, at) ==
    IF name \in c.named THEN Output(c, <<>>)
    ELSE Then(EnsureChatRole([c EXCEPT !.named = @ \cup {name}, !.sawTool = TRUE]),
              <<ToolEvent("tool", at, <<>>, TRUE)>>)

ToolRecorded(c, at, name) ==
    Then(ToolNamed(MarkSent(c, at), name, at), ChatToolArgsChunk(at, Unsent(c, at)))

ToolFound(found, e) ==
    ToolRecorded(ChatToolRecordArgs(found.c, found.at, e.x), found.at, KeysOf(e)[1])

ToolAdded(c, e) == ToolFound(ChatToolIndex(c, KeysOf(e)), e)

\* A fragment, or the authoritative full value at the end.
ToolGrown(c, at) ==
    IF Unsent(c, at) = <<>> THEN Output(c, <<>>)
    ELSE Then(EnsureChatRole(MarkSent(c, at)), ChatToolArgsChunk(at, Unsent(c, at)))

ToolArgsAt(found, e) ==
    ToolGrown(IF e.k = "args" THEN ChatToolAppendArgs(found.c, found.at, e.x)
              ELSE ChatToolRecordArgs(found.c, found.at, e.x), found.at)

ToolArgs(c, e) == ToolArgsAt(ChatToolIndex(c, KeysOf(e)), e)

\* The last arguments, the finish reason with the usage, the end mark.
ChatFinish(s) ==
    Then(s, <<[Event("finish", <<>>) EXCEPT !.n = s.c.sawTool, !.u = s.c.usage],
              Event("DONE", <<>>)>>)

CompleteChatStream(c) == ChatFinish(ChatToolFlushPendingArgs(c))

Complete1(c) == IF c.completed THEN Output(c, <<>>)
                ELSE CompleteChatStream([c EXCEPT !.completed = TRUE])

ResponsesToChat(c, e) ==
    CASE e.k \in {"r.reason", "r.text"} /\ e.x # <<>> ->
           Then(EnsureChatRole([c EXCEPT !.text = IF e.k = "r.text" THEN @ \o e.x ELSE @]),
                <<Event(IF e.k = "r.text" THEN "text" ELSE "reason", e.x)>>)
      [] e.k = "added" -> ToolAdded(c, e)
      [] (e.k = "args" /\ e.x # <<>>) \/ (e.k = "argsDone" /\ e.ids # {}) -> ToolArgs(c, e)
      [] e.k = "completed" -> Complete1([c EXCEPT !.usage = @ \/ e.u])
      [] e.k = "incomplete" -> Output([c EXCEPT !.completed = TRUE], <<>>)
      [] OTHER -> Output(c, <<>>)

-----------------------------------------------------------------------------
(* Responses client, Chat upstream. *)

\* Output slots: reasoning that came first has slot 0 and the message slot 1.
ResponsesMessageIndex(c) == IF c.reasoningStarted /\ ~c.reasoningAfter THEN 1 ELSE 0
ResponsesReasoningIndex(c) == IF c.reasoningAfter THEN 1 ELSE 0
Slot(k, i) == [Blank EXCEPT !.k = k, !.i = i]

EnsureResponsesStarted(c) ==
    IF c.started THEN Output(c, <<>>)
    ELSE Output([c EXCEPT !.started = TRUE],
                <<Event("created", <<>>), Slot("message.added", ResponsesMessageIndex(c))>>)

TextStarted(s) ==
    IF s.c.contentStarted THEN s
    ELSE Then([s EXCEPT !.c.contentStarted = TRUE],
              <<Slot("part.added", ResponsesMessageIndex(s.c))>>)

EnsureResponsesTextStarted(c) == TextStarted(EnsureResponsesStarted(c))

EnsureResponsesReasoningStarted(c) ==
    CASE c.reasoningStarted -> EnsureResponsesStarted(c)
      [] ~c.reasoningStarted /\ c.started ->
           Output([c EXCEPT !.reasoningStarted = TRUE, !.reasoningAfter = TRUE],
                  <<Slot("reasoning.added", 1)>>)
      [] OTHER ->
           Output([c EXCEPT !.reasoningStarted = TRUE, !.started = TRUE],
                  <<Event("created", <<>>), Slot("reasoning.added", 0), Slot("message.added", 1)>>)

\* A call is known by its Chat index; it takes the slot after the message and the
\* calls before it.
ResponsesToolFor(c, i) ==
    IF \E j \in DOMAIN c.tools : c.tools[j].up = i THEN c
    ELSE [c EXCEPT !.tools = Append(@, [up |-> i,
              slot |-> ResponsesMessageIndex(c) + 1 + Len(c.tools), named |-> FALSE,
              args |-> <<>>, sent |-> 0, announced |-> FALSE])]

ResponsesToolPendingArgs(tool) == SubSeq(tool.args, tool.sent + 1, Len(tool.args))

\* A call is announced when its name is known; arguments that came earlier follow.
AnnounceTool(s, j, tool) ==
    IF tool.announced \/ ~tool.named THEN s
    ELSE Then(Joined(s, EnsureResponsesStarted([s.c EXCEPT !.tools[j].announced = TRUE])),
              <<ToolEvent("added", tool.slot, <<>>, TRUE)>>)

SendToolArgs(s, j, tool) ==
    IF ~s.c.tools[j].announced \/ ResponsesToolPendingArgs(tool) = <<>> THEN s
    ELSE Then([s EXCEPT !.c.tools[j].sent = Len(tool.args)],
              <<ToolEvent("args", tool.slot, ResponsesToolPendingArgs(tool), FALSE)>>)

ToolMerged(c, j, tool) ==
    SendToolArgs(AnnounceTool(Output([c EXCEPT !.tools[j] = tool], <<>>), j, tool), j, tool)

ToolAt(c, j, e) == ToolMerged(c, j, [c.tools[j] EXCEPT !.named = @ \/ e.n, !.args = @ \o e.x])

ToolKnown(c, e) == ToolAt(c, CHOOSE l \in DOMAIN c.tools : c.tools[l].up = e.i, e)

ToolDelta(c, e) == ToolKnown(ResponsesToolFor([c EXCEPT !.sawTool = TRUE], e.i), e)

ChatToResponses(c, e) ==
    LET b == [c EXCEPT !.usage = @ \/ e.u]
    IN CASE e.k = "usage" -> Output(c, <<>>)
         [] e.k = "reason" /\ e.x # <<>> ->
              Then([EnsureResponsesReasoningStarted(b) EXCEPT !.c.reason = @ \o e.x],
                   <<Event("r.reason", e.x)>>)
         [] e.k = "text" /\ e.x # <<>> ->
              Then([EnsureResponsesTextStarted(b) EXCEPT !.c.text = @ \o e.x],
                   <<Event("r.text", e.x)>>)
         [] e.k = "tool" -> ToolDelta(b, e)
         [] OTHER -> Output(b, <<>>)

\* Every item is closed: reasoning, text, each call (announced now if its name never
\* came), the message, and the response.
CloseReasoning(c) ==
    IF c.reasoningStarted /\ c.reason # <<>>
    THEN <<[Event("reasoning.done", c.reason) EXCEPT !.i = ResponsesReasoningIndex(c)]>> ELSE <<>>

CloseCall(tool) ==
    (IF tool.announced THEN <<>> ELSE <<ToolEvent("added", tool.slot, <<>>, tool.named)>>)
    \o <<ToolEvent("argsDone", tool.slot, tool.args, FALSE), Slot("call.done", tool.slot)>>

CloseMessage(c) ==
    <<[Event("textDone", c.text) EXCEPT !.i = ResponsesMessageIndex(c)]>>
    \o FoldLeft(LAMBDA out, tool : out \o CloseCall(tool), <<>>, c.tools)
    \o <<Slot("message.done", ResponsesMessageIndex(c)),
          [Event("completed", c.text) EXCEPT !.u = c.usage]>>

CloseResponse(s) ==
    Output([s.c EXCEPT !.tools = [j \in DOMAIN @ |-> [@[j] EXCEPT !.announced = TRUE]]],
           CloseReasoning(s.c) \o s.out \o CloseMessage(s.c))

CompleteResponsesStream(c) == CloseResponse(EnsureResponsesTextStarted(c))

-----------------------------------------------------------------------------
(* Anthropic upstream: its events become Chat chunks. *)

ChatRoleChunks(c) ==
    IF c.roleSent THEN Output(c, <<>>)
    ELSE Output([c EXCEPT !.roleSent = TRUE], <<Event("role", <<>>)>>)

UseTool(found, call) ==
    IF call \in found.c.named THEN Output(found.c, <<>>)
    ELSE Then(ChatRoleChunks([found.c EXCEPT !.named = @ \cup {call}]),
              <<ToolEvent("tool", found.at, <<>>, TRUE)>>)

ToolUse(c, e) ==
    UseTool(ChatToolIndex([c EXCEPT !.sawTool = TRUE], <<<<"call", e.i>>, <<"block", e.i>>>>),
            <<"call", e.i>>)

ToolInput(found, x) == Then(ChatRoleChunks(found.c), <<ToolEvent("tool", found.at, x, FALSE)>>)

InputJson(c, e) ==
    ToolInput(ChatToolIndex([c EXCEPT !.sawTool = TRUE], <<<<"block", e.i>>>>), e.x)

CompleteChunks(c) ==
    IF c.finished THEN Output(c, <<>>)
    ELSE Output([c EXCEPT !.finished = TRUE],
                <<[Event("finish", <<>>) EXCEPT !.n = c.sawTool, !.u = c.usage]>>)

AnthropicToChatChunks(c, e) ==
    CASE e.k = "message_start" -> ChatRoleChunks([c EXCEPT !.usage = @ \/ e.u])
      [] e.k = "tool_use" -> ToolUse(c, e)
      [] e.k = "text_delta" /\ e.x # <<>> ->
           Then(ChatRoleChunks([c EXCEPT !.text = @ \o e.x]), <<Event("text", e.x)>>)
      [] e.k = "thinking_delta" /\ e.x # <<>> ->
           Then(ChatRoleChunks(c), <<Event("reason", e.x)>>)
      [] e.k = "input_json" /\ e.x # <<>> -> InputJson(c, e)
      [] e.k = "message_delta" -> Output([c EXCEPT !.usage = @ \/ e.u], <<>>)
      [] e.k = "message_stop" -> CompleteChunks(c)
      [] OTHER -> Output(c, <<>>)

\* A Chat client ends on [DONE], which Messages does not have.
Marked(s) == IF s.out = <<>> THEN s ELSE Then(s, <<Event("DONE", <<>>)>>)

AnthropicToChat(c, e) ==
    IF e.k = "message_stop" THEN Marked(AnthropicToChatChunks(c, e)) ELSE AnthropicToChatChunks(c, e)

\* Feed Chat chunks to the conversion for Responses clients.
Feed(s) == FoldLeft(LAMBDA acc, e : Joined(acc, ChatToResponses(acc.c, e)), Output(s.c, <<>>), s.out)

AnthropicToResponses(c, e) == Feed(AnthropicToChatChunks(c, e))

CompleteAnthropicChatStream(c) == Marked(CompleteChunks(c))

CompleteFed(s) == Joined(s, CompleteResponsesStream(s.c))

CompleteAnthropicResponsesStream(c) == CompleteFed(Feed(CompleteChunks(c)))

-----------------------------------------------------------------------------
(* The two entry points. *)

\* The end of the stream, by its mark or because the upstream closed it.
Complete(conversion, c) ==
    CASE conversion = "chat_to_anthropic" -> CompleteAnthropicChatStream(c)
      [] conversion = "responses_to_anthropic" -> CompleteAnthropicResponsesStream(c)
      [] c.completed -> Output(c, <<>>)
      [] conversion = "chat_to_responses" -> CompleteChatStream([c EXCEPT !.completed = TRUE])
      [] OTHER -> CompleteResponsesStream([c EXCEPT !.completed = TRUE])

Transform(conversion, c, e) ==
    CASE e.k = "noise" -> Output(c, <<>>)
      [] e.k = "DONE" -> Complete(conversion, c)
      [] conversion = "chat_to_responses" -> ResponsesToChat(c, e)
      [] conversion = "responses_to_chat" -> ChatToResponses(c, e)
      [] conversion = "chat_to_anthropic" -> AnthropicToChat(c, e)
      [] OTHER -> AnthropicToResponses(c, e)
=============================================================================
