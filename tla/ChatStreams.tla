----------------------------- MODULE ChatStreams -----------------------------
(* Streamed completions on their way from the provider to the client.  Every  *)
(* stream is read by one goroutine that pulls one upstream event at a time    *)
(* through at most two converters: the provider's own (Anthropic, Bedrock or  *)
(* native Gemini events to OpenAI chat chunks; an OpenAI-compatible provider  *)
(* needs none) and the one of the client's dialect (chat chunks to Responses  *)
(* or Messages events; Anthropic has its own converter to Responses).         *)
(*                                                                            *)
(* Payloads are numbered pieces, so a text or the arguments of a call is the  *)
(* sequence of its pieces and what the client puts together can be compared   *)
(* with what the provider said.  "{}" is the piece 0.                         *)
EXTENDS Naturals, Sequences, SequencesExt, FiniteSets, TLC

CONSTANTS Providers,    \* subset of {"anthropic", "bedrock", "gemini", "openai"}
          MaxEvents     \* bound: upstream events of one stream, per provider

VARIABLES provider,     \* who answers
          dialect,      \* what the client speaks: "chat", "responses", "messages"
          said,         \* what the provider said: its content blocks, in order
          sent,         \* number of upstream events so far
          upstream,     \* "open", "stopped" (it said why it stops), "done" (it sent
                        \* [DONE]), then "eof", "cut" (EOF before it stopped),
                        \* "broken" (any other read error) or "dropped" (such an
                        \* error after [DONE])
          conv,         \* the provider's converter
          front,        \* the converter of the client's dialect
          out           \* the events the client received

streamVars == <<provider, dialect, said, sent, upstream, conv, front, out>>

Dialects == {"chat", "responses", "messages"}

-----------------------------------------------------------------------------
(* Chat chunks.                                                              *)

\* One chat.completion.chunk with a single choice.
EmptyChunk == [text |-> <<>>, think |-> <<>>, calls |-> <<>>, finish |-> "", usage |-> FALSE]
TextChunk(p)   == [EmptyChunk EXCEPT !.text = <<p>>]
ThinkChunk(p)  == [EmptyChunk EXCEPT !.think = <<p>>]
CallChunk(c)   == [EmptyChunk EXCEPT !.calls = <<c>>]
FinishChunk(reason, usage) == [EmptyChunk EXCEPT !.finish = reason, !.usage = usage]

\* A tool call delta; id 0 is an absent id, named says whether it has a name.
CallDelta(index, id, named, args) ==
    [index |-> index, id |-> id, named |-> named, args |-> args]

\* What a converter step returns: its new state and what it emits.
Emits(state, emits) == [state |-> state, emits |-> emits]

-----------------------------------------------------------------------------
(* Anthropic events to chat chunks.                                          *)

AnthropicChatInit == [next |-> 0, tools |-> <<>>, emitted |-> FALSE, usage |-> FALSE]

\* tools is a function from content block indexes; <<>> is the empty one.
ToolAt(s, i) == IF i \in DOMAIN s.tools THEN <<s.tools[i]>> ELSE <<>>

NormalizeAnthropicStopReason(reason) ==
    CASE reason = "tool_use" -> "tool_calls"
      [] reason \in {"end_turn", "stop_sequence"} -> "stop"
      [] reason \in {"max_tokens", "model_context_window_exceeded"} -> "length"
      [] OTHER -> reason

MapStreamStopReason(s, reason) ==
    IF reason = "tool_use" /\ ~s.emitted THEN reason ELSE NormalizeAnthropicStopReason(reason)

\* The first chunk of a call carries its id and its name.
StartAnthropicCall(s, i, args) ==
    LET t == s.tools[i] IN
    Emits([s EXCEPT !.tools[i].started = TRUE, !.tools[i].placeholder = FALSE, !.emitted = TRUE],
         <<CallChunk(CallDelta(t.index, t.id, TRUE, args))>>)

AnthropicToChat(s, e) ==
    CASE e.type = "message_start" -> Emits([s EXCEPT !.usage = @ \/ e.usage], <<EmptyChunk>>)
      [] e.type = "block_start" /\ e.kind = "tool_use" ->
            LET t  == [id |-> e.id, index |-> s.next, started |-> FALSE,
                       placeholder |-> e.input = <<0>>]
                s1 == [s EXCEPT !.next = @ + 1, !.tools = (e.index :> t) @@ @]
            IN IF t.placeholder THEN Emits(s1, <<>>) ELSE StartAnthropicCall(s1, e.index, e.input)
      [] e.type = "delta" /\ e.kind = "thinking" -> Emits(s, <<ThinkChunk(e.piece)>>)
      [] e.type = "delta" /\ e.kind = "text" -> Emits(s, <<TextChunk(e.piece)>>)
      [] e.type = "delta" /\ e.kind = "tool_use" ->
            IF ToolAt(s, e.index) = <<>> THEN Emits(s, <<>>)
            ELSE IF ~s.tools[e.index].started THEN StartAnthropicCall(s, e.index, <<e.piece>>)
            ELSE Emits([s EXCEPT !.emitted = TRUE],
                      <<CallChunk(CallDelta(s.tools[e.index].index, 0, FALSE, <<e.piece>>))>>)
      [] e.type = "block_stop" ->
            IF ToolAt(s, e.index) # <<>> /\ ~s.tools[e.index].started
            THEN StartAnthropicCall(s, e.index, <<0>>)
            ELSE Emits(s, <<>>)
      [] e.type = "message_delta" ->
            LET s1 == [s EXCEPT !.usage = @ \/ e.usage]
            IN Emits(s1, <<FinishChunk(MapStreamStopReason(s1, e.reason), s1.usage)>>)
      [] OTHER -> Emits(s, <<>>)      \* a start of a text or thinking block, message_stop

-----------------------------------------------------------------------------
(* Bedrock ConverseStream events to chat chunks.                             *)

BedrockInit == [tools |-> <<>>, stop |-> <<>>, finishSent |-> FALSE, usage |-> FALSE]

MapStopReason(reason, hasTools) ==
    CASE reason \in {"end_turn", "stop_sequence", ""} -> "stop"
      [] reason \in {"max_tokens", "model_context_window_exceeded"} -> "length"
      [] reason = "tool_use" /\ hasTools -> "tool_calls"
      [] OTHER -> reason

\* The finish chunk waits for the metadata, or for the end of the stream.
FlushFinish(s) ==
    IF s.stop = <<>> \/ s.finishSent THEN Emits(s, <<>>)
    ELSE Emits([s EXCEPT !.finishSent = TRUE],
              <<FinishChunk(MapStopReason(s.stop[1], DOMAIN s.tools # {}), s.usage)>>)

BedrockToChat(s, e) ==
    CASE e.type = "message_start" -> Emits(s, <<EmptyChunk>>)
      [] e.type = "block_start" /\ e.kind = "tool_use" ->
            LET index == Cardinality(DOMAIN s.tools)
            IN Emits([s EXCEPT !.tools = (e.index :> [id |-> e.id, index |-> index]) @@ @],
                    <<CallChunk(CallDelta(index, e.id, TRUE, <<>>))>>)
      [] e.type = "delta" /\ e.kind = "text" -> Emits(s, <<TextChunk(e.piece)>>)
      [] e.type = "delta" /\ e.kind = "tool_use" ->
            IF ToolAt(s, e.index) = <<>> THEN Emits(s, <<>>)
            ELSE Emits(s, <<CallChunk(CallDelta(s.tools[e.index].index, 0, FALSE, <<e.piece>>))>>)
      [] e.type = "message_delta" -> Emits([s EXCEPT !.stop = <<e.reason>>], <<>>)
      [] e.type = "metadata" -> FlushFinish([s EXCEPT !.usage = @ \/ e.usage])
      [] OTHER -> Emits(s, <<>>)      \* reasoning deltas, block_stop

-----------------------------------------------------------------------------
(* Native Gemini events to chat chunks.                                      *)

GeminiInit == [role |-> FALSE, saw |-> FALSE, stopped |-> FALSE, usage |-> FALSE]

FinishReasonFromGemini(reason, hasCalls) ==
    CASE hasCalls -> "tool_calls"
      [] reason = "" -> ""
      [] reason = "STOP" -> "stop"
      [] reason = "MAX_TOKENS" -> "length"
      [] OTHER -> "content_filter"

\* The calls of one event are numbered from 0, whatever earlier events held.
StreamToolCalls(calls) ==
    [i \in DOMAIN calls |-> CallDelta(i - 1, calls[i].id, TRUE, calls[i].args)]

\* An event is dropped once the prompt was blocked.  The error chunk of a
\* blocked prompt has no choices, so its fields are those of EmptyChunk.
GeminiToChat(s, e) ==
    CASE s.stopped -> Emits(s, <<>>)
      [] e.type = "blocked" /\ ~s.stopped -> Emits([s EXCEPT !.stopped = TRUE], <<EmptyChunk>>)
      [] OTHER ->
            LET saw    == s.saw \/ e.calls # <<>>
                chunk  == [text |-> e.text, think |-> <<>>, calls |-> StreamToolCalls(e.calls),
                           finish |-> FinishReasonFromGemini(e.reason, saw), usage |-> FALSE]
            IN Emits([s EXCEPT !.role = TRUE, !.saw = saw, !.usage = e.usage],
                    IF s.role /\ chunk = EmptyChunk THEN <<>> ELSE <<chunk>>)

\* The usage of the last event goes out in a chunk of its own.
WriteFinalUsage(s) ==
    IF ~s.usage \/ s.stopped THEN <<>> ELSE <<[EmptyChunk EXCEPT !.usage = TRUE]>>

-----------------------------------------------------------------------------
(* The Responses dialect.                                                    *)

Then(st, Op(_)) == LET n == Op(st.state) IN Emits(n.state, st.emits \o n.emits)

ResponsesInit ==
    [created |-> FALSE, reserved |-> FALSE, started |-> FALSE, done |-> FALSE, text |-> <<>>,
     calls |-> <<>>, sentDone |-> FALSE, usage |-> FALSE, nextOutput |-> 0]

Added(item, id, index) == [ev |-> "added", item |-> item, id |-> id, index |-> index]
ItemDone(item, id, index, content) ==
    [ev |-> "done", item |-> item, id |-> id, index |-> index, content |-> content]

StartAssistantOutput(s) ==
    IF s.started THEN Emits(s, <<>>)
    ELSE Emits([s EXCEPT !.started = TRUE], <<Added("message", 0, 0)>>)

\* Mutant of CompleteAssistantOutput: the message may be completed again.
CompleteAssistantOutputAgain(s) ==
    IF ~s.reserved THEN Emits(s, <<>>)
    ELSE Then(StartAssistantOutput([s EXCEPT !.done = TRUE]),
              LAMBDA t : Emits(t, <<ItemDone("message", 0, 0, t.text)>>))

CompleteAssistantOutput(s) ==
    IF ~s.reserved \/ s.done THEN Emits(s, <<>>)
    ELSE Then(StartAssistantOutput([s EXCEPT !.done = TRUE]),
              LAMBDA t : Emits(t, <<ItemDone("message", 0, 0, t.text)>>))

\* A call starts once its id and its name are known.
StartToolCall(s, i) ==
    LET c == s.calls[i] IN
    IF c.started \/ c.id = 0 \/ ~c.named THEN Emits(s, <<>>)
    ELSE Emits([s EXCEPT !.calls[i].started = TRUE, !.calls[i].item = c.id],
              <<Added("call", c.id, c.out)>>)

\* Mutant of ToolCallArguments: the placeholder is forgotten.
ToolCallArgumentsRaw(c) == c.args

\* The arguments of a call that only ever had the placeholder are "{}".
ToolCallArguments(c) == IF c.placeholder /\ c.args = <<>> THEN <<0>> ELSE c.args

CompleteToolCall(s, i) ==
    LET c == s.calls[i] IN
    IF c.completed THEN Emits(s, <<>>)
    ELSE Emits([s EXCEPT !.calls[i].completed = TRUE],
              <<[ev |-> "args_done", id |-> c.item, index |-> c.out],
                ItemDone("call", c.id, c.out, ToolCallArguments(c))>>)

NewCall(output) ==
    [out |-> output, id |-> 0, item |-> 0, named |-> FALSE, args |-> <<>>, placeholder |-> FALSE,
     started |-> FALSE, completed |-> FALSE]

\* Output 0 is the assistant message: calls that have not started move up.
ReserveAssistantOutput(s) ==
    IF s.reserved THEN s
    ELSE [s EXCEPT !.reserved = TRUE,
                   !.calls = [i \in DOMAIN @ |-> IF @[i].started THEN @[i]
                                                 ELSE [@[i] EXCEPT !.out = @ + 1]]]

AppendTextDelta(s, pieces) ==
    Then(StartAssistantOutput(ReserveAssistantOutput(s)),
         LAMBDA t : Emits([t EXCEPT !.text = @ \o pieces], <<[ev |-> "text", pieces |-> pieces]>>))

ArgsDelta(c, pieces) ==
    IF pieces = <<>> THEN <<>>
    ELSE <<[ev |-> "args", id |-> c.item, index |-> c.out, pieces |-> pieces]>>

HandleToolCallDelta(s, d) ==
    LET old == IF d.index \in DOMAIN s.calls THEN s.calls[d.index]
               ELSE NewCall(d.index + IF s.reserved THEN 1 ELSE 0)
        new == [old EXCEPT !.id = IF d.id # 0 THEN d.id ELSE @, !.named = @ \/ d.named,
                           !.args = @ \o d.args]
        st  == StartToolCall([s EXCEPT !.calls = (d.index :> new) @@ @], d.index)
        now == st.state.calls[d.index]
    IN Emits(st.state, st.emits \o
            IF ~now.started THEN <<>>
            ELSE ArgsDelta(now, IF old.started THEN d.args ELSE now.args))

\* The first call delta ends the assistant message.
HandleToolCallDeltas(s, deltas) ==
    FoldLeft(LAMBDA st, d : Then(st, LAMBDA t : HandleToolCallDelta(t, d)),
             IF s.started /\ ~s.done THEN CompleteAssistantOutput(s) ELSE Emits(s, <<>>),
             deltas)

\* A call without a name is named "unknown"; one without an id is dropped.
CompletePendingToolCall(s, i) ==
    IF s.calls[i].completed THEN Emits(s, <<>>)
    ELSE Then(StartToolCall([s EXCEPT !.calls[i].named = TRUE], i),
              LAMBDA t : IF t.calls[i].started THEN CompleteToolCall(t, i) ELSE Emits(t, <<>>))

CompletePendingToolCalls(s) ==
    FoldLeft(LAMBDA st, i : Then(st, LAMBDA t : CompletePendingToolCall(t, i)),
             Emits(s, <<>>), SetToSortSeq(DOMAIN s.calls, <))

Completed(s) == <<[ev |-> "completed", usage |-> s.usage], [ev |-> "[DONE]"]>>

AppendCompletedEvents(s) ==
    IF s.sentDone THEN Emits(s, <<>>)
    ELSE Then(Then(CompleteAssistantOutput([s EXCEPT !.sentDone = TRUE]), CompletePendingToolCalls),
              LAMBDA t : Emits(t, Completed(t)))

DoneChunk == FinishChunk("[DONE]", FALSE)

ChatToResponses(s, k) ==
    IF k = DoneChunk THEN AppendCompletedEvents(s)
    ELSE Then(Then(Then(Emits([s EXCEPT !.usage = @ \/ k.usage], <<>>),
         LAMBDA t : IF k.text = <<>> THEN Emits(t, <<>>) ELSE AppendTextDelta(t, k.text)),
         LAMBDA t : IF k.calls = <<>> THEN Emits(t, <<>>) ELSE HandleToolCallDeltas(t, k.calls)),
         LAMBDA t : IF k.finish = "tool_calls" THEN CompletePendingToolCalls(t) ELSE Emits(t, <<>>))

-----------------------------------------------------------------------------
(* Anthropic events straight to the Responses dialect.                       *)

ReserveAssistantMessageOutput(s) ==
    IF s.reserved THEN s ELSE [s EXCEPT !.reserved = TRUE, !.nextOutput = @ + 1]

NewResponsesToolCallState(s, e) ==
    LET c == [NewCall(s.nextOutput) EXCEPT !.id = e.id, !.named = TRUE,
                  !.placeholder = e.input = <<0>>, !.args = IF e.input = <<0>> THEN <<>> ELSE e.input]
    IN [s EXCEPT !.nextOutput = @ + 1, !.calls = (e.index :> c) @@ @]

AnthropicToResponses(s, e) ==
    CASE e.type = "message_start" ->
            Emits([s EXCEPT !.usage = @ \/ e.usage, !.created = TRUE], <<[ev |-> "created"]>>)
      [] e.type = "block_start" /\ e.kind = "tool_use" ->
            Then(IF s.started /\ ~s.done THEN CompleteAssistantOutput(s) ELSE Emits(s, <<>>),
                 LAMBDA t : StartToolCall(NewResponsesToolCallState(t, e), e.index))
      [] e.type = "delta" /\ e.kind = "text" ->
            Then(StartAssistantOutput(ReserveAssistantMessageOutput(s)),
                 LAMBDA t : Emits([t EXCEPT !.text = Append(@, e.piece)],
                                 <<[ev |-> "text", pieces |-> <<e.piece>>]>>))
      [] e.type = "delta" /\ e.kind = "tool_use" /\ e.index \in DOMAIN s.calls ->
            LET c == [s.calls[e.index] EXCEPT !.placeholder = FALSE, !.args = Append(@, e.piece)]
            IN Emits([s EXCEPT !.calls[e.index] = c], ArgsDelta(c, <<e.piece>>))
      [] e.type = "block_stop" /\ e.index \in DOMAIN s.calls -> CompleteToolCall(s, e.index)
      [] e.type = "message_delta" ->
            LET t == [s EXCEPT !.usage = @ \/ e.usage]
            IN Emits(IF DOMAIN t.calls = {} THEN ReserveAssistantMessageOutput(t) ELSE t, <<>>)
      [] OTHER -> Emits(s, <<>>)

\* At the end of the stream calls that were never stopped stay open.
AnthropicResponsesEOF(s) ==
    IF s.sentDone THEN Emits(s, <<>>)
    ELSE Then(CompleteAssistantOutput([s EXCEPT !.sentDone = TRUE]),
              LAMBDA t : Emits(t, Completed(t)))

-----------------------------------------------------------------------------
(* The Messages dialect.                                                     *)

MessagesInit ==
    [started |-> FALSE, open |-> FALSE, type |-> "", cur |-> 0, next |-> 0, tools |-> <<>>,
     stop |-> "", finalized |-> FALSE, usage |-> FALSE]

StopReasonFromFinish(finish, hasCalls) ==
    CASE hasCalls \/ finish = "tool_calls" -> "tool_use"
      [] finish \in {"stop", "content_filter"} -> "end_turn"
      [] finish = "length" -> "max_tokens"
      [] OTHER -> finish

EnsureStarted(s) ==
    IF s.started THEN Emits(s, <<>>)
    ELSE Emits([s EXCEPT !.started = TRUE], <<[ev |-> "message_start"]>>)

CloseBlock(s) ==
    IF ~s.open THEN Emits(s, <<>>)
    ELSE Emits([s EXCEPT !.open = FALSE], <<[ev |-> "block_stop", index |-> s.cur]>>)

OpenBlock(s, type, id) ==
    Emits([s EXCEPT !.cur = s.next, !.next = @ + 1, !.open = TRUE, !.type = type],
         <<[ev |-> "block_start", index |-> s.next, type |-> type, id |-> id]>>)

EnsureBlock(s, type) ==
    IF s.open /\ s.type = type THEN Emits(s, <<>>)
    ELSE Then(CloseBlock(s), LAMBDA t : OpenBlock(t, type, 0))

BlockDelta(index, type, pieces) ==
    <<[ev |-> "block_delta", index |-> index, type |-> type, pieces |-> pieces]>>

BlockText(s, type, pieces) ==
    IF pieces = <<>> THEN Emits(s, <<>>)
    ELSE Then(EnsureBlock(s, type), LAMBDA t : Emits(t, BlockDelta(t.cur, type, pieces)))

\* A call's block is opened by its first delta; later deltas address it by its
\* index, open or not.
HandleToolCall(s, d) ==
    LET st == IF d.index \in DOMAIN s.tools THEN Emits(s, <<>>)
              ELSE Then(Then(CloseBlock(s), LAMBDA t : OpenBlock(t, "tool_use", d.id)),
                        LAMBDA t : Emits([t EXCEPT !.tools = (d.index :> t.cur) @@ @], <<>>))
    IN IF d.args = <<>> THEN st
       ELSE Then(st, LAMBDA t : Emits(t, BlockDelta(t.tools[d.index], "tool_use", d.args)))

Finalize(s) ==
    IF s.finalized THEN Emits(s, <<>>)
    ELSE Then(Then(EnsureStarted([s EXCEPT !.finalized = TRUE]), CloseBlock),
              LAMBDA t : Emits(t,
                  <<[ev |-> "message_delta", reason |-> IF t.stop = "" THEN "end_turn" ELSE t.stop,
                     usage |-> t.usage],
                    [ev |-> "message_stop"]>>))

\* Nothing is read from upstream once the message was finalized.
ChatToMessages(s, k) ==
    IF s.finalized THEN Emits(s, <<>>)
    ELSE IF k = DoneChunk THEN Finalize(s)
    ELSE Then(Then(Then(Then(EnsureStarted([s EXCEPT !.usage = k.usage \/ @]),
         LAMBDA t : BlockText(t, "thinking", k.think)),
         LAMBDA t : BlockText(t, "text", k.text)),
         LAMBDA t : FoldLeft(LAMBDA st, d : Then(st, LAMBDA u : HandleToolCall(u, d)),
                             Emits(t, <<>>), k.calls)),
         LAMBDA t : Emits(IF k.finish = "" THEN t
                         ELSE [t EXCEPT !.stop = StopReasonFromFinish(k.finish, DOMAIN t.tools # {})],
                         <<>>))

-----------------------------------------------------------------------------
(* Reading one stream.                                                       *)

FrontInit(d) == CASE d = "responses" -> ResponsesInit
                  [] d = "messages" -> MessagesInit
                  [] OTHER -> [none |-> TRUE]

ConvInit(p) == CASE p = "anthropic" -> AnthropicChatInit
                 [] p = "bedrock" -> BedrockInit
                 [] p = "gemini" -> GeminiInit
                 [] OTHER -> [none |-> TRUE]

\* Anthropic answers the Responses dialect with a converter of its own.
Direct == provider = "anthropic" /\ dialect = "responses"

ProviderStep(e) == CASE provider = "anthropic" -> AnthropicToChat(conv, e)
                     [] provider = "bedrock" -> BedrockToChat(conv, e)
                     [] provider = "gemini" -> GeminiToChat(conv, e)
                     [] OTHER -> Emits(conv, <<e.chunk>>)

FrontStep(chunks) ==
    FoldLeft(LAMBDA st, k : Then(st, LAMBDA t :
                 CASE dialect = "responses" -> ChatToResponses(t, k)
                   [] dialect = "messages" -> ChatToMessages(t, k)
                   [] OTHER -> Emits(t, <<[ev |-> "chunk", chunk |-> k]>>)),
             Emits(front, <<>>), chunks)

\* One event is pulled through the converters.
Pull(e) ==
    IF Direct
    THEN LET f == AnthropicToResponses(front, e)
         IN front' = f.state /\ out' = out \o f.emits /\ UNCHANGED conv
    ELSE LET c == ProviderStep(e)
             f == FrontStep(c.emits)
         IN conv' = c.state /\ front' = f.state /\ out' = out \o f.emits

\* The last chunks of the provider's converter at the end of its stream.
LastChunks == CASE provider = "anthropic" -> <<DoneChunk>>
                [] provider = "bedrock" -> Append(FlushFinish(conv).emits, DoneChunk)
                [] provider = "gemini" -> Append(WriteFinalUsage(conv), DoneChunk)
                [] OTHER -> <<>>

StreamInit ==
    /\ provider \in Providers /\ dialect \in Dialects
    /\ said = <<>> /\ sent = 0 /\ upstream = "open" /\ out = <<>>
    /\ conv = ConvInit(provider) /\ front = FrontInit(dialect)

\* The first Read of the converter to Responses announces the response.
ReadCreated ==
    /\ dialect = "responses" /\ ~Direct /\ ~front.created
    /\ front' = [front EXCEPT !.created = TRUE] /\ out' = <<[ev |-> "created"]>>
    /\ UNCHANGED <<provider, dialect, said, sent, upstream, conv>>

Reading == /\ upstream \in {"open", "stopped", "done"}
           /\ dialect = "responses" /\ ~Direct => front.created

UpEvent(e) ==
    /\ Reading /\ sent < MaxEvents[provider]
    /\ sent' = sent + 1 /\ Pull(e) /\ UNCHANGED <<provider, dialect>>

\* What the converters add at the end of the upstream.
EndStream ==
    LET f  == FrontStep(LastChunks)
        g  == IF Direct THEN AnthropicResponsesEOF(front)
              ELSE IF dialect = "responses" THEN Then(f, AppendCompletedEvents)
              ELSE IF dialect = "messages" THEN Then(f, Finalize)
              ELSE f
    IN front' = g.state /\ out' = out \o g.emits

\* EOF without a terminator is the end of the stream like any other.
ReadEOF ==
    /\ Reading /\ sent > 0 /\ upstream' = IF upstream = "open" THEN "cut" ELSE "eof"
    /\ EndStream
    /\ UNCHANGED <<provider, dialect, said, sent, conv>>

\* Mutant of FailStream: an error is taken for the end.
FailAsEnd == EndStream

\* Any other read error is handed on: nothing is completed.
FailStream == UNCHANGED <<front, out>>

ReadError ==
    /\ Reading /\ upstream' = IF upstream = "done" THEN "dropped" ELSE "broken"
    /\ FailStream
    /\ UNCHANGED <<provider, dialect, said, sent, conv>>

-----------------------------------------------------------------------------
(* What a provider sends: each keeps its own protocol.                       *)

Piece == sent + 1       \* fresh in every event

Block(kind, id, input, pieces) ==
    [kind |-> kind, id |-> id, input |-> input, pieces |-> pieces, closed |-> FALSE]

UsageBlock == Block("usage", 0, <<>>, <<>>)

HasCall == \E i \in DOMAIN said : said[i].kind = "tool_use"

InBlocks == provider \in {"anthropic", "bedrock"}
BetweenBlocks == \A i \in DOMAIN said : said[i].closed

\* Anthropic and Bedrock: content blocks, one open at a time.
MessageStart ==
    /\ InBlocks /\ sent = 0 /\ upstream = "open"
    /\ UpEvent([type |-> "message_start", usage |-> FALSE])
    /\ UNCHANGED <<said, upstream>>

BlockStart ==
    /\ InBlocks /\ sent > 0 /\ upstream = "open"
    /\ BetweenBlocks
    /\ \E kind \in {"text", "thinking", "tool_use"} :
       \E input \in IF kind = "tool_use" /\ provider = "anthropic"
                    THEN {<<>>, <<0>>, <<Piece>>} ELSE {<<>>} :
          /\ said' = Append(said, Block(kind, Len(said) + 1, input,
                                        IF input = <<0>> THEN <<>> ELSE input))
          /\ UpEvent([type |-> "block_start", kind |-> kind, index |-> Len(said),
                      id |-> Len(said) + 1, input |-> input])
    /\ UNCHANGED upstream

BlockContent ==
    /\ InBlocks /\ upstream = "open"
    /\ said # <<>> /\ ~Last(said).closed /\ Last(said).input \in {<<>>, <<0>>}
    /\ said' = [said EXCEPT ![Len(said)].pieces = Append(@, Piece)]
    /\ UpEvent([type |-> "delta", kind |-> Last(said).kind, index |-> Len(said) - 1,
                piece |-> Piece])
    /\ UNCHANGED upstream

BlockStop ==
    /\ InBlocks /\ upstream = "open" /\ said # <<>> /\ ~Last(said).closed
    /\ said' = [said EXCEPT ![Len(said)].closed = TRUE]
    /\ UpEvent([type |-> "block_stop", index |-> Len(said) - 1])
    /\ UNCHANGED upstream

MessageDelta ==
    /\ InBlocks /\ sent > 0 /\ upstream = "open"
    /\ BetweenBlocks
    /\ \E reason \in {"max_tokens", IF HasCall THEN "tool_use" ELSE "end_turn"} :
          UpEvent([type |-> "message_delta", reason |-> reason, usage |-> provider = "anthropic"])
    /\ upstream' = "stopped"
    /\ said' = IF provider = "anthropic" THEN Append(said, UsageBlock) ELSE said

Metadata ==
    /\ provider = "bedrock" /\ upstream = "stopped" /\ ~conv.usage
    /\ UpEvent([type |-> "metadata", usage |-> TRUE])
    /\ said' = Append(said, UsageBlock) /\ UNCHANGED upstream

\* Gemini: any parts in any event; usage in the events that carry it.
GeminiEvent ==
    /\ provider = "gemini" /\ upstream = "open"
    /\ \E text \in {<<>>, <<Piece>>}, n \in 0 .. 2, stop \in BOOLEAN, usage \in BOOLEAN :
          LET calls == [i \in 1 .. n |-> [id |-> 10 * Piece + i, args |-> <<10 * Piece + i>>]]
          IN /\ text # <<>> \/ n > 0 \/ stop
             /\ conv.stopped => text = <<>> /\ n = 0
             /\ UpEvent([type |-> "parts", text |-> text, calls |-> calls,
                         reason |-> IF stop THEN "STOP" ELSE "", usage |-> usage])
             /\ said' = said
                  \o (IF text = <<>> THEN <<>> ELSE <<Block("text", Piece, <<>>, text)>>)
                  \o [i \in 1 .. n |-> Block("tool_use", calls[i].id, <<>>, calls[i].args)]
             /\ upstream' = IF stop THEN "stopped" ELSE "open"

GeminiBlocked ==
    /\ provider = "gemini" /\ sent = 0 /\ upstream = "open"
    /\ UpEvent([type |-> "blocked"]) /\ UNCHANGED <<said, upstream>>

\* OpenAI-compatible: the chunks of several calls may alternate, the name of a
\* call may come after its id, and usage in a chunk after the finish reason.
Say(kind) == IF said # <<>> /\ Last(said).kind = kind
             THEN [said EXCEPT ![Len(said)].pieces = Append(@, Piece)]
             ELSE Append(said, Block(kind, Piece, <<>>, <<Piece>>))

SaidCalls == SelectSeq(said, LAMBDA b : b.kind = "tool_use")

OpenAIText ==
    /\ provider = "openai" /\ upstream = "open"
    /\ \E think \in BOOLEAN :
          /\ said' = Say(IF think THEN "thinking" ELSE "text")
          /\ UpEvent([chunk |-> IF think THEN ThinkChunk(Piece) ELSE TextChunk(Piece)])
    /\ UNCHANGED upstream

OpenAICall ==
    /\ provider = "openai" /\ upstream = "open" /\ Len(SaidCalls) < 2
    /\ \E named \in BOOLEAN, args \in {<<>>, <<Piece>>} :
          /\ said' = Append(said, Block("tool_use", Piece, <<>>, args))
          /\ UpEvent([chunk |-> CallChunk(CallDelta(Len(SaidCalls), Piece, named, args))])
    /\ UNCHANGED upstream

OpenAIArguments ==
    /\ provider = "openai" /\ upstream = "open"
    /\ \E c \in DOMAIN SaidCalls, named \in BOOLEAN :
          /\ said' = [i \in DOMAIN said |-> IF said[i].id = SaidCalls[c].id
                                            THEN [said[i] EXCEPT !.pieces = Append(@, Piece)]
                                            ELSE said[i]]
          /\ UpEvent([chunk |-> CallChunk(CallDelta(c - 1, 0, named, <<Piece>>))])
    /\ UNCHANGED upstream

OpenAIFinish ==
    /\ provider = "openai" /\ sent > 0 /\ upstream = "open"
    /\ UpEvent([chunk |-> FinishChunk(IF HasCall THEN "tool_calls" ELSE "stop", FALSE)])
    /\ upstream' = "stopped" /\ UNCHANGED said

OpenAIUsage ==
    /\ provider = "openai" /\ upstream = "stopped"
    /\ UpEvent([chunk |-> [EmptyChunk EXCEPT !.usage = TRUE]])
    /\ said' = Append(said, UsageBlock) /\ UNCHANGED upstream

OpenAIDone ==
    /\ provider = "openai" /\ upstream = "stopped"
    /\ UpEvent([chunk |-> DoneChunk])
    /\ upstream' = "done" /\ UNCHANGED said

StreamNext ==
    \/ ReadCreated \/ ReadEOF \/ ReadError
    \/ MessageStart \/ BlockStart \/ BlockContent \/ BlockStop \/ MessageDelta \/ Metadata
    \/ GeminiEvent \/ GeminiBlocked
    \/ OpenAIText \/ OpenAICall \/ OpenAIArguments \/ OpenAIFinish \/ OpenAIUsage \/ OpenAIDone

StreamSpec == StreamInit /\ [][StreamNext]_streamVars

-----------------------------------------------------------------------------
(* What the client makes of it.                                              *)

Flat(seqs) == FoldLeft(LAMBDA a, b : a \o b, <<>>, seqs)

Events(Test(_)) == SelectSeq(out, Test)

Pieces(events) == Flat([i \in DOMAIN events |-> events[i].pieces])

\* The deltas of all chunks the client got, with the chunk's position.
ChunkCalls == Flat([i \in DOMAIN out |-> IF out[i].ev = "chunk" THEN out[i].chunk.calls ELSE <<>>])

\* The text put together from the deltas.
HeardText ==
    CASE dialect = "responses" -> Pieces(Events(LAMBDA e : e.ev = "text"))
      [] dialect = "messages" -> Pieces(Events(LAMBDA e : e.ev = "block_delta" /\ e.type = "text"))
      [] OTHER -> Flat([i \in DOMAIN out |-> out[i].chunk.text])

SaidText == Flat([i \in DOMAIN said |-> IF said[i].kind = "text" THEN said[i].pieces ELSE <<>>])

\* The items a client holds for a call id, each with the arguments it put
\* together from the deltas addressed to that item.
HeardItems(id) ==
    CASE dialect = "responses" ->
            LET items == Events(LAMBDA e : e.ev = "done" /\ e.item = "call" /\ e.id = id)
            IN [i \in DOMAIN items |-> items[i].content]
      [] dialect = "messages" ->
            LET items == Events(LAMBDA e : e.ev = "block_start" /\ e.id = id)
            IN [i \in DOMAIN items |->
                  Pieces(Events(LAMBDA e : e.ev = "block_delta" /\ e.index = items[i].index))]
      [] OTHER ->
            LET firsts == SelectSeq(ChunkCalls, LAMBDA d : d.id = id)
                args(index) == Flat([j \in DOMAIN ChunkCalls |->
                                 IF ChunkCalls[j].index = index THEN ChunkCalls[j].args ELSE <<>>])
            IN [i \in DOMAIN firsts |-> args(firsts[i].index)]

SaidArguments(b) == IF b.pieces = <<>> THEN b.input ELSE b.pieces

\* Function calls of more than one native Gemini event: streamToolCalls numbers
\* each event's calls from 0, so the client takes them for the same call.
GeminiSplitsCalls ==
    provider = "gemini" /\ Cardinality({c.id \div 10 : c \in ToSet(SaidCalls)}) > 1

\* What the provider said is what the client puts together: the text in its
\* order at every moment, and once the stream ended every tool call exactly once
\* under its own id with exactly its own arguments, whatever the order in which
\* blocks, placeholders and argument pieces of several calls came
\* (AnthropicToChat .. ChatToMessages; native Gemini calls spread over several
\* events are merged, see GeminiSplitsCalls).
ContentArrivesWhole ==
    /\ HeardText = SaidText
    /\ upstream = "eof" /\ ~GeminiSplitsCalls =>
          \A c \in ToSet(SaidCalls) : HeardItems(c.id) = <<SaidArguments(c)>>

Ended == upstream \in {"eof", "cut"}

Before(i, Test(_)) == \E j \in 1 .. i - 1 : Test(out[j])
IsItem(e, kind, item, id) == e.ev = kind /\ e.item = item /\ e.id = id

\* Text after a call: the assistant message is already done by then, or the
\* call already started at output 0 (reserveAssistantOutput moves only calls that
\* have not started).
TextAfterCall ==
    \E i, j \in DOMAIN said : i < j /\ said[i].kind = "tool_use" /\ said[j].kind = "text"

ResponsesEventFits(i) ==
    LET e == out[i] IN
    CASE e.ev = "created" -> i = 1
      [] e.ev = "added" ->
            /\ ~Before(i, LAMBDA f : IsItem(f, "added", e.item, e.id))
            /\ ~Before(i, LAMBDA f : f.ev = "added" /\ f.index = e.index) \/ TextAfterCall
      [] e.ev = "text" ->
            /\ Before(i, LAMBDA f : IsItem(f, "added", "message", 0))
            /\ ~Before(i, LAMBDA f : IsItem(f, "done", "message", 0)) \/ TextAfterCall
      [] e.ev \in {"args", "args_done"} ->
            /\ Before(i, LAMBDA f : IsItem(f, "added", "call", e.id) /\ f.index = e.index)
            /\ ~Before(i, LAMBDA f : IsItem(f, "done", "call", e.id)) \/ GeminiSplitsCalls
      [] e.ev = "done" ->
            /\ Before(i, LAMBDA f : IsItem(f, "added", e.item, e.id) /\ f.index = e.index)
            /\ ~Before(i, LAMBDA f : IsItem(f, "done", e.item, e.id))
      [] e.ev = "completed" ->
            /\ ~Before(i, LAMBDA f : f.ev = "completed")
            /\ \A j \in 1 .. i : out[j].ev = "added" =>
                  Before(i, LAMBDA f : IsItem(f, "done", out[j].item, out[j].id))
                  \/ (Direct /\ upstream = "cut") \/ GeminiSplitsCalls
      [] OTHER -> i = Len(out) /\ out[i - 1].ev = "completed"

OpenBlocks(i) == {e.index : e \in {f \in ToSet(SubSeq(out, 1, i - 1)) : f.ev = "block_start"}}
                 \ {e.index : e \in {f \in ToSet(SubSeq(out, 1, i - 1)) : f.ev = "block_stop"}}

MessagesEventFits(i) ==
    LET e == out[i] IN
    CASE e.ev = "message_start" -> i = 1
      [] e.ev = "block_start" ->
            /\ OpenBlocks(i) = {}
            /\ e.index = Len(SelectSeq(SubSeq(out, 1, i - 1), LAMBDA f : f.ev = "block_start"))
      [] e.ev = "block_delta" ->
            /\ Before(i, LAMBDA f : f.ev = "block_start" /\ f.index = e.index /\ f.type = e.type)
            /\ OpenBlocks(i) = {e.index} \/ (provider = "openai" /\ e.type = "tool_use")
               \/ GeminiSplitsCalls
      [] e.ev = "block_stop" -> OpenBlocks(i) = {e.index}
      [] e.ev = "message_delta" -> OpenBlocks(i) = {} /\ ~Before(i, LAMBDA f : f.ev = "message_delta")
      [] OTHER -> i = Len(out) /\ out[i - 1].ev = "message_delta"

\* The event grammar of each dialect holds for every upstream: an item is
\* announced once, under an index of its own, before its deltas; it is closed
\* once and gets no delta afterwards; everything announced is closed before the
\* one terminal event, which comes when the upstream reached its end or said
\* [DONE], never before and never after a read error short of that (the sentDone,
\* finalized, assistantDone, Started and Completed flags of the converters).
\* What the code does not keep, and is left out: an OpenAI-compatible provider
\* that comes back to an earlier call after it began another has the later
\* pieces sent to a Messages block that is closed (handleToolCall finds a block by
\* the call's index, open or not); the calls of native Gemini that are taken for
\* one (GeminiSplitsCalls); text after a call (TextAfterCall); and the items that
\* Anthropic's converter to Responses leaves open when the stream is cut.
StreamIsWellFormed ==
    /\ dialect = "responses" => \A i \in DOMAIN out : ResponsesEventFits(i)
    /\ dialect = "messages" => \A i \in DOMAIN out : MessagesEventFits(i)
    /\ Ended => \/ dialect = "responses" /\ Last(out).ev = "[DONE]"
                \/ dialect = "messages" /\ Last(out).ev = "message_stop"
                \/ dialect = "chat" /\ (Last(out).chunk = DoneChunk \/ provider = "openai")
    /\ upstream \in {"open", "stopped", "broken"} =>
          \A i \in DOMAIN out : out[i].ev \notin {"completed", "[DONE]", "message_stop"}

\* Usage the provider reported; the native Gemini converter keeps that of the
\* last event only, and none once the prompt was blocked.
Reported == IF provider = "gemini" THEN conv.usage /\ ~conv.stopped
            ELSE \E i \in DOMAIN said : said[i].kind = "usage"

Told == \E i \in DOMAIN out :
           CASE out[i].ev = "chunk" -> out[i].chunk.usage
             [] out[i].ev \in {"completed", "message_delta"} -> out[i].usage
             [] OTHER -> FALSE

\* The end of the message tells the truth: a Messages client is told "tool_use"
\* exactly when the provider called a tool, and the usage the provider reported
\* reaches the client, and with it the usage observer, in whichever order finish
\* reason, metadata and end of stream came (mapStreamStopReason, mapStopReason,
\* finishReasonFromGemini, stopReasonFromFinish; Bedrock's deferred finish chunk,
\* cachedUsage).
EndIsReported ==
    upstream = "eof" =>
        /\ Told = Reported
        /\ dialect = "messages" => (out[Len(out) - 1].reason = "tool_use") = HasCall

\* A client can read the stream it gets to its end and trust that end.
StreamIsSound == StreamIsWellFormed /\ EndIsReported
=============================================================================
