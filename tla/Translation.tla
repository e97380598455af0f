----------------------------- MODULE Translation -----------------------------
(* An agent loop through the adapters. A client of one of the gateway's APIs *)
(* (chat completions, Anthropic messages, responses, or responses over a     *)
(* conversation the gateway stores) sends its history; the gateway turns it  *)
(* into the canonical chat request and that into the provider's own; the     *)
(* provider's answer is turned back, the client appends it to its history,   *)
(* runs the tools it was asked to call and sends again.                      *)
(*                                                                           *)
(* A text, an image, the arguments of a call and a tool's output are numbers *)
(* (0 is the empty string); a string is the sequence of the texts joined in  *)
(* it, so separators are left out. The output of a call has its number.      *)
EXTENDS Naturals, Sequences, SequencesExt, TLC

CONSTANTS
  Casts,      \* the API, the provider and the first message of a behaviour
  Answers,    \* what a model answers: the kinds of its blocks, in order
  MaxRounds   \* requests of a behaviour

VARIABLES
  cast,
  said,       \* what was said, turn by turn, whatever the forms
  history,    \* the conversation as the client, or the store, keeps it
  asked,      \* the calls of the last answer, as the client sees them
  received,   \* <<>> or the last request as the provider got it
  phase, round

translationVars == <<cast, said, history, asked, received, phase, round>>

(***************************************************************************)
(* Pieces of a message, canonical messages and items of the APIs.          *)
(***************************************************************************)
Piece(kind, n) == [kind |-> kind, n |-> n, ref |-> <<>>, name |-> <<>>]
Text(n) == Piece("text", n)
CallPiece(ref, name, n) == [kind |-> "call", n |-> n, ref |-> ref, name |-> name]
Result(ref, name, n) == [kind |-> "result", n |-> n, ref |-> ref, name |-> name]

OfKind(pieces, kinds) == SelectSeq(pieces, LAMBDA p : p.kind \in kinds)
MediaKinds == {"image", "remote", "audio"}

(* core.Message: the content is null, a string or typed parts; extra tells   *)
(* whether it carries members the gateway does not know (types.go).          *)
Message(role, form, parts, calls) ==
  [role |-> role, form |-> form, parts |-> parts, calls |-> calls, ref |-> <<>>, extra |-> FALSE]
ToolMessage(ref, n) == [Message("tool", "text", <<Text(n)>>, <<>>) EXCEPT !.ref = ref]

HasStructuredContent(m) == m.form = "parts"
\* The texts of a content, without the empty one; parts that are no text are skipped.
ExtractTextContent(m) == SelectSeq(m.parts, LAMBDA p : p.kind = "text" /\ p.n # 0)

(* One item of a Responses input or output; known tells that it has no id.   *)
Item(type, role, blocks) ==
  [type |-> type, role |-> role, blocks |-> blocks, call |-> CallPiece(<<>>, <<>>, 0), known |-> TRUE]
CallItem(call) == [Item("function_call", "", <<>>) EXCEPT !.call = call]
OutputItem(ref, n) == [Item("function_call_output", "", <<>>) EXCEPT !.call = CallPiece(ref, <<>>, n)]

(***************************************************************************)
(* Anthropic Messages requests to chat (anthropicapi/request.go).          *)
(***************************************************************************)
collapseParts(parts) ==
  IF parts = <<>> THEN "null" ELSE IF OfKind(parts, MediaKinds) = <<>> THEN "text" ELSE "parts"

(* Mutant of convertBlockMessage: a message with tool results is taken for   *)
(* the results alone.                                                        *)
ResultsAlone(m) ==
  LET tools == [i \in DOMAIN OfKind(m.blocks, {"result"}) |->
                  ToolMessage(OfKind(m.blocks, {"result"})[i].ref, OfKind(m.blocks, {"result"})[i].n)]
      parts == SelectSeq(m.blocks, LAMBDA b : b.kind \in {"text", "image", "remote"} /\ b.n # 0)
      calls == OfKind(m.blocks, {"call"})
  IN  IF tools # <<>> THEN tools
      ELSE IF parts = <<>> /\ calls = <<>> THEN <<>>
      ELSE <<Message(m.role, collapseParts(parts), parts, calls)>>

(* Results become tool messages of their own, ahead of what else the message *)
(* says; thinking is dropped.                                                *)
convertBlockMessage(m) ==
  LET results == OfKind(m.blocks, {"result"})
      parts == SelectSeq(m.blocks, LAMBDA b : b.kind \in {"text", "image", "remote"} /\ b.n # 0)
      calls == OfKind(m.blocks, {"call"})
  IN  [i \in DOMAIN results |-> ToolMessage(results[i].ref, results[i].n)]
        \o (IF parts = <<>> /\ calls = <<>> THEN <<>>
            ELSE <<Message(m.role, collapseParts(parts), parts, calls)>>)

(* A block with a payload the chat form cannot carry.                        *)
UnsupportedBlock(m) == OfKind(m.blocks, {"audio"}) # <<>>

systemText(blocks) == OfKind(blocks, {"text"})

(* System messages of the array join the system field, after it.             *)
convertMessages(system, messages) ==
  LET of(role) == SelectSeq(messages, LAMBDA m : (m.role = "system") = (role = "system"))
      joined == systemText(system \o FlattenSeq([i \in DOMAIN of("system") |-> of("system")[i].blocks]))
      others == of("user")
  IN  (IF joined = <<>> THEN <<>> ELSE <<Message("system", "text", joined, <<>>)>>)
        \o FlattenSeq([i \in DOMAIN others |-> convertBlockMessage(others[i])])

(***************************************************************************)
(* Responses requests to chat (responses_input.go, responses_content.go).  *)
(***************************************************************************)
(* A content with an empty text, or with nothing, is not supported.          *)
UnsupportedContent(item) ==
  item.type = "message" /\ (item.blocks = <<>> \/ \E i \in DOMAIN item.blocks : item.blocks[i].n = 0)

finalizeResponsesChatContent(parts) == IF OfKind(parts, MediaKinds) = <<>> THEN "text" ELSE "parts"

convertResponsesInputItem(item) ==
  CASE item.type = "function_call" -> Message("assistant", "null", <<>>, <<item.call>>)
    [] item.type = "function_call_output" -> ToolMessage(item.call.ref, item.call.n)
    [] OTHER -> [Message(item.role, finalizeResponsesChatContent(item.blocks), item.blocks, <<>>)
                   EXCEPT !.extra = ~item.known]

isAssistantToolCallOnlyMessage(m) ==
  m.calls # <<>> /\ ~HasStructuredContent(m) /\ ExtractTextContent(m) = <<>>

canMergeAssistantMessages(current, next) ==
  /\ ~current.extra /\ ~next.extra
  /\ \/ ~HasStructuredContent(current) /\ ~HasStructuredContent(next)
     \/ isAssistantToolCallOnlyMessage(next)

mergeAssistantMessage(dst, src) ==
  LET text == ExtractTextContent(src)
  IN  [dst EXCEPT !.form = IF text # <<>> THEN "text" ELSE @,
                  !.parts = IF text # <<>> THEN ExtractTextContent(dst) \o text ELSE @,
                  !.calls = @ \o src.calls]

(* Calls join the assistant message before them; any other item ends it.     *)
convertResponsesInputItems(items) ==
  LET step(s, item) ==
        LET m == convertResponsesInputItem(item) IN
        IF m.role # "assistant"
        THEN [out |-> s.out \o s.pending \o <<m>>, pending |-> <<>>]
        ELSE IF s.pending # <<>> /\ item.type # "message" /\ canMergeAssistantMessages(s.pending[1], m)
        THEN [s EXCEPT !.pending = <<mergeAssistantMessage(s.pending[1], m)>>]
        ELSE [out |-> s.out \o s.pending, pending |-> <<m>>]
      end == FoldLeft(step, [out |-> <<>>, pending |-> <<>>], items)
  IN  end.out \o end.pending

ConvertResponsesRequestToChat(instructions, items) ==
  (IF instructions = <<>> THEN <<>> ELSE <<Message("system", "text", instructions, <<>>)>>)
    \o convertResponsesInputItems(items)

(* A stored conversation is replayed without the ids of its items.           *)
mergeConversationInput(items) == [i \in DOMAIN items |-> [items[i] EXCEPT !.known = TRUE]]

(***************************************************************************)
(* Chat to the providers.                                                  *)
(***************************************************************************)
Turn(role, blocks) == [role |-> role, blocks |-> blocks]

(* Anthropic (request_translation.go): tool messages become user messages,   *)
(* and a message keeps its role otherwise.                                   *)
convertMessageContentToAnthropic(m) == SelectSeq(m.parts, LAMBDA p : p.n # 0)

buildAnthropicMessageContent(m) ==
  IF m.role = "tool" THEN <<Result(m.ref, <<>>, m.parts[1].n)>>
  ELSE convertMessageContentToAnthropic(m) \o m.calls

convertToAnthropicRequest(messages) ==
  LET rest == SelectSeq(messages, LAMBDA m : m.role # "system")
      system == SelectSeq(messages, LAMBDA m : m.role = "system")
  IN  [system |-> FlattenSeq([i \in DOMAIN system |-> ExtractTextContent(system[i])]),
       turns |-> [i \in DOMAIN rest |->
                    Turn(IF rest[i].role = "tool" THEN "user" ELSE rest[i].role,
                         buildAnthropicMessageContent(rest[i]))]]

AnthropicRefuses(messages) ==
  \E i \in DOMAIN messages : OfKind(messages[i].parts, {"audio"}) # <<>>

(* Gemini (native.go): a result is sent under the name of the last call with *)
(* its id seen so far; a message of no parts is skipped.                     *)
geminiPartsFromMessage(m) ==
  IF m.calls # <<>> THEN ExtractTextContent(m) \o m.calls ELSE SelectSeq(m.parts, LAMBDA p : p.n # 0)

geminiPartsFromToolMessage(m, names) ==
  <<Result(m.ref, IF m.ref \in DOMAIN names THEN names[m.ref] ELSE m.ref, m.parts[1].n)>>

NamesOf(calls, names) == FoldLeft(LAMBDA f, c : (c.ref :> c.name) @@ f, names, calls)

(* Mutant of convertChatRequestToGemini: the names of all calls are          *)
(* collected first, for the results to look them up.                         *)
NamesCollectedFirst(messages) ==
  LET all == FoldLeft(LAMBDA f, m : NamesOf(m.calls, f), <<>>, messages)
      parts(m) == IF m.role = "tool" THEN geminiPartsFromToolMessage(m, all) ELSE geminiPartsFromMessage(m)
      step(s, m) ==
        IF parts(m) = <<>> THEN s
        ELSE IF m.role \in {"system", "developer"} THEN [s EXCEPT !.system = @ \o parts(m)]
        ELSE [s EXCEPT !.turns = Append(@, Turn(IF m.role = "assistant" THEN "assistant" ELSE "user", parts(m)))]
  IN  FoldLeft(step, [system |-> <<>>, turns |-> <<>>], messages)

convertChatRequestToGemini(messages) ==
  LET step(s, m) ==
        LET parts == IF m.role = "tool" THEN geminiPartsFromToolMessage(m, s.names)
                     ELSE geminiPartsFromMessage(m) IN
        IF parts = <<>> THEN s
        ELSE IF m.role \in {"system", "developer"} THEN [s EXCEPT !.system = @ \o parts]
        ELSE [s EXCEPT !.turns = Append(@, Turn(IF m.role = "assistant" THEN "assistant" ELSE "user", parts)),
                       !.names = IF m.role = "assistant" THEN NamesOf(m.calls, @) ELSE @]
      end == FoldLeft(step, [system |-> <<>>, turns |-> <<>>, names |-> <<>>], messages)
  IN  [system |-> end.system, turns |-> end.turns]

GeminiRefuses(messages) ==
  \E i \in DOMAIN messages : messages[i].calls = <<>> /\ OfKind(messages[i].parts, {"remote"}) # <<>>

(* Bedrock (bedrock/chat.go): only texts are taken, results wait for the     *)
(* message after them, and neighbours of one role become one turn.           *)
appendOrMerge(turns, role, blocks) ==
  CASE blocks = <<>> -> turns
    [] turns # <<>> /\ Last(turns).role = role -> Append(Front(turns), Turn(role, Last(turns).blocks \o blocks))
    [] OTHER -> Append(turns, Turn(role, blocks))

convertAssistantMessage(m) == ExtractTextContent(m) \o m.calls

convertMessagesToConverse(messages) ==
  LET flushed(s) == appendOrMerge(s.turns, "user", s.waiting)
      step(s, m) ==
        CASE m.role = "tool" -> [s EXCEPT !.waiting = Append(@, Result(m.ref, <<>>, m.parts[1].n))]
          [] m.role \in {"system", "developer"} ->
               [system |-> s.system \o ExtractTextContent(m), turns |-> flushed(s), waiting |-> <<>>]
          [] m.role = "assistant" ->
               [s EXCEPT !.turns = appendOrMerge(flushed(s), "assistant", convertAssistantMessage(m)), !.waiting = <<>>]
          [] OTHER ->
               [s EXCEPT !.turns = appendOrMerge(flushed(s), "user", ExtractTextContent(m)), !.waiting = <<>>]
      end == FoldLeft(step, [system |-> <<>>, turns |-> <<>>, waiting |-> <<>>], messages)
  IN  [system |-> end.system, turns |-> flushed(end)]

(* Providers that speak chat completions get the messages as they are        *)
(* (message_json.go); the roles are those of this module's turns.            *)
MarshalMessages(messages) ==
  LET system == SelectSeq(messages, LAMBDA m : m.role \in {"system", "developer"})
      rest == SelectSeq(messages, LAMBDA m : m.role \notin {"system", "developer"})
  IN  [system |-> FlattenSeq([i \in DOMAIN system |-> system[i].parts]),
       turns |-> [i \in DOMAIN rest |->
                    IF rest[i].role = "tool" THEN Turn("user", <<Result(rest[i].ref, <<>>, rest[i].parts[1].n)>>)
                    ELSE Turn(rest[i].role, rest[i].parts \o rest[i].calls)]]

ProviderRequest(messages) ==
  CASE cast.provider = "anthropic" -> convertToAnthropicRequest(messages)
    [] cast.provider = "gemini" -> convertChatRequestToGemini(messages)
    [] cast.provider = "bedrock" -> convertMessagesToConverse(messages)
    [] OTHER -> MarshalMessages(messages)

(***************************************************************************)
(* The client sends its history.                                           *)
(***************************************************************************)
ChatMessages ==
  CASE cast.api = "chat" -> history
    [] cast.api = "messages" -> convertMessages(cast.system, history)
    [] cast.api = "responses" -> ConvertResponsesRequestToChat(cast.system, history)
    [] cast.api = "conversation" -> ConvertResponsesRequestToChat(cast.system, mergeConversationInput(history))

Refused ==
  \/ cast.api = "messages" /\ \E i \in DOMAIN history : UnsupportedBlock(history[i])
  \/ cast.api \in {"responses", "conversation"} /\ \E i \in DOMAIN history : UnsupportedContent(history[i])
  \/ cast.provider = "anthropic" /\ AnthropicRefuses(ChatMessages)
  \/ cast.provider = "gemini" /\ GeminiRefuses(ChatMessages)

Send ==
  /\ phase = "client"
  /\ IF Refused THEN phase' = "refused" /\ received' = <<>>
     ELSE phase' = "provider" /\ received' = <<ProviderRequest(ChatMessages)>>
  /\ UNCHANGED <<cast, said, history, asked, round>>

(***************************************************************************)
(* The provider answers. The numbers of a round are 10 * round + position. *)
(***************************************************************************)
(* What the model says: its blocks, and the ids of its calls. Gemini may     *)
(* leave the ids out.                                                        *)
Number(i) == 10 * round + i
CallName(n) == IF n % 2 = 0 THEN <<"list">> ELSE IF n < 20 THEN <<"read">> ELSE <<"write">>
Block(kind, i) ==
  CASE kind = "call" -> CallPiece(<<"id", Number(i)>>, CallName(Number(i)), Number(i))
    [] kind = "unnumbered" -> CallPiece(<<>>, CallName(Number(i)), Number(i))
    [] OTHER -> Piece(kind, Number(i))

(* A chat response: its text, whether the content is null, calls, thinking.  *)
ChatResponse(text, null, calls, thinking) ==
  [text |-> text, null |-> null, calls |-> calls, thinking |-> thinking]

(* Text before the last thinking block is taken for a preamble.              *)
extractTextContent(blocks) ==
  LET last == Len(blocks) - SelectInSeq(Reverse(blocks), LAMBDA b : b.kind = "thinking") + 1
  IN  OfKind(IF OfKind(blocks, {"thinking"}) = <<>> THEN blocks
             ELSE SubSeq(blocks, last, Len(blocks)), {"text"})

convertFromAnthropicResponse(blocks) ==
  ChatResponse(extractTextContent(blocks), FALSE, OfKind(blocks, {"call"}), OfKind(blocks, {"thinking"}))

openAIMessageFromGeminiParts(blocks) ==
  LET named == [i \in DOMAIN blocks |->
                  IF blocks[i].kind = "call" /\ blocks[i].ref = <<>>
                  THEN [blocks[i] EXCEPT !.ref = <<"call", i - 1>>] ELSE blocks[i]]
  IN  ChatResponse(OfKind(named, {"text"}), FALSE, OfKind(named, {"call"}), <<>>)

convertConverseOutput(blocks) ==
  ChatResponse(OfKind(blocks, {"text"}), FALSE, OfKind(blocks, {"call"}), <<>>)

\* A chat completions provider answers a null content when it only calls.
UnmarshalResponse(blocks) ==
  ChatResponse(OfKind(blocks, {"text"}), OfKind(blocks, {"text"}) = <<>>, OfKind(blocks, {"call"}),
               OfKind(blocks, {"thinking"}))

FromProvider(blocks) ==
  CASE cast.provider = "anthropic" -> convertFromAnthropicResponse(blocks)
    [] cast.provider = "gemini" -> openAIMessageFromGeminiParts(blocks)
    [] cast.provider = "bedrock" -> convertConverseOutput(blocks)
    [] OTHER -> UnmarshalResponse(blocks)

(* What the client gets, as it keeps it.                                     *)
MarshalResponseMessage(r) ==
  <<[Message("assistant", IF r.calls # <<>> /\ r.text = <<>> THEN "null" ELSE "text", r.text, r.calls)
       EXCEPT !.extra = r.thinking # <<>>]>>

FromChatResponse(r) == <<Turn("assistant", r.thinking \o r.text \o r.calls)>>

(* A string content, the empty one too, becomes one output text.             *)
buildResponsesMessageContent(r) ==
  IF r.text # <<>> THEN r.text ELSE IF r.null THEN <<>> ELSE <<Text(0)>>

BuildResponsesOutputItems(r) ==
  LET content == buildResponsesMessageContent(r)
      message == [Item("message", "assistant", IF content = <<>> THEN <<Text(0)>> ELSE content)
                    EXCEPT !.known = FALSE]
  IN  (IF content # <<>> \/ r.calls = <<>> THEN <<message>> ELSE <<>>)
        \o [i \in DOMAIN r.calls |-> CallItem(r.calls[i])]

ToClient(r) ==
  CASE cast.api = "chat" -> MarshalResponseMessage(r)
    [] cast.api = "messages" -> FromChatResponse(r)
    [] OTHER -> BuildResponsesOutputItems(r)

Said(role, says, calls, results) == [role |-> role, says |-> says, calls |-> calls, results |-> results]
\* A call by what it calls, whatever its id.
Bare(calls) == [i \in DOMAIN calls |-> <<calls[i].name, calls[i].n>>]

\* What a model said that a client is told: Anthropic's preambles are not.
Told(blocks) == IF cast.provider = "anthropic" THEN extractTextContent(blocks) ELSE OfKind(blocks, {"text"})

Answer ==
  /\ phase = "provider" /\ round < MaxRounds
  /\ \E kinds \in Answers :
       LET blocks == [i \in DOMAIN kinds |-> Block(kinds[i], i)]
           response == FromProvider(blocks) IN
       /\ (\E i \in DOMAIN kinds : kinds[i] = "unnumbered") => cast.provider = "gemini"
       /\ said' = Append(said, Said("assistant", Told(blocks), Bare(OfKind(blocks, {"call"})), <<>>))
       /\ history' = history \o ToClient(response)
       /\ asked' = response.calls
  /\ phase' = "answered"
  /\ UNCHANGED <<cast, received, round>>

(***************************************************************************)
(* The client runs its tools, in any order, and may add a text.            *)
(***************************************************************************)
Replied(calls, text) ==
  LET results == [i \in DOMAIN calls |-> Result(calls[i].ref, <<>>, calls[i].n)] IN
  CASE cast.api = "chat" ->
         [i \in DOMAIN calls |-> ToolMessage(calls[i].ref, calls[i].n)]
           \o (IF text = <<>> THEN <<>> ELSE <<Message("user", "text", text, <<>>)>>)
    [] cast.api = "messages" -> <<Turn("user", results \o text)>>
    [] OTHER -> [i \in DOMAIN calls |-> OutputItem(calls[i].ref, calls[i].n)]
                  \o (IF text = <<>> THEN <<>> ELSE <<Item("message", "user", text)>>)

Reply ==
  /\ phase = "answered"
  /\ \E calls \in {asked, Reverse(asked)}, text \in {<<>>, <<Text(Number(9))>>} :
       /\ calls # <<>> \/ text # <<>>
       /\ history' = history \o Replied(calls, text)
       /\ said' = Append(said, Said("user", text, <<>>, [i \in DOMAIN calls |-> calls[i].n]))
  /\ phase' = "client" /\ round' = round + 1 /\ asked' = <<>>
  /\ UNCHANGED <<cast, received>>

(* How a conversation opens: a system prompt, and what the user says. The    *)
(* prompt travels as a message of the chat API and, for a developer prompt,  *)
(* of the responses API; else in the field the API has for it.               *)
Opening(c) ==
  LET form == finalizeResponsesChatContent(c.says) IN
  CASE c.api = "chat" ->
         (IF c.prompt = <<>> THEN <<>> ELSE <<Message(c.role, "text", c.prompt, <<>>)>>)
           \o <<Message("user", form, c.says, <<>>)>>
    [] c.api = "messages" ->
         (IF c.prompt = <<>> THEN <<>> ELSE <<Turn("system", c.prompt)>>) \o <<Turn("user", c.says)>>
    [] OTHER -> (IF c.prompt = <<>> THEN <<>> ELSE <<Item("message", c.role, c.prompt)>>)
                  \o <<Item("message", "user", c.says)>>

TranslationInit ==
  /\ cast \in Casts
  /\ said = <<Said("user", cast.says, <<>>, <<>>)>>
  /\ history = Opening(cast)
  /\ asked = <<>> /\ received = <<>>
  /\ phase = "client" /\ round = 1

TranslationNext == Send \/ Answer \/ Reply

TranslationSpec == TranslationInit /\ [][TranslationNext]_translationVars

(***************************************************************************)
(* Properties.                                                             *)
(***************************************************************************)
\* Turns of one role in a row are one turn; a turn of nothing is none.
Joined(turns) ==
  LET step(out, t) ==
        IF t.says = <<>> /\ t.calls = <<>> /\ t.results = <<>> THEN out
        ELSE IF out # <<>> /\ Last(out).role = t.role
        THEN Append(Front(out), Said(t.role, Last(out).says \o t.says, Last(out).calls \o t.calls,
                                     Last(out).results \o t.results))
        ELSE Append(out, t)
  IN  FoldLeft(step, <<>>, turns)

Heard(turns) ==
  [i \in DOMAIN turns |->
     Said(turns[i].role, OfKind(turns[i].blocks, {"text"} \cup MediaKinds),
          Bare(OfKind(turns[i].blocks, {"call"})),
          LET results == OfKind(turns[i].blocks, {"result"}) IN [k \in DOMAIN results |-> results[k].n])]

\* Bedrock is sent the texts of a message only (chat.go:147).
WithoutMedia(turns) == [i \in DOMAIN turns |-> [turns[i] EXCEPT !.says = OfKind(@, {"text"})]]

\* Anthropic is sent a developer message as a message of that role (request_translation.go:347).
DeveloperTurn == cast.provider = "anthropic" /\ cast.prompt # <<>> /\ cast.role = "developer"

(* The provider hears the conversation as it went: every turn, text, call    *)
(* and result of it, once and in order, and the system prompts, through      *)
(* every pair of API and provider (request.go, responses_input.go,           *)
(* request_translation.go, native.go, bedrock/chat.go).                      *)
ConversationIsKept ==
  received # <<>> /\ phase = "provider" /\ ~DeveloperTurn =>
    /\ received[1].system = cast.system \o cast.prompt
    /\ Joined(Heard(received[1].turns))
         = Joined(IF cast.provider = "bedrock" THEN WithoutMedia(said) ELSE said)

(* Every result the provider gets stands in the turn right after the call it *)
(* answers, the only call of that turn with its id; Gemini's result carries  *)
(* the name of that call although ids come back in later rounds; Bedrock's   *)
(* turns alternate (native.go:163, bedrock/chat.go:118).                     *)
ResultsFollowTheirCalls ==
  received # <<>> =>
    LET turns == FoldLeft(LAMBDA out, t : appendOrMerge(out, t.role, t.blocks), <<>>, received[1].turns)
        calls(i) == {k \in DOMAIN turns[i].blocks : turns[i].blocks[k].kind = "call"}
    IN  /\ \A i \in DOMAIN turns : \A k \in DOMAIN turns[i].blocks :
             LET r == turns[i].blocks[k] IN
             r.kind = "result" =>
               /\ i > 1
               /\ \E c \in calls(i - 1) :
                    /\ \A d \in calls(i - 1) : (turns[i - 1].blocks[d].ref = r.ref) = (c = d)
                    /\ turns[i - 1].blocks[c].n = r.n
                    /\ cast.provider = "gemini" => turns[i - 1].blocks[c].name = r.name
        /\ cast.provider = "bedrock" => received[1].turns = turns

(* What a model answered can be sent back: only a first request is refused,  *)
(* for a content its provider does not take (conversation_responses.go:20).  *)
ConversationsContinue == phase = "refused" => round = 1
=============================================================================
