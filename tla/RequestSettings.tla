--------------------------- MODULE RequestSettings ---------------------------
(* The settings of a request on their way from a client's API through the    *)
(* canonical chat request to a provider: the tools it may call and whether   *)
(* it must, thinking, limits and formats. Token counts are in thousands, 0   *)
(* stands for a count that is not given.                                     *)
EXTENDS Naturals, Sequences

CONSTANT Wishes      \* the settings clients send, in the terms of their API

VARIABLES
  wish,
  sent               \* <<>>, <<"refused">> or <<"sent", what the provider gets>>

settingsVars == <<wish, sent>>

(* tool_choice: not given, a word, or an object of a type.                   *)
Choice(shape, type, name) == [shape |-> shape, type |-> type, name |-> name]
Unset == Choice("unset", "", "")
Word(type) == Choice("word", type, "")
IsNone(choice) == choice.type = "none"

\* What an API's grammar lets a client say of the choice of tools; the Responses API
\* refuses the objects it does not know.
Known(api, choice) ==
  /\ choice.shape \in {"unset", "word", "object"} /\ choice = Choice(choice.shape, choice.type, choice.name)
  /\ choice.shape = "unset" => choice = Unset
  /\ choice.shape = "word" => api # "messages" /\ choice.type \in {"auto", "required", "none"}
  /\ choice.shape = "object" =>
       IF api # "messages" THEN choice.type # ""
       ELSE choice.type \in {"auto", "any", "none", "tool"} /\ (choice.type = "tool" => choice.name # "")

\* The settings an API has no field for stay at rest.
ASSUME WishesAssumption ==
  \A w \in Wishes :
    /\ w.api \in {"messages", "responses", "chat"} /\ Known(w.api, w.choice)
    /\ w.tools \in BOOLEAN /\ w.stop \in BOOLEAN /\ w.flat \in BOOLEAN /\ w.native \in BOOLEAN
    /\ w.max \in Nat /\ w.completion \in Nat
    /\ w.api = "messages" => w.effort = "" /\ w.format = ""
    /\ w.api = "responses" => ~w.stop
    /\ w.api # "chat" => w.completion = 0 /\ ~w.flat

(***************************************************************************)
(* To the chat request.                                                    *)
(***************************************************************************)
(* anthropicapi/request.go *)
convertToolChoice(c) ==
  IF c.type = "any" THEN Word("required")
  ELSE IF c.type \in {"auto", "none"} THEN Word(c.type)
  ELSE IF c.type # "tool" THEN Unset
  ELSE IF c.name # "" THEN Choice("object", "function", c.name) ELSE Word("auto")

thinkingToReasoning(thinking) ==
  IF thinking.type \in {"", "disabled"} THEN ""
  ELSE IF thinking.type = "adaptive" THEN "medium"
  ELSE IF thinking.budget >= 20 THEN "high"
  ELSE IF thinking.budget >= 10 THEN "medium" ELSE "low"

ToChatRequest(w) ==
  [tools |-> w.tools, choice |-> convertToolChoice(w.choice), parallel |-> w.parallel,
   reasoning |-> thinkingToReasoning(w.thinking), flat |-> "", max |-> w.max, completion |-> 0,
   format |-> "", stop |-> w.stop]

(* responses_adapter.go: objects that say what a word says become the word.  *)
normalizeResponsesToolChoiceForChat(c) ==
  IF c.shape = "object" /\ c.type \in {"auto", "required", "none"} THEN Word(c.type) ELSE c

responsesTextFormatToChatResponseFormat(format) == IF format = "text" THEN "" ELSE format

validateResponsesRequestForChatTranslation(w) ==
  /\ ~w.native
  /\ w.choice.shape = "object" => w.choice.type \in {"function", "auto", "required", "none"}

ConvertResponsesSettings(w) ==
  [tools |-> w.tools, choice |-> normalizeResponsesToolChoiceForChat(w.choice), parallel |-> w.parallel,
   reasoning |-> w.effort, flat |-> "", max |-> w.max, completion |-> 0,
   format |-> responsesTextFormatToChatResponseFormat(w.format), stop |-> FALSE]

\* A chat client sends its effort as an object or as a plain field.
ChatSettings(w) ==
  [tools |-> w.tools, choice |-> w.choice, parallel |-> w.parallel,
   reasoning |-> IF w.flat THEN "" ELSE w.effort, flat |-> IF w.flat THEN w.effort ELSE "",
   max |-> w.max, completion |-> w.completion, format |-> w.format, stop |-> w.stop]

Chat ==
  IF wish.api = "messages" THEN ToChatRequest(wish)
  ELSE IF wish.api = "responses" THEN ConvertResponsesSettings(wish)
  ELSE ChatSettings(wish)

(***************************************************************************)
(* To the providers. A provider gets: tools, choice and the tool's name,   *)
(* serial (one call at a time), how it is told to think (by the level of   *)
(* effort or by a budget), max, format, stop.                              *)
(***************************************************************************)
Sent(tools, choice, name) ==
  [tools |-> tools, choice |-> choice, name |-> name, serial |-> FALSE, thinking |-> "",
   effort |-> "", budget |-> 0, max |-> 0, format |-> "", stop |-> FALSE]

ByLevel(request, effort) == [request EXCEPT !.thinking = "level", !.effort = effort]
ByBudget(request, budget) == [request EXCEPT !.thinking = "budget", !.budget = budget]

(* Anthropic (request_translation.go, anthropic.go): models with adaptive    *)
(* thinking are told the level, the older ones a budget only.                *)
normalizeEffort(effort) == IF effort \in {"low", "medium", "high", "xhigh", "max"} THEN effort ELSE "low"

\* Mutant of reasoningEffortToBudgetTokens: xhigh and max are not capped but unknown.
LevelsUncapped(effort) ==
  IF normalizeEffort(effort) = "medium" THEN 10 ELSE IF normalizeEffort(effort) = "high" THEN 20 ELSE 5

reasoningEffortToBudgetTokens(effort) ==
  IF normalizeEffort(effort) = "medium" THEN 10
  ELSE IF normalizeEffort(effort) \in {"high", "xhigh", "max"} THEN 20 ELSE 5

applyReasoning(request, effort) ==
  LET budget == reasoningEffortToBudgetTokens(effort) IN
  IF effort = "" THEN request
  ELSE IF wish.model = "adaptive" THEN ByLevel(request, normalizeEffort(effort))
  ELSE [ByBudget(request, budget) EXCEPT !.max = IF @ <= budget THEN budget + 1 ELSE @]

resolveDefaultMaxTokens == 4

convertOpenAIToolChoiceToAnthropic(c) ==
  IF c.shape = "unset" \/ IsNone(c) THEN ""
  ELSE IF c.type = "required" THEN "any"
  ELSE IF c.type = "function" THEN "tool" ELSE c.type

convertSettingsToAnthropic(chat) ==
  LET tools == chat.tools /\ ~IsNone(chat.choice)
      chosen == convertOpenAIToolChoiceToAnthropic(chat.choice)
      choice == IF chosen = "" /\ chat.parallel = "no" THEN "auto" ELSE chosen
      request == [Sent(tools, IF tools THEN choice ELSE "", chat.choice.name) EXCEPT
                    !.serial = tools /\ choice # "" /\ chat.parallel = "no",
                    !.max = IF chat.max # 0 THEN chat.max ELSE resolveDefaultMaxTokens,
                    !.stop = chat.stop]
  IN  applyReasoning(request, IF chat.reasoning # "" THEN chat.reasoning ELSE chat.flat)

AnthropicRefusesChoice(c) ==
  c.shape = "object" /\ c.type \notin {"auto", "any", "none"} /\ (c.type \notin {"function", "tool"} \/ c.name = "")

AnthropicRefusesSettings(chat) ==
  \/ chat.format \notin {"", "text"} \/ AnthropicRefusesChoice(chat.choice)
  \/ ~chat.tools /\ chat.choice.shape # "unset" /\ ~IsNone(chat.choice)

(* Gemini's native API (native.go): of the objects only a function is known. *)
geminiToolConfigFromOpenAI(c) ==
  IF c.type = "function" THEN "tool"
  ELSE IF c.shape = "word" /\ c.type = "required" THEN "any"
  ELSE IF c.shape = "word" /\ c.type \in {"none", "auto"} THEN c.type ELSE ""

\* The 2.5 models take a budget and are told nothing of an effort that has none.
thinkingConfigForEffort(request, effort) ==
  IF effort = "" THEN request
  ELSE IF wish.model # "gemini-2.5" THEN ByLevel(request, IF effort = "none" THEN "minimal" ELSE effort)
  ELSE IF effort = "none" THEN ByBudget(request, 0)
  ELSE IF effort \in {"minimal", "low"} THEN ByBudget(request, 1)
  ELSE IF effort = "medium" THEN ByBudget(request, 8)
  ELSE IF effort = "high" THEN ByBudget(request, 24) ELSE request

geminiGenerationConfig(chat) ==
  LET request == [Sent(chat.tools, geminiToolConfigFromOpenAI(chat.choice), chat.choice.name) EXCEPT
                    !.max = IF chat.max # 0 THEN chat.max ELSE chat.completion,
                    !.format = IF chat.format = "text" THEN "" ELSE chat.format, !.stop = chat.stop]
  IN  thinkingConfigForEffort(request, chat.reasoning)

(* Bedrock (bedrock/chat.go): a request has limits and tools, nothing else.  *)
convertToolChoiceToConverse(c) ==
  IF c.shape = "unset" THEN ""
  ELSE IF c.type = "required" THEN "any" ELSE IF c.type = "function" THEN "tool" ELSE c.type

BedrockRefusesSettings(chat) ==
  /\ chat.tools /\ chat.choice.shape = "object"
  /\ \/ chat.choice.type \notin {"auto", "any", "none", "required", "function"}
     \/ chat.choice.type = "function" /\ chat.choice.name = ""

(* Mutant of isToolChoiceNone: only the object is looked at.                 *)
NoneIsAnObject(choice) == choice.shape = "object" /\ choice.type = "none"

isToolChoiceNone(choice) == IsNone(choice)

convertToolsToConverse(tools, choice) ==
  IF ~tools \/ isToolChoiceNone(choice) THEN Sent(FALSE, "", "")
  ELSE Sent(TRUE, IF IsNone(choice) THEN "" ELSE convertToolChoiceToConverse(choice), choice.name)

buildConverseParts(chat) ==
  [convertToolsToConverse(chat.tools, chat.choice) EXCEPT
     !.max = IF chat.max # 0 THEN chat.max ELSE chat.completion]

(* Providers that speak chat completions get the request, adapted: OpenAI's  *)
(* reasoning models and Bailian take the limit under its new name, DeepSeek  *)
(* and Gemini's compatible endpoint take the effort as a plain field.        *)
Forwarded(chat) ==
  LET effort == IF chat.reasoning # "" THEN chat.reasoning ELSE chat.flat
      choice == IF chat.choice.type = "required" THEN "any"
                ELSE IF chat.choice.type = "function" THEN "tool" ELSE chat.choice.type
      request == [Sent(chat.tools, choice, chat.choice.name) EXCEPT
                    !.serial = chat.parallel = "no",
                    !.max = IF chat.max # 0 THEN chat.max ELSE chat.completion,
                    !.format = chat.format, !.stop = chat.stop]
  IN  IF effort = "" THEN request ELSE ByLevel(request, effort)

adaptForReasoningChat(chat) ==
  IF chat.max = 0 THEN chat ELSE [chat EXCEPT !.max = 0, !.completion = chat.max]

adaptBailianRequest(chat) ==
  IF chat.max = 0 THEN chat
  ELSE IF chat.completion # 0 THEN [chat EXCEPT !.max = 0]
  ELSE [chat EXCEPT !.max = 0, !.completion = chat.max]

normalizeReasoningEffort(effort) ==
  IF effort \in {"low", "medium"} THEN "high" ELSE IF effort \in {"xhigh", "max"} THEN "max" ELSE effort

AdaptReasoningEffortRequest(chat, effort) ==
  IF chat.reasoning = "" THEN chat ELSE [chat EXCEPT !.reasoning = "", !.flat = effort]

ToProvider(chat) ==
  IF wish.provider = "anthropic" THEN convertSettingsToAnthropic(chat)
  ELSE IF wish.provider = "gemini" THEN geminiGenerationConfig(chat)
  ELSE IF wish.provider = "bedrock" THEN buildConverseParts(chat)
  ELSE IF wish.provider = "openai" THEN Forwarded(adaptForReasoningChat(chat))
  ELSE IF wish.provider = "bailian" THEN Forwarded(adaptBailianRequest(chat))
  ELSE IF wish.provider = "deepseek"
       THEN Forwarded(AdaptReasoningEffortRequest(chat, normalizeReasoningEffort(chat.reasoning)))
       ELSE Forwarded(AdaptReasoningEffortRequest(chat, chat.reasoning))

SettingsInit == wish \in Wishes /\ sent = <<>>

SendSettings ==
  /\ sent = <<>>
  /\ sent' = IF \/ wish.api = "responses" /\ ~validateResponsesRequestForChatTranslation(wish)
                \/ wish.provider = "anthropic" /\ AnthropicRefusesSettings(Chat)
                \/ wish.provider = "bedrock" /\ BedrockRefusesSettings(Chat)
             THEN <<"refused">> ELSE <<"sent", ToProvider(Chat)>>
  /\ UNCHANGED wish

SettingsSpec == SettingsInit /\ [][SendSettings]_settingsVars

(***************************************************************************)
(* What the client asked for, whatever its API calls it.                   *)
(***************************************************************************)
Meaning(choice) ==
  IF choice.shape = "unset" THEN "auto"
  ELSE IF choice.type \in {"required", "any"} THEN "any"
  ELSE IF choice.type \in {"function", "tool"} THEN "tool" ELSE choice.type

WishedEffort == IF wish.api = "messages" THEN thinkingToReasoning(wish.thinking) ELSE wish.effort
WishedMax == IF wish.max # 0 /\ ~(wish.provider = "bailian" /\ wish.completion # 0) THEN wish.max ELSE wish.completion

\* Gemini is not told a choice written as an object unless it is a function (native.go:455).
ChoiceIgnored == wish.provider = "gemini" /\ wish.api = "chat" /\ wish.choice.shape = "object"
                   /\ wish.choice.type # "function"

ToolsAsWished(s) ==
  wish.tools /\ ~ChoiceIgnored =>
    LET want == Meaning(wish.choice) IN
    IF want = "none" THEN ~s.tools \/ s.choice = "none"
    ELSE /\ s.tools /\ (s.choice = want \/ (want = "auto" /\ s.choice = ""))
         /\ want = "tool" => s.name = wish.choice.name
         /\ wish.parallel = "no" /\ wish.provider \notin {"gemini", "bedrock"} => s.serial

\* The levels of effort, and how strong they are.
Strength == [none |-> 0, minimal |-> 1, low |-> 2, medium |-> 3, high |-> 4, xhigh |-> 5, max |-> 6]
ValidEfforts == {"low", "medium", "high", "xhigh", "max"}      \* core/types.go:17

\* The levels a provider that is told levels has; others it is told as the nearest it has.
KnownEfforts ==
  IF wish.provider = "anthropic" THEN ValidEfforts
  ELSE IF wish.provider = "gemini" THEN DOMAIN Strength \ {"none"}
  ELSE IF wish.provider = "deepseek" /\ ~(wish.api = "chat" /\ wish.flat) THEN {"high", "max"}
  ELSE DOMAIN Strength

\* Bedrock is told nothing of thinking, Gemini's native API does not read the plain
\* field, and its 2.5 models have a budget for some of the levels only.
EffortDropped ==
  \/ wish.provider = "bedrock"
  \/ wish.provider = "gemini" /\ wish.api = "chat" /\ wish.flat
  \/ wish.provider = "gemini" /\ wish.model = "gemini-2.5"
     /\ WishedEffort \notin {"none", "minimal", "low", "medium", "high"}

EffortAsWished(s) ==
  IF WishedEffort = "" \/ EffortDropped THEN s.thinking = "" /\ s.effort = "" /\ s.budget = 0
  ELSE \/ s.thinking = "budget" /\ s.effort = "" /\ (WishedEffort # "none" => s.budget > 0)
       \/ s.thinking = "level" /\ s.budget = 0 /\ (WishedEffort \in KnownEfforts => s.effort = WishedEffort)

\* The same request with another effort, and how much thinking a provider is asked for.
WithEffort(effort) ==
  [Chat EXCEPT !.reasoning = IF @ = "" THEN "" ELSE effort, !.flat = IF @ = "" THEN "" ELSE effort]
Amount(s) == IF s.thinking = "budget" THEN s.budget ELSE Strength[s.effort]

EffortInOrder(s) ==
  \A less \in DOMAIN Strength :
    LET other == ToProvider(WithEffort(less)) IN
    /\ WishedEffort \in DOMAIN Strength /\ Strength[less] <= Strength[WishedEffort]
    /\ s.thinking # "" /\ other.thinking # ""
    => other.thinking = s.thinking /\ Amount(other) <= Amount(s)

\* Anthropic's limit is required and leaves room for the thinking; it does not know
\* max_completion_tokens.
LimitAsWished(s) ==
  IF wish.provider = "anthropic"
  THEN s.max > s.budget /\ s.max \in {IF wish.max # 0 THEN wish.max ELSE 4, s.budget + 1}
  ELSE s.max = WishedMax

SettingsAsWished(s) ==
  /\ ToolsAsWished(s) /\ EffortAsWished(s) /\ LimitAsWished(s)
  /\ wish.provider # "bedrock" =>
       /\ wish.format \notin {"", "text"} => s.format = wish.format
       /\ wish.stop => s.stop

(* What a client sets reaches the provider in its own terms or is refused:   *)
(* whether tools may, must or must not be called, and which one; thinking    *)
(* where an effort is given and nowhere else, at that level if the provider  *)
(* has it and never with less effort or budget than a weaker level would     *)
(* get; a limit that leaves room for the thinking; the format and the stop   *)
(* words. Bedrock drops effort, format and stop, Gemini the efforts of       *)
(* EffortDropped (request_translation.go, native.go, deepseek.go,            *)
(* bedrock/chat.go, responses_adapter.go).                                   *)
SettingsAreKept == Len(sent) = 2 => SettingsAsWished(sent[2]) /\ EffortInOrder(sent[2])

(* "Providers downgrade unsupported levels to their nearest equivalent"      *)
(* (core/types.go:19): where one valid effort of the reasoning object makes  *)
(* a model think, each of them does (native.go:thinkingConfigForEffort).     *)
UnsupportedEffortsAreDowngraded ==
  /\ Len(sent) = 2 /\ Chat.reasoning \in ValidEfforts
  /\ \E effort \in ValidEfforts : ToProvider(WithEffort(effort)).thinking # ""
  => sent[2].thinking # ""
=============================================================================
