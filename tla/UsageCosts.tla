------------------------------ MODULE UsageCosts ------------------------------
(***************************************************************************)
(* What one request is billed: the usage object of the upstream, in the    *)
(* spelling of its provider, is decoded from a body                        *)
(* (core/usage_json.go, usage/extractor.go) or from the events of a stream *)
(* (usage/stream_observer.go), and priced by usage/cost.go.                *)
(*                                                                         *)
(* The tokens of a request are counted by class; a provider reports the    *)
(* classes in its own schema, and no schema says which classes another     *)
(* count already contains.  Costs are integers: tokens times the rate per  *)
(* million tokens; a rate per item is scaled by Mtok.  JSON objects are    *)
(* functions from field names to counts; an absent field is outside the    *)
(* domain.                                                                 *)
(***************************************************************************)
EXTENDS Integers, Sequences, FiniteSets, FiniteSetsExt, TLC

CONSTANTS
  Bills,      \* the requests: provider type, tokens by class, spelling, exact cost,
              \* pricing, endpoint, tokens saved by rewriting, kind of answer, units
  Mtok,       \* one million, scaled down
  Ticks       \* xaiUSDTicksPerUSD, scaled down

ASSUME CostsAssumption == Mtok \in Nat \ {0} /\ Ticks \in Nat \ {0}

VARIABLES
  bill,       \* the request: its provider, tokens, prices and how it answers
  events,       \* how many of the stream's usage events have been sent
  cached,     \* cachedEntry of the stream observer: <<>> or <<entry>>
  written,    \* the entries given to the usage logger
  open        \* the request is not answered yet, or its stream not closed

costVars == <<bill, events, cached, written, open>>

-----------------------------------------------------------------------------
(* Objects. *)

Empty == [k \in {} |-> 0]

\* The count under a key, 0 when there is none.
extractInt(f, k) == IF k \in DOMAIN f THEN f[k] ELSE 0

Without(f, ks) == [k \in DOMAIN f \ ks |-> f[k]]

Fields(f, ks) == [k \in DOMAIN f \cap ks |-> f[k]]

Positive(f) == [k \in {x \in DOMAIN f : f[x] > 0} |-> f[k]]

\* A function of the entries of f under other names.
Renamed(f, name(_)) ==
  [k \in {name(x) : x \in DOMAIN f} |-> f[CHOOSE x \in DOMAIN f : name(x) = k]]

-----------------------------------------------------------------------------
(* What an upstream reports.  tokens is a record of counts by class.       *)

\* xAI alone counts reasoning outside completion_tokens.
OpenAICompletion(type, t) == t.text + t.audioOut + (IF type = "xai" THEN 0 ELSE t.reasoning)

\* The usage object of a provider that speaks the OpenAI schema; the spelling of
\* the cached count is nested, at the top as well, or DeepSeek's own.
OpenAIJson(type, t, spelling, exact) ==
  LET in == t.plain + t.cached + t.audioIn IN
  LET out == OpenAICompletion(type, t) IN
  [top |-> Positive(("prompt_tokens" :> in) @@ ("completion_tokens" :> out)
              @@ ("total_tokens" :> in + out)
              @@ (IF spelling = "both" THEN "cached_tokens" :> t.cached ELSE Empty)
              @@ (IF spelling = "cache_hit"
                    THEN ("prompt_cache_hit_tokens" :> t.cached)
                           @@ ("prompt_cache_miss_tokens" :> t.plain + t.audioIn)
                    ELSE Empty))
            @@ (IF exact = <<>> THEN Empty
                ELSE IF type = "xai" THEN "cost_in_usd_ticks" :> exact[1] * Ticks
                ELSE ("cost" :> exact[1])
                       @@ (IF exact[2] = <<>> THEN Empty
                           ELSE ("upstream_inference_prompt_cost" :> exact[2][1])
                                  @@ ("upstream_inference_completions_cost" :> exact[2][2]))),
   prompt |-> ("audio_tokens" :> t.audioIn)
                @@ (IF spelling = "cache_hit" THEN Empty ELSE "cached_tokens" :> t.cached),
   completion |-> ("reasoning_tokens" :> t.reasoning) @@ ("audio_tokens" :> t.audioOut),
   raw |-> Empty]

\* Anthropic counts cache reads and writes beside input_tokens.
buildAnthropicRawUsage(t) ==
  Positive(("cache_creation_input_tokens" :> t.write) @@ ("cache_read_input_tokens" :> t.cached))

usageFromAnthropic(t) ==
  LET in == t.plain + t.audioIn IN
  LET out == t.text + t.reasoning + t.audioOut IN
  [in |-> in, out |-> out, total |-> in + out,
   prompt |-> Empty, completion |-> Empty, raw |-> buildAnthropicRawUsage(t)]

\* The chunk of a converted Anthropic stream repeats the cache counts at the top.
anthropicChatUsagePayload(t) ==
  LET u == usageFromAnthropic(t) IN
  [top |-> Positive(("prompt_tokens" :> u.in) @@ ("completion_tokens" :> u.out)
                      @@ ("total_tokens" :> u.total)) @@ u.raw,
   prompt |-> Empty, completion |-> Empty, raw |-> Empty]

\* Gemini counts thoughts beside the candidates; the adapter adds them and keeps
\* its own names beside the common ones.
usageFromGemini(t) ==
  LET in == t.plain + t.cached + t.audioIn IN
  LET out == t.text + t.audioOut + t.reasoning IN
  [in |-> in, out |-> out, total |-> in + out,
   prompt |-> ("cached_tokens" :> t.cached) @@ ("audio_tokens" :> t.audioIn)
                @@ ("text_tokens" :> t.plain + t.cached),
   completion |-> ("reasoning_tokens" :> t.reasoning) @@ ("audio_tokens" :> t.audioOut),
   raw |-> Positive(("cached_content_token_count" :> t.cached)
                      @@ ("prompt_cached_tokens" :> t.cached)
                      @@ ("thoughts_token_count" :> t.reasoning)
                      @@ ("completion_reasoning_tokens" :> t.reasoning))]

\* The stream carries Gemini's own names in an object of their own.
geminiUsageMap(t) ==
  LET u == usageFromGemini(t) IN
  [top |-> ("prompt_tokens" :> u.in) @@ ("completion_tokens" :> u.out)
             @@ ("total_tokens" :> u.total),
   prompt |-> u.prompt, completion |-> u.completion, raw |-> u.raw]

\* Bedrock counts like Anthropic and names the writes differently.
usageFromBedrock(t) ==
  LET u == usageFromAnthropic(t) IN
  [u EXCEPT !.raw = ("cache_read_input_tokens" :> t.cached)
                      @@ ("cache_write_input_tokens" :> t.write)]

\* Its streams report the three totals and nothing else.
bedrockStreamUsage(t) ==
  [anthropicChatUsagePayload(t) EXCEPT
     !.top = Without(@, {"cache_read_input_tokens", "cache_creation_input_tokens"})]

-----------------------------------------------------------------------------
(* Decoding. *)

usageKnownFields ==
  {"prompt_tokens", "completion_tokens", "total_tokens", "input_tokens", "output_tokens"}

PromptTokensDetails == {"cached_tokens", "audio_tokens", "text_tokens", "image_tokens"}

CompletionTokensDetails ==
  {"reasoning_tokens", "audio_tokens", "accepted_prediction_tokens", "rejected_prediction_tokens"}

\* The typed usage of a body: unknown details are dropped, unknown counts kept raw.
UnmarshalUsage(j) ==
  [in |-> extractInt(j.top, "prompt_tokens"), out |-> extractInt(j.top, "completion_tokens"),
   total |-> extractInt(j.top, "total_tokens"),
   prompt |-> Fields(j.prompt, PromptTokensDetails),
   completion |-> Fields(j.completion, CompletionTokensDetails),
   raw |-> Without(j.top, usageKnownFields) @@ j.raw]

\* The usage object of the client's body: the raw counts at the top.
MarshalUsage(u) ==
  [top |-> ("prompt_tokens" :> u.in) @@ ("completion_tokens" :> u.out)
             @@ ("total_tokens" :> u.total) @@ Without(u.raw, usageKnownFields),
   prompt |-> u.prompt, completion |-> u.completion, raw |-> Empty]

PromptName(k) ==
  CASE k = "cached_tokens" -> "prompt_cached_tokens" [] k = "audio_tokens" -> "prompt_audio_tokens"
    [] k = "text_tokens" -> "prompt_text_tokens" [] OTHER -> "prompt_image_tokens"

CompletionName(k) ==
  CASE k = "reasoning_tokens" -> "completion_reasoning_tokens"
    [] k = "audio_tokens" -> "completion_audio_tokens"
    [] k = "accepted_prediction_tokens" -> "completion_accepted_prediction_tokens"
    [] OTHER -> "completion_rejected_prediction_tokens"

buildRawUsageFromDetails(prompt, completion) ==
  Renamed(Positive(prompt), PromptName) @@ Renamed(Positive(completion), CompletionName)

\* What the upstream named stands before what the gateway derives.
mergeRawUsageMaps(base, overlay) == base @@ overlay

\* The event's usage object, the names of the details prefixed by their side;
\* nested objects other than the details are passed over.
copyUsageFields(j) ==
  Positive(Without(j.top, usageKnownFields \cup {"cost", "cost_in_usd_ticks"}))
    @@ Fields(j.top, {"cost", "cost_in_usd_ticks"})
    @@ buildRawUsageFromDetails(j.prompt, j.completion)

-----------------------------------------------------------------------------
(* Prices.  A pricing is a function of the rates it has and a sequence of  *)
(* tiers, each with an optional limit and the rates it replaces.           *)

Has(p, field) == field \in DOMAIN p.rates

Mapping(key, field, side, inBase) == [key |-> key, field |-> field, side |-> side, inBase |-> inBase]

CachedMappings ==
  <<Mapping("cached_tokens", "CachedInput", "input", TRUE),
    Mapping("prompt_cached_tokens", "CachedInput", "input", TRUE)>>

ReasoningMappings(inBase) ==
  <<Mapping("reasoning_tokens", "ReasoningOutput", "output", inBase),
    Mapping("completion_reasoning_tokens", "ReasoningOutput", "output", inBase)>>

AudioMappings ==
  <<Mapping("prompt_audio_tokens", "AudioInput", "input", TRUE),
    Mapping("completion_audio_tokens", "AudioOutput", "output", TRUE)>>

\* The mappings of a provider type, the OpenAI ones by default.
tokenCostMappingsForProvider(type) ==
  CASE type = "anthropic" ->
         <<Mapping("cache_read_input_tokens", "CachedInput", "input", FALSE),
           Mapping("cache_creation_input_tokens", "CacheWrite", "input", FALSE)>>
    [] type = "gemini" ->
         CachedMappings
           \o <<Mapping("cached_content_token_count", "CachedInput", "input", TRUE),
                Mapping("thoughts_token_count", "ReasoningOutput", "output", TRUE)>>
           \o ReasoningMappings(TRUE) \o AudioMappings
    [] type = "groq" -> CachedMappings \o ReasoningMappings(TRUE)
    [] type = "xai" -> CachedMappings \o ReasoningMappings(FALSE)
    [] OTHER ->
         CachedMappings
           \o <<Mapping("prompt_cache_hit_tokens", "CachedInput", "input", TRUE)>>
           \o ReasoningMappings(TRUE) \o AudioMappings

\* The tier of the least limit that the count does not exceed, else the last.
selectPricingTier(tiers, n) ==
  LET limited == {t \in Range(tiers) : t.limit > 0} IN
  LET over == {t \in limited : n <= t.limit} IN
  IF limited = {} THEN <<>>
  ELSE IF over # {} THEN <<CHOOSE t \in over : \A x \in over : t.limit <= x.limit>>
  ELSE <<CHOOSE t \in limited : \A x \in limited : x.limit <= t.limit>>

pricingForTokenCount(p, n) ==
  LET tier == selectPricingTier(p.tiers, n) IN
  IF n <= 0 \/ tier = <<>> THEN p ELSE [p EXCEPT !.rates = tier[1].rates @@ @]

\* Rates of the batch endpoint replace the base rates, in the tiers too.
pricingForEndpoint(p, endpoint) ==
  LET batch == (IF Has(p, "BatchInput") THEN "Input" :> p.rates.BatchInput ELSE Empty)
                 @@ (IF Has(p, "BatchOutput") THEN "Output" :> p.rates.BatchOutput ELSE Empty) IN
  IF endpoint # "batch" THEN p
  ELSE [rates |-> batch @@ p.rates,
        tiers |-> IF Cardinality(DOMAIN batch) = 2 THEN <<>>
                  ELSE [i \in DOMAIN p.tiers |-> [p.tiers[i] EXCEPT !.rates = batch @@ @]]]

\* Token fields no mapping names and no one prices.
informationalFields ==
  {"prompt_cache_miss_tokens", "prompt_text_tokens", "completion_text_tokens",
   "prompt_image_tokens", "tool_use_prompt_token_count",
   "completion_accepted_prediction_tokens", "completion_rejected_prediction_tokens"}

NotTokens ==
  {"cost", "cost_in_usd_ticks", "upstream_inference_prompt_cost",
   "upstream_inference_completions_cost", "input_characters", "audio_seconds",
   "audio_output_seconds", "audio_output_format"}

baseRate(p, side) ==
  LET field == IF side = "input" THEN "Input" ELSE "Output" IN
  IF Has(p, field) THEN p.rates[field] ELSE 0

\* Mutant of appliedMappings: every alias of a count is priced.
EveryAlias(maps, raw, p) ==
  {i \in DOMAIN maps : extractInt(raw, maps[i].key) # 0 /\ Has(p, maps[i].field)}

\* The mappings that change a cost: a count, a rate, and no earlier alias of the rate.
appliedMappings(maps, raw, p) ==
  {i \in DOMAIN maps :
     /\ extractInt(raw, maps[i].key) # 0 /\ Has(p, maps[i].field)
     /\ \A j \in 1 .. i - 1 : maps[j].field = maps[i].field => extractInt(raw, maps[j].key) = 0}

\* A count the base already priced is corrected to its own rate, any other is added.
effectiveRate(p, mapping) ==
  p.rates[mapping.field] - (IF mapping.inBase THEN baseRate(p, mapping.side) ELSE 0)

\* Characters and seconds of audio, each under its rate.
applyAudioUnitCosts(raw, p, side) ==
  LET priced == IF side = "input"
                  THEN {<<"PerCharacterInput", "input_characters">>, <<"PerSecondInput", "audio_seconds">>}
                  ELSE {<<"PerSecondOutput", "audio_output_seconds">>} IN
  MapThenSumSet(LAMBDA x : extractInt(raw, x[2]) * p.rates[x[1]] * Mtok,
                {x \in priced : Has(p, x[1])})

\* Both sides of the cost, their sum, and the fields left out of it.
CalculateGranularCost(in, out, raw, type, pricing) ==
  LET p == pricingForTokenCount(pricing, in) IN
  LET maps == tokenCostMappingsForProvider(type) IN
  LET applied == appliedMappings(maps, raw, p) IN
  LET of(side) == {i \in applied : maps[i].side = side} IN
  LET added(side) ==
        MapThenSumSet(LAMBDA i : extractInt(raw, maps[i].key) * effectiveRate(p, maps[i]), of(side))
          + applyAudioUnitCosts(raw, p, side) IN
  LET input == in * baseRate(p, "input") + added("input") IN
  LET output == out * baseRate(p, "output") + added("output")
                  + (IF Has(p, "PerRequest") THEN p.rates.PerRequest * Mtok ELSE 0) IN
  [input |-> input, output |-> output, total |-> input + output,
   caveats |->
     {k \in DOMAIN raw \ (informationalFields \cup NotTokens) :
        raw[k] > 0 /\ \A i \in DOMAIN maps : maps[i].key # k}
     \cup (IF /\ Has(p, "PerSecondOutput") /\ "audio_output_format" \in DOMAIN raw
              /\ "audio_output_seconds" \notin DOMAIN raw
             THEN {"audio_output_format"} ELSE {})]

\* A cost the provider states itself stands before any calculation; its two
\* sides are known when they add up.
CalculateUsageCost(in, out, raw, type, pricing) ==
  LET total == raw.cost IN
  LET sides == <<extractInt(raw, "upstream_inference_prompt_cost"),
                 extractInt(raw, "upstream_inference_completions_cost")>> IN
  LET split == sides[1] + sides[2] = total IN
  IF type = "openrouter" /\ "cost" \in DOMAIN raw
    THEN [input |-> IF split THEN sides[1] ELSE 0, output |-> IF split THEN sides[2] ELSE 0,
          total |-> total, caveats |-> {}]
  ELSE IF type = "xai" /\ "cost_in_usd_ticks" \in DOMAIN raw
    THEN [input |-> 0, output |-> 0, total |-> raw.cost_in_usd_ticks \div Ticks, caveats |-> {}]
  ELSE CalculateGranularCost(in, out, raw, type, pricing)

\* What the removed tokens would have cost, never less than nothing.
rewriteCostSaved(in, out, raw, type, p, saved) ==
  LET cost(n) == CalculateGranularCost(n, out, raw, type, p).input IN
  IF saved <= 0 THEN 0 ELSE Max({0, cost(in + saved) - cost(in)})

applyUsageCosts(b, in, out, raw) ==
  LET p == pricingForEndpoint(b.pricing, b.endpoint) IN
  [in |-> in, out |-> out, raw |-> raw,
   cost |-> CalculateUsageCost(in, out, raw, b.type, p),
   saved |-> rewriteCostSaved(in, out, raw, b.type, p, b.saved)]

-----------------------------------------------------------------------------
(* Entries. *)

\* The usage of the body of a request, as its adapter builds it.
BodyUsage(b) ==
  CASE b.type = "anthropic" -> usageFromAnthropic(b.tokens)
    [] b.type = "gemini" -> usageFromGemini(b.tokens)
    [] b.type = "bedrock" -> usageFromBedrock(b.tokens)
    [] OTHER -> UnmarshalUsage(OpenAIJson(b.type, b.tokens, b.spelling, b.exact))

\* The usage object of the event of its stream that counts t.
StreamUsage(b, t) ==
  CASE b.type = "anthropic" -> anthropicChatUsagePayload(t)
    [] b.type = "gemini" -> geminiUsageMap(t)
    [] b.type = "bedrock" -> bedrockStreamUsage(t)
    [] OTHER -> OpenAIJson(b.type, t, b.spelling, b.exact)

ExtractFromChatResponse(b, u) ==
  applyUsageCosts(b, u.in, u.out,
                  mergeRawUsageMaps(u.raw, buildRawUsageFromDetails(u.prompt, u.completion)))

\* An event without a count is no usage.
extractUsageFromEvent(b, j) ==
  LET in == extractInt(j.top, "prompt_tokens") IN
  LET out == extractInt(j.top, "completion_tokens") IN
  IF in = 0 /\ out = 0 /\ extractInt(j.top, "total_tokens") = 0 THEN <<>>
  ELSE <<applyUsageCosts(b, in, out, copyUsageFields(j))>>

\* Speech has no usage: characters and, for a codec the gateway can measure, seconds.
ExtractFromSpeechRequest(b) ==
  applyUsageCosts(b, 0, 0,
    Positive("input_characters" :> b.units.characters) @@ ("audio_output_format" :> 1)
      @@ (IF b.units.measured THEN "audio_output_seconds" :> b.units.seconds ELSE Empty))

\* A transcription reports tokens, seconds, or nothing.
ExtractFromTranscriptionResponse(b) ==
  applyUsageCosts(b, b.tokens.plain, b.tokens.text,
                  Positive("audio_seconds" :> b.units.heard))

\* A realtime response spells its details in one of two ways; the first nonzero counts.
ExtractFromRealtimeResponseDone(b) ==
  LET t == b.tokens IN
  applyUsageCosts(b, t.plain + t.cached + t.audioIn, t.text + t.audioOut,
    Positive(("prompt_text_tokens" :> t.plain + t.cached) @@ ("prompt_audio_tokens" :> t.audioIn)
               @@ ("prompt_cached_tokens" :> t.cached) @@ ("completion_text_tokens" :> t.text)
               @@ ("completion_audio_tokens" :> t.audioOut)))

-----------------------------------------------------------------------------
(* The split of the input that reports show. *)

\* Reads and writes of the prompt cache; the counts are beside the base when the
\* provider says so.
EntryInputSegments(e, type) ==
  LET read == extractInt(e.raw, "cache_read_input_tokens") IN
  LET write == Max({extractInt(e.raw, k) : k \in {"cache_creation_input_tokens", "cache_write_input_tokens"}}) IN
  LET hit == Max({read, extractInt(e.raw, "prompt_cached_tokens"), extractInt(e.raw, "cached_tokens")}) IN
  IF read > 0 \/ write > 0 \/ type = "anthropic"
    THEN [uncached |-> e.in, cached |-> hit, write |-> write]
    ELSE [uncached |-> e.in - Min({hit, e.in}), cached |-> Min({hit, e.in}), write |-> write]

-----------------------------------------------------------------------------
(* One request. *)

CostsInit ==
  /\ bill \in Bills
  /\ events = 0 /\ cached = <<>> /\ written = <<>> /\ open = TRUE

\* A body is priced once, when it is there.
LogUsage ==
  /\ open /\ bill.answer # "stream"
  /\ written' = Append(written,
       CASE bill.answer = "body" -> ExtractFromChatResponse(bill, BodyUsage(bill))
         [] bill.answer = "speech" -> ExtractFromSpeechRequest(bill)
         [] bill.answer = "transcription" -> ExtractFromTranscriptionResponse(bill)
         [] OTHER -> ExtractFromRealtimeResponseDone(bill))
  /\ open' = FALSE
  /\ UNCHANGED <<bill, events, cached>>

\* The tokens counted by the n-th usage event: a prefix of the answer, the whole
\* answer, then an event that counts nothing.
CountedBy(b, n) ==
  CASE n = 1 -> [b.tokens EXCEPT !.text = 0, !.reasoning = 0, !.audioOut = 0]
    [] n = 2 -> b.tokens
    [] OTHER -> [c \in DOMAIN b.tokens |-> 0]

EventCount == 3

\* Mutant of OnJSONEvent: the first usage of the stream is kept.
KeepFirst ==
  /\ open /\ bill.answer = "stream" /\ events < EventCount
  /\ events' = events + 1
  /\ LET e == extractUsageFromEvent(bill, StreamUsage(bill, CountedBy(bill, events + 1)))
     IN  cached' = IF cached = <<>> THEN e ELSE cached
  /\ UNCHANGED <<bill, written, open>>

\* The observer keeps the last event that counts anything.
OnJSONEvent ==
  /\ open /\ bill.answer = "stream" /\ events < EventCount
  /\ events' = events + 1
  /\ LET e == extractUsageFromEvent(bill, StreamUsage(bill, CountedBy(bill, events + 1)))
     IN  cached' = IF e = <<>> THEN cached ELSE e
  /\ UNCHANGED <<bill, written, open>>

\* The stream ends, or is cut anywhere: what was kept is written, once.
OnStreamClose ==
  /\ open /\ bill.answer = "stream"
  /\ open' = FALSE
  /\ written' = written \o cached
  /\ UNCHANGED <<bill, events, cached>>

CostsNext == LogUsage \/ OnJSONEvent \/ OnStreamClose

CostsSpec == CostsInit /\ [][CostsNext]_costVars

-----------------------------------------------------------------------------
(* Properties. *)

\* The answer was seen to its end, and its usage is not an estimate.
Complete == ~open /\ (bill.answer = "stream" => events >= 2) /\ written # <<>>

\* A class of tokens outside the base counts has no rate, or no mapping at all.
OutsideBase(b) ==
  CASE b.type = "anthropic" -> {"cached", "write"}
    [] b.type = "bedrock" -> {"cached", "write"}
    [] b.type = "xai" -> {"reasoning"}
    [] OTHER -> {}

OwnRate(type, class) ==
  CASE class = "cached" -> IF type = "bedrock" THEN {} ELSE {"CachedInput"}
    [] class = "write" -> IF type = "bedrock" THEN {} ELSE {"CacheWrite"}
    [] class = "reasoning" -> IF type \in {"anthropic", "bedrock"} THEN {} ELSE {"ReasoningOutput"}
    [] class = "audioIn" -> IF type \in {"anthropic", "groq", "xai"} THEN {} ELSE {"AudioInput"}
    [] class = "audioOut" -> IF type \in {"anthropic", "groq", "xai"} THEN {} ELSE {"AudioOutput"}
    [] OTHER -> {}

Unpriced(b) ==
  {c \in OutsideBase(b) : b.tokens[c] > 0 /\ \A f \in OwnRate(b.type, c) : ~Has(b.pricing, f)}

SideOf(class) == IF class \in {"plain", "cached", "write", "audioIn"} THEN "input" ELSE "output"

\* Every token at its own rate, or at the rate of its side.
ReferenceCost(b, in) ==
  LET p == pricingForTokenCount(pricingForEndpoint(b.pricing, b.endpoint), in) IN
  LET rate(c) == IF \E f \in OwnRate(b.type, c) : Has(p, f)
                   THEN p.rates[CHOOSE f \in OwnRate(b.type, c) : TRUE]
                   ELSE baseRate(p, SideOf(c)) IN
  IF b.exact # <<>> THEN b.exact[1]
  ELSE MapThenSumSet(LAMBDA c : b.tokens[c] * rate(c), DOMAIN b.tokens)
         + (IF Has(p, "PerRequest") THEN p.rates.PerRequest * Mtok ELSE 0)

\* Every token of an answer is priced once, at the rate of its class, whatever
\* schema and aliases the provider reports it in and whether it came in a body or
\* in a stream (CalculateGranularCost, copyExtendedUsageFields).  Tokens a provider
\* counts beside its totals and that have no rate are left out.
TokensPricedOnce ==
  Complete /\ bill.answer \in {"body", "stream", "realtime"} /\ Unpriced(bill) = {}
    => written[1].cost.total = ReferenceCost(bill, written[1].in)

\* The reports split an entry's input into what the provider read, had cached and
\* wrote to its cache, whichever way it counts them (EntryInputSegments).  DeepSeek's
\* own spelling is not read there, and a Bedrock stream does not carry the counts.
SplitsAreTrue ==
  (/\ Complete /\ bill.answer \in {"body", "stream", "realtime"}
   /\ bill.spelling # "cache_hit" /\ ~(bill.type = "bedrock" /\ bill.answer = "stream"))
    => EntryInputSegments(written[1], bill.type)
         = [uncached |-> bill.tokens.plain + bill.tokens.audioIn,
            cached |-> bill.tokens.cached, write |-> bill.tokens.write]

\* A stream is billed like the body of the same answer, what the client reads in
\* that body included, and once (StreamUsageObserver, Usage.MarshalJSON).
PathsPriceAlike ==
  Complete /\ bill.answer = "stream" =>
    /\ Len(written) = 1
    /\ written[1].cost.total = ExtractFromChatResponse(bill, BodyUsage(bill)).cost.total
    /\ written[1].cost.total
         = ExtractFromChatResponse(bill, UnmarshalUsage(MarshalUsage(BodyUsage(bill)))).cost.total

\* A token is charged once and shown once, whatever its provider calls it and
\* whichever way its answer comes (cost.go, request_summary.go, stream_observer.go).
TokensCountedOnce == TokensPricedOnce /\ SplitsAreTrue /\ PathsPriceAlike
=============================================================================
