------------------------------- MODULE MCCalls -------------------------------
(* A call to a provider, for TLC: a behaviour is about the circuit breaker    *)
(* that lets it through, the events of one completion, the bytes of one       *)
(* stream, one relayed realtime session, realtime calls and the sessions that *)
(* attach to them, the bill of one answer, or the usage table and its         *)
(* reports; the variables of the others stay as they began.                   *)
EXTENDS CircuitBreaker, ChatStreams, Realtime, SSEStreams, UsageCosts, UsageReports

CONSTANTS r1, r2, r3

ThreeRequests == {r1, r2, r3}

MCMaxEvents == [anthropic |-> 6, bedrock |-> 6, gemini |-> 3, openai |-> 5]

\* Byte streams: short runs of bytes and line ends, where separators straddle
\* chunks and events outgrow the buffer; and up to three lines with a cut after
\* them, where a completed event and its marker may be whole, cut or missing.
LineEnds == {<<"LF">>, <<"CR", "LF">>}
DataLines == {<<"C">>, <<"x">>, <<"D1", "D2">>, <<>>}
Cuts == {<<>>, <<"x">>, <<"C">>, <<"D1">>, <<"D1", "D2">>, <<"CR">>, <<"C", "x">>}
UpTo(S, first, last) == UNION {[1 .. n -> S] : n \in first .. last}
MCStreams ==
    {Flat(t) : t \in UpTo(LineEnds \cup {<<"x">>}, 1, 5)}
    \cup {Flat([i \in DOMAIN t |-> t[i] \o end]) \o cut :
             t \in UpTo(DataLines, 0, 3), end \in LineEnds, cut \in Cuts}

(* Bills: every provider schema, few tokens of each class, three price lists: *)
(* full with tiers and batch rates, base rates only, and own rates only.      *)
TokensOf(type) ==
  {[plain |-> p, cached |-> c, write |-> w, audioIn |-> a,
    text |-> 2, reasoning |-> r, audioOut |-> a] :
      p \in {1, 3}, c \in 0 .. 1,
      w \in IF type \in {"anthropic", "bedrock"} THEN 0 .. 1 ELSE {0},
      a \in IF type \in {"anthropic", "bedrock", "groq"} THEN {0} ELSE 0 .. 1, r \in 0 .. 1}

FullRates ==
  [Input |-> 4, Output |-> 7, CachedInput |-> 1, CacheWrite |-> 5, ReasoningOutput |-> 9,
   AudioInput |-> 6, AudioOutput |-> 11, BatchInput |-> 2, PerRequest |-> 1,
   PerCharacterInput |-> 3, PerSecondInput |-> 2, PerSecondOutput |-> 5]

FullPricing ==
  [rates |-> FullRates,
   tiers |-> <<[limit |-> 4, rates |-> [Input |-> 8]],
               [limit |-> 2, rates |-> [Input |-> 3, Output |-> 6]],
               [limit |-> 0, rates |-> [Input |-> 99]]>>]

BasePricing == [rates |-> [Input |-> 4, Output |-> 7], tiers |-> <<>>]

OwnPricing == [rates |-> [CachedInput |-> 1, ReasoningOutput |-> 9], tiers |-> <<>>]

NoUnits == [characters |-> 0, seconds |-> 0, measured |-> FALSE, heard |-> 0]

SpellingsOf(type) ==
  IF type = "deepseek" THEN {"nested", "both", "cache_hit"}
  ELSE IF type = "openai" THEN {"nested", "both"} ELSE {"nested"}

ExactOf(type) ==
  CASE type = "openrouter" -> {<<>>, <<9, <<>>>>, <<9, <<4, 5>>>>, <<9, <<4, 4>>>>}
    [] type = "xai" -> {<<>>, <<9, <<>>>>}
    [] OTHER -> {<<>>}

Types == {"openai", "deepseek", "openrouter", "groq", "xai", "gemini", "anthropic", "bedrock"}

ChatBills ==
  UNION {{[type |-> type, tokens |-> t, spelling |-> s, exact |-> e, pricing |-> p,
           endpoint |-> ep, saved |-> 2, answer |-> a, units |-> NoUnits] :
             t \in TokensOf(type), s \in SpellingsOf(type), e \in ExactOf(type),
             p \in {FullPricing, BasePricing, OwnPricing}, ep \in {"chat", "batch"},
             a \in {"body", "stream"}} : type \in Types}

AudioBills ==
  {[type |-> "openai", tokens |-> t, spelling |-> "nested", exact |-> <<>>, pricing |-> p,
    endpoint |-> "audio", saved |-> 0, answer |-> a,
    units |-> [characters |-> 2, seconds |-> 3, measured |-> m, heard |-> 1]] :
      t \in {x \in TokensOf("openai") : x.reasoning = 0}, p \in {FullPricing, BasePricing},
      a \in {"speech", "transcription", "realtime"}, m \in BOOLEAN}

MCBills == ChatBills \cup AudioBills

(* Reports: a zone without and one with changes of the offset, the second at  *)
(* an instant that is no multiple of the hour.                                *)
Instants == 0 .. 13

Still == [t \in Instants |-> 1]

Summer == [t \in Instants |-> IF t \in 3 .. 8 THEN 3 ELSE 1]

Row(id, ts, path, cacheType) ==
  [id |-> id, ts |-> ts, model |-> "m", path |-> path, labels |-> {"l", "k"}, cacheType |-> cacheType]

MCRows ==
  {Row(1, 1, <<"a">>, ""), Row(2, 3, <<"a", "b">>, ""), Row(3, 3, <<"c">>, "exact"),
   Row(4, 8, <<"a">>, "")}

Query(report, range, path, cacheMode, zone) ==
  [report |-> report, range |-> range, path |-> path, model |-> <<>>,
   cacheMode |-> cacheMode, zone |-> zone]

MCQueries ==
  {Query("log", <<>>, <<>>, cacheMode, Still) : cacheMode \in {"uncached", "all"}}
  \cup {Query("daily", r, p, cacheMode, z) : r \in {<<>>, <<1, 10>>, <<0, 4>>},
          p \in {<<>>, <<"a">>}, cacheMode \in {"all", "cached"}, z \in {Still, Summer}}
  \cup {Query(report, <<>>, <<>>, "all", Still) : report \in {"summary", "models", "paths", "labels"}}
  \cup {Query("throughput", <<>>, <<>>, "all", z) : z \in {Still, Summer}}

VARIABLE subject

callVars == <<vars, streamVars, sseVars, rtVars, costVars, reportVars, subject>>

Subjects == {"breaker", "completion", "bytes", "relay", "calls", "costs", "reports"}

OneBill ==
  [type |-> "openai", tokens |-> [plain |-> 1, cached |-> 0, write |-> 0, audioIn |-> 0,
                                 text |-> 2, reasoning |-> 0, audioOut |-> 0],
   spelling |-> "nested", exact |-> <<>>, pricing |-> BasePricing,
   endpoint |-> "chat", saved |-> 2, answer |-> "body", units |-> NoUnits]

\* What is not the subject begins in one way only.
MCCallsInit ==
    /\ subject \in Subjects
    /\ \/ subject = "completion"
       \/ subject # "completion" /\ provider = "openai" /\ dialect = "chat"
    /\ \/ subject = "bytes"
       \/ subject # "bytes" /\ stream = <<"x">>
    /\ \/ subject = "costs"
       \/ subject # "costs" /\ bill = OneBill
    /\ Init /\ StreamInit /\ SSEInit /\ RTInit /\ CostsInit /\ ReportsInit

NoCallsNow == rtClock' = rtClock /\ born' = born /\ responses' = responses
ConnectionsStay == \A s \in Sessions : session'[s].conn = session[s].conn

MCCallsNext ==
    /\ \/ subject = "breaker" /\ Next
       \/ subject # "breaker" /\ UNCHANGED vars
    /\ \/ subject = "completion" /\ StreamNext
       \/ subject # "completion" /\ UNCHANGED streamVars
    /\ \/ subject = "bytes" /\ SSENext
       \/ subject # "bytes" /\ UNCHANGED sseVars
    /\ \/ subject = "relay" /\ RTNext /\ NoCallsNow
       \/ subject = "calls" /\ RTNext /\ ConnectionsStay
       \/ subject \notin {"relay", "calls"} /\ UNCHANGED rtVars
    /\ \/ subject = "costs" /\ CostsNext
       \/ subject # "costs" /\ UNCHANGED costVars
    /\ \/ subject = "reports" /\ ReportsNext
       \/ subject # "reports" /\ UNCHANGED reportVars
    /\ UNCHANGED subject

\* The fair actions of the breaker and of the sessions are not enabled while those
\* are as they began.
MCCallsSpec == MCCallsInit /\ [][MCCallsNext]_callVars /\ Fairness /\ RTFair
=============================================================================
