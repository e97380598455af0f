----------------------------- MODULE MCRequests -----------------------------
(* Requests for TLC: a behaviour is about finding the model of one request,  *)
(* about reading the body of one, about a conversation through an API and a  *)
(* provider, or about the settings of one request; the variables of the      *)
(* others stay as they began.                                                *)
EXTENDS Requests, Translation, RequestSettings

(* Two providers of one type and one that offers other vendors' models.      *)
MCOrder == <<"n", "n-2", "r">>
MCTypeOf == [n |-> "t", r |-> "v"] @@ ("n-2" :> "t")
MCNameRank == [n |-> 1, r |-> 3] @@ ("n-2" :> 2)
MCSelectorRank == [n |-> 2, r |-> 3] @@ ("n-2" :> 1)

A == <<"a">>
MCInventories ==
  [n |-> {{}, {A}}, r |-> {{}, {<<"t", "a">>}, {A, <<"r", "a">>}, {<<"t", "a">>, <<"u", "a">>}}]
    @@ ("n-2" :> {{}, {A}})
MCModels == {A, <<"n", "a">>, <<"t", "a">>, <<"u", "a">>, <<"r", "a">>, <<"alias">>}
MCHints == {"", "n", "t", "r"}
\* Every order of a model, a provider and another field, each at most once.
MCFields ==
  {Field("model", id) : id \in MCModels \cup {Null, Bad}}
    \cup {Field("provider", value) : value \in {Null, <<"n">>, <<"t">>, <<"r">>}}
    \cup {Field("huge", Null), Field("stream", Null), Field("other", Bad)}
MCBodies ==
  {body \in UNION {[1 .. n -> MCFields] : n \in 1 .. 3} :
     \A i, k \in DOMAIN body : i # k => body[i].key # body[k].key}
\* The bodies of requests whose way to the provider matters.
PlainBodies ==
  {body \in MCBodies : body[1].key = "model" /\ \A i \in 2 .. Len(body) : i = 2 /\ body[i].key = "provider"}
MCRewritten == {<<Field("model", A), Field("provider", <<"n">>)>>, <<Field("model", Bad)>>}
MCRedirects == (<<"alias">> :> Selector("n", A)) @@ (<<"n", "a">> :> Selector("r", A))
MCDeniable == {Selector("n", A)}

(* Every API with every provider; openings with and without a prompt, an     *)
(* image, a remote image or audio; the answers that differ to an adapter.    *)
Cast(api, provider, system, prompt, role, says) ==
  [api |-> api, provider |-> provider, system |-> system, prompt |-> prompt,
   role |-> role, says |-> says]

APIs == {"chat", "messages", "responses", "conversation"}
Providers == {"anthropic", "gemini", "bedrock", "compatible"}

Says == {<<Text(1)>>, <<Text(1), Piece("image", 2)>>, <<Piece("image", 2), Text(1)>>,
         <<Text(1), Piece("remote", 3)>>, <<Text(1), Piece("audio", 4)>>}

MCCasts ==
  {Cast(api, provider, <<>>, <<>>, "system", says) : api \in APIs, provider \in Providers, says \in Says}
    \cup {Cast("chat", provider, <<>>, <<Text(5)>>, role, <<Text(1)>>) :
            provider \in Providers, role \in {"system", "developer"}}
    \cup {Cast(api, provider, <<Text(6)>>, prompt, "developer", <<Text(1)>>) :
            api \in {"responses", "conversation"}, provider \in Providers, prompt \in {<<>>, <<Text(5)>>}}
    \cup {Cast("messages", provider, <<Text(6)>>, prompt, "system", <<Text(1)>>) :
            provider \in Providers, prompt \in {<<>>, <<Text(5)>>}}

MCAnswers ==
  {<<>>, <<"text">>, <<"call">>, <<"text", "call">>, <<"call", "call">>, <<"call", "text">>,
   <<"thinking", "text", "call">>, <<"text", "thinking", "text">>, <<"unnumbered">>,
   <<"unnumbered", "unnumbered">>, <<"text", "unnumbered">>}

(* A conversation of the gateway's store with a model that answers and calls. *)
StoredCasts ==
  {Cast("conversation", provider, <<>>, <<>>, "system", <<Text(1)>>) : provider \in Providers}
PlainAnswers == {<<"text">>, <<"call">>}

ChoicesOf(api) ==
  CASE api = "messages" -> {Unset, Choice("object", "auto", ""), Choice("object", "any", ""),
                            Choice("object", "none", ""), Choice("object", "tool", "f")}
    [] OTHER -> {Unset, Word("auto"), Word("required"), Word("none"), Choice("object", "function", "f"),
                 Choice("object", "auto", ""), Choice("object", "none", ""), Choice("object", "required", ""),
                 Choice("object", "mcp", ""), Choice("object", "function", ""), Choice("object", "tool", "f")}

Thinking(type, budget) == [type |-> type, budget |-> budget]
NoThinking == Thinking("", 0)

Wish(api, provider, model, tools, choice, parallel, effort, flat, thinking, max, completion, format, stop, native) ==
  [api |-> api, provider |-> provider, model |-> model, tools |-> tools, choice |-> choice,
   parallel |-> parallel, effort |-> effort, flat |-> flat, thinking |-> thinking, max |-> max,
   completion |-> completion, format |-> format, stop |-> stop, native |-> native]

Backends == {"anthropic", "gemini", "bedrock", "openai", "bailian", "deepseek", "compatible"}
Efforts == {""} \cup DOMAIN Strength
ModelsOf(provider) ==
  {"plain"} \cup (IF provider = "anthropic" THEN {"adaptive"}
                 ELSE IF provider = "gemini" THEN {"gemini-2.5"} ELSE {})

\* Tools and choices, with every other setting at rest; then the other settings.
MCWishes ==
  UNION {UNION {
    {Wish(api, provider, "plain", tools, choice, parallel, "", FALSE, NoThinking, 2, 0, "", FALSE, FALSE) :
       tools \in BOOLEAN, choice \in ChoicesOf(api), parallel \in {"unset", "yes", "no"}} :
       api \in {"chat", "messages", "responses"}} : provider \in Backends}
  \cup UNION {
    {Wish("messages", provider, model, TRUE, Unset, "unset", "", FALSE, thinking, max, 0, "", stop, FALSE) :
       model \in ModelsOf(provider), max \in {2, 12, 30}, stop \in BOOLEAN,
       thinking \in {NoThinking, Thinking("disabled", 0), Thinking("adaptive", 0), Thinking("enabled", 1),
                     Thinking("enabled", 10), Thinking("enabled", 20)}} : provider \in Backends}
  \cup UNION {
    {Wish("responses", provider, model, TRUE, Unset, "unset", effort, FALSE, NoThinking, max, 0, format, FALSE, native) :
       model \in ModelsOf(provider), effort \in Efforts, max \in {0, 2, 12}, format \in {"", "text", "json"},
       native \in BOOLEAN} : provider \in Backends}
  \cup UNION {
    {Wish("chat", provider, model, TRUE, Unset, "unset", effort, flat, NoThinking, max, completion, format, stop, FALSE) :
       model \in ModelsOf(provider), effort \in Efforts, flat \in BOOLEAN, max \in {0, 2, 30},
       completion \in {0, 3}, format \in {"", "json"}, stop \in BOOLEAN} : provider \in Backends}

VARIABLE subject

everything == <<requestVars, translationVars, settingsVars, subject>>

SomeWish == Wish("messages", "openai", "plain", TRUE, Unset, "unset", "", FALSE, NoThinking, 2, 0, "", FALSE, FALSE)
SomeCast == CHOOSE c \in Casts : TRUE
OneListed == [n \in Names |-> IF n = "n" THEN {A} ELSE {}]
NothingListed == [n \in Names |-> {}]

SettingsAtRest == wish = SomeWish /\ sent = <<>>

RequestsInit ==
  /\ \/ subject = "request" /\ cast = SomeCast /\ SettingsAtRest
     \/ subject = "body" /\ upstream = OneListed /\ cast = SomeCast /\ SettingsAtRest
     \/ subject = "conversation" /\ upstream = NothingListed /\ SettingsAtRest
     \/ subject = "settings" /\ upstream = NothingListed /\ cast = SomeCast /\ SettingsInit
  /\ Init /\ TranslationInit

RequestsNext ==
  \/ /\ subject = "request" /\ Next /\ request'.body \in PlainBodies \cup {<<>>}
     /\ UNCHANGED <<translationVars, settingsVars, subject>>
  \/ /\ subject = "body" /\ Next /\ UNCHANGED <<upstream, denied>>
     /\ UNCHANGED <<translationVars, settingsVars, subject>>
  \/ subject = "conversation" /\ TranslationNext /\ UNCHANGED <<requestVars, settingsVars, subject>>
  \/ subject = "settings" /\ SendSettings /\ UNCHANGED <<requestVars, translationVars, subject>>

RequestsSpec == RequestsInit /\ [][RequestsNext]_everything
=============================================================================
