------------------------------ MODULE Requests ------------------------------
(***************************************************************************)
(* One model request on its way through the gateway, while the registry is *)
(* refreshed under it: the workflow middleware resolves the model, the     *)
(* orchestrator checks access and rewrites the request, the router         *)
(* resolves the rewritten request once more and calls a provider, and the  *)
(* answer is accounted for (internal/server, internal/gateway,             *)
(* internal/providers/router.go).                                          *)
(*                                                                         *)
(* Every reading of the registry is a step of its own.  A refresh is one   *)
(* step here; module ModelRegistry takes it apart.  Cooldowns and failover *)
(* are module Routing's, the response cache module ResponseCache's.        *)
(***************************************************************************)
EXTENDS Resolution, FiniteSets

CONSTANTS
  Inventories,    \* provider name -> the sets of ids it may list
  Models,         \* ids requests ask for
  Bodies,         \* bodies of translated requests
  Rewritten,      \* bodies a request rewriter may replace them by
  Serving,        \* providers that serve audio and realtime
  PassedThrough,  \* provider types enabled for the passthrough
  Hints,          \* provider fields of requests, Blank for none
  Redirects,      \* virtual model -> its target's selector
  Deniable,       \* selectors the access policy may come to deny
  ChangeBound     \* bound on changes of the providers' lists

Fields == [key : STRING, value : Segments]

ASSUME RequestsAssumption ==
  /\ \A n \in Names : \A ids \in Inventories[n] : ids \subseteq Ids
  /\ Models \subseteq Ids /\ Hints \subseteq STRING
  /\ Redirects \in [DOMAIN Redirects -> Selectors]
  /\ \A body \in Bodies \cup Rewritten :
       /\ body \in Seq(Fields)
       /\ \A i, k \in DOMAIN body : body[i].key = body[k].key => i = k

VARIABLES
  upstream,       \* what every provider lists now
  catalog,        \* what the registry believes
  changes,        \* changes of upstream so far
  denied,         \* selectors the access policy denies
  request

requestVars == <<upstream, catalog, changes, denied, request>>

\* A body is the sequence of its top-level fields; a value is the parts of a
\* string, Null, or Bad for a value of another type.  A huge field reaches beyond
\* the bytes that are captured or peeked at.
Null == <<>>
Bad == <<"?">>
Field(key, value) == [key |-> key, value |-> value]
NoEnvelope == [parsed |-> FALSE, model |-> Null, provider |-> Null]
Envelope(model, provider) == [parsed |-> TRUE, model |-> model, provider |-> provider]

Requested == NewRequestedModelSelector(request.model, request.hint)

\* Kinds: chat, responses and embeddings with a JSON answer, "json", or as a
\* "stream"; the transport-free executor, "internal"; audio and realtime,
\* "service"; and the provider "passthrough".
NewRequest(kind, model, hint) ==
  [kind |-> kind, model |-> model, hint |-> hint,
   pc |-> IF kind = "passthrough" THEN "passthrough" ELSE "resolve",
   refreshed |-> FALSE,       \* by the gateway's resolution
   rerouted |-> FALSE,        \* by the router's
   selector |-> <<>>,         \* ResolvedSelector
   name |-> Blank, type |-> Blank,  \* ProviderName and ProviderType of the workflow
   route |-> <<>>,            \* the router's own selector
   target |-> <<>>,           \* the provider called and the id it is sent
   body |-> <<>>,             \* the JSON body of a translated request, until it is read
   env |-> NoEnvelope,        \* what the WhiteBoxPrompt says of the body
   asked |-> <<>>,            \* history: model and provider of that body
   usage |-> <<>>,            \* the usage entry: provider name, type and model
   failure |-> Blank,
   deniedBefore |-> denied,   \* history: denied when the request arrived
   steady |-> IF hint = Blank /\ model \in DOMAIN Redirects THEN {}
              ELSE {n \in {ParseModelSelector(model, hint).provider} \cap Names :
                      ParseModelSelector(model, hint).model \in upstream[n]}]
                              \* history: the provider named, if it lists the model ever since

Init ==
  /\ upstream \in {u \in [Names -> UNION {Inventories[n] : n \in Names}] :
                     \A n \in Names : u[n] \in Inventories[n]}
  /\ catalog = upstream
  /\ changes = 0
  /\ denied = {}
  /\ request = [NewRequest("json", <<>>, Blank) EXCEPT !.pc = "idle"]

Goes(pc) == [request EXCEPT !.pc = pc]
Failed(failure) == [request EXCEPT !.pc = "end", !.failure = failure]
Environment == <<upstream, catalog, changes, denied>>

----------------------------------------------------------------------------
(* Which model a body asks for: server/request_selector_peek.go. *)

Earliest(places) == CHOOSE i \in places : \A k \in places : i <= k
Latest(places) == CHOOSE i \in places : \A k \in places : k <= i

\* The fields of a name among the first n, and the value of the last of them.
Places(body, key, n) == {i \in 1 .. n : body[i].key = key}
LastValue(body, key, n) ==
  IF Places(body, key, n) = {} THEN Null ELSE body[Latest(Places(body, key, n))].value

\* What ends a peek: a field that cannot be read, or a model.
Unreadable(field) ==
  field.key = "huge" \/ (field.key \in {"model", "provider", "stream"} /\ field.value = Bad)

Deciding(body) ==
  {i \in DOMAIN body : Unreadable(body[i]) \/ (body[i].key = "model" /\ body[i].value # Null)}

Peeked(model, provider, parsed, complete) ==
  [model |-> model, provider |-> provider, parsed |-> parsed, complete |-> complete]

\* A provider counts when it comes before the model.
DecodeRequestBodySelectorHints(body) ==
  LET end == Earliest(Deciding(body))
      provider(n) == LastValue(body, "provider", n)
  IN  IF Deciding(body) = {} THEN Peeked(Null, provider(Len(body)), TRUE, TRUE)
      ELSE IF Unreadable(body[end]) THEN Peeked(Null, Null, FALSE, FALSE)
      ELSE Peeked(body[end].value, provider(end), provider(end) # Null, FALSE)

\* What decoding the whole body finds: the last field of the name.
Decoded(body, key) == LastValue(body, key, Len(body))

Decodable(body) ==
  \A i \in DOMAIN body : body[i].key \in {"model", "provider", "stream"} => body[i].value # Bad

\* DeriveWhiteBoxPrompt: the first field of each name, if the types are right.
DeriveWhiteBoxPrompt(body) ==
  LET places(key) == Places(body, key, Len(body))
      first(key) == IF places(key) = {} THEN Null ELSE body[Earliest(places(key))].value
  IN  IF Decodable(body) THEN Envelope(first("model"), first("provider")) ELSE NoEnvelope

\* Hints that were peeked at are kept when they cannot change any more.
SeedRequestBodySelectorHints(body) ==
  LET peeked == DecodeRequestBodySelectorHints(body)
  IN  IF peeked.parsed /\ peeked.complete THEN Envelope(peeked.model, peeked.provider) ELSE NoEnvelope

\* Mutant of StoreRequestBodySnapshot: the body changes and its semantics stay.
KeepEnvelope(body) == request.env

\* A body that was read or replaced has its semantics derived anew.
StoreRequestBodySnapshot(body) == DeriveWhiteBoxPrompt(body)

\* What the envelope says, else what a peek says, else the body itself.
SelectorHintsForValidation(body, env) ==
  LET peeked == DecodeRequestBodySelectorHints(body)
  IN  IF env.parsed THEN env
      ELSE IF peeked.parsed /\ (peeked.complete \/ peeked.provider # Null)
        THEN Envelope(peeked.model, peeked.provider)
        ELSE Envelope(Decoded(body, "model"), Decoded(body, "provider"))

AsHint(value) == IF value = Null THEN Blank ELSE value[1]
----------------------------------------------------------------------------
(* Requests arrive. *)

ArriveTranslated ==
  /\ request.pc = "idle"
  /\ \E body \in Bodies : request' = [Goes("body") EXCEPT !.body = body]
  /\ UNCHANGED Environment

\* RequestSnapshotCapture: a body known to be small is captured whole, another
\* one, also one of unknown length, is only peeked at.
CaptureSnapshot ==
  /\ request.pc = "body"
  /\ \/ /\ \A i \in DOMAIN request.body : request.body[i].key # "huge"
        /\ request' = [Goes("rewrite") EXCEPT !.env = DeriveWhiteBoxPrompt(request.body)]
     \/ request' = [Goes("rewrite") EXCEPT !.env = SeedRequestBodySelectorHints(request.body)]
  /\ UNCHANGED Environment

NotRewritten ==
  /\ request.pc = "rewrite"
  /\ request' = Goes("workflow")
  /\ UNCHANGED Environment

\* RequestRewriteMiddleware: rewriters read the body and leave it, replace it, or
\* refuse the request.
Rewrite ==
  /\ request.pc = "rewrite"
  /\ \/ \E body \in Rewritten \cup {request.body} :
          request' = [Goes("workflow") EXCEPT !.body = body, !.env = StoreRequestBodySnapshot(body)]
     \/ request' = [Failed("rejected") EXCEPT !.body = <<>>, !.env = NoEnvelope]
  /\ UNCHANGED Environment

\* The workflow middleware reads the selector off the body; a body that cannot
\* be decoded or names no model is refused.
DeriveWorkflow ==
  /\ request.pc = "workflow"
  /\ LET hints == SelectorHintsForValidation(request.body, request.env)
         asked == <<Decoded(request.body, "model"), AsHint(Decoded(request.body, "provider"))>>
     IN  \/ /\ Decodable(request.body) /\ hints.model # Null
            /\ \E kind \in {"json", "stream"} :
                 request' = [NewRequest(kind, hints.model, AsHint(hints.provider)) EXCEPT !.asked = asked]
         \/ /\ ~Decodable(request.body) \/ hints.model = Null
            /\ request' = [Failed("invalid") EXCEPT !.body = <<>>, !.env = NoEnvelope]
  /\ UNCHANGED Environment

ArriveInternal ==
  /\ request.pc = "idle"
  /\ \E model \in Models, hint \in Hints : request' = NewRequest("internal", model, hint)
  /\ UNCHANGED Environment

ArriveService ==
  /\ request.pc = "idle"
  /\ \E model \in Models, hint \in Hints : request' = NewRequest("service", model, hint)
  /\ UNCHANGED Environment

ArrivePassthrough ==
  /\ request.pc = "idle"
  /\ \E model \in Models, segment \in Hints \ {Blank} : request' = NewRequest("passthrough", model, segment)
  /\ UNCHANGED Environment
----------------------------------------------------------------------------
(* gateway/request_model_resolution.go *)

\* A redirect applies to a name without an explicit provider whose target is known.
RequestedModel(cat) ==
  IF /\ ~Requested.explicit
     /\ request.model \in DOMAIN Redirects
     /\ Lookup(cat, QualifiedModel(Redirects[request.model])) # <<>>
    THEN Redirects[request.model]
    ELSE Normalize(Requested)

\* The resolver's answer is handed on as one name: whether the provider was
\* explicit is forgotten here.
ResolveExecutionSelector(cat) ==
  ResolveModel(cat, NewRequestedModelSelector(QualifiedModel(RequestedModel(cat)), Blank))

RefreshSelector ==
  LET known == IF request.selector # <<>> THEN request.selector[1].provider
               ELSE RequestedModel(catalog).provider
  IN  IF known # Blank THEN known
      ELSE IF ~Requested.explicit /\ request.model \in DOMAIN Redirects
        THEN Redirects[request.model].provider
        ELSE Normalize(Requested).provider

RefreshOrFail(failure) ==
  IF request.refreshed \/ RefreshSelector = Blank THEN Failed(failure) ELSE Goes("refresh")

Resolve ==
  /\ request.pc = "resolve"
  /\ LET selector == ResolveExecutionSelector(catalog)
     IN  request' = IF selector # <<>> THEN [Goes("check") EXCEPT !.selector = selector]
                    ELSE IF request.kind = "service" THEN Failed("unavailable")
                    ELSE RefreshOrFail("unavailable")
  /\ UNCHANGED Environment

ValidateModelAccess(selector) == selector \notin denied

WithResolution(pc) ==
  LET q == QualifiedModel(request.selector[1])
  IN  [Goes(pc) EXCEPT !.type = GetProviderType(catalog, q),
                       !.name = IF request.kind = "service" /\ GetProviderName(catalog, q) = Blank
                                  THEN request.selector[1].provider
                                  ELSE GetProviderName(catalog, q)]

\* The middleware resolves without an authorizer; Prepare asks it.  The executor
\* asks at once.
CheckSupport ==
  /\ request.pc = "check" /\ request.kind # "service"
  /\ LET selector == request.selector[1]
     IN  request' =
           IF ~Supports(catalog, QualifiedModel(selector)) THEN RefreshOrFail("not_found")
           ELSE IF request.kind = "internal" /\ ~ValidateModelAccess(selector) THEN Failed("denied")
           ELSE Goes("label")
  /\ UNCHANGED Environment

\* The audio and realtime services do not ask whether anybody supports the model.
PrepareService ==
  /\ request.pc = "check" /\ request.kind = "service"
  /\ request' = IF ValidateModelAccess(request.selector[1]) THEN Goes("label") ELSE Failed("denied")
  /\ UNCHANGED Environment

LabelResolution ==
  /\ request.pc = "label"
  /\ request' = WithResolution(IF request.kind \in {"json", "stream"} THEN "prepare" ELSE "route")
  /\ UNCHANGED Environment

\* A refresh asks the named provider, or every provider of the type, and takes
\* over the lists of those that answer.
Refreshed(answering) ==
  [n \in Names |-> IF n \in answering THEN upstream[n] ELSE catalog[n]]

RefreshAsked(segment, goesTo, flagged) ==
  /\ \/ /\ request' = Failed("refresh_failed")
        /\ UNCHANGED catalog
     \/ /\ \E answering \in SUBSET RefreshTargets(segment) :
             /\ answering = {} => RefreshTargets(segment) = {}
             /\ catalog' = Refreshed(answering)
        /\ request' = [flagged EXCEPT !.pc = goesTo]
  /\ UNCHANGED <<upstream, changes, denied>>

RefreshForResolution ==
  /\ request.pc = "refresh"
  /\ RefreshAsked(RefreshSelector, "resolve", [request EXCEPT !.refreshed = TRUE])

\* ensureTranslatedRequestWorkflow: the stored resolution is authorised again
\* and written into the request.
Prepare ==
  /\ request.pc = "prepare"
  /\ request' = IF ValidateModelAccess(request.selector[1]) THEN Goes("route") ELSE Failed("denied")
  /\ UNCHANGED Environment
----------------------------------------------------------------------------
(* providers/router.go *)

\* Mutant of ApplyResolvedSelector: the provider of the resolution is not written back.
ApplyModelOnly(selector) == NewRequestedModelSelector(selector.model, Blank)

ApplyResolvedSelector(selector) == NewRequestedModelSelector(selector.model, selector.provider)

RerouteOrFail(failure) ==
  IF request.rerouted \/ ~HasRegisteredProviderSelector(request.selector[1].provider)
    THEN Failed(failure)
    ELSE Goes("reroute")

Route ==
  /\ request.pc = "route"
  /\ LET selector == ResolveModel(catalog, ApplyResolvedSelector(request.selector[1]))
     IN  request' = IF selector # <<>> THEN [Goes("find") EXCEPT !.route = selector]
                    ELSE RerouteOrFail("unavailable")
  /\ UNCHANGED Environment

FindProvider ==
  /\ request.pc = "find"
  /\ LET provider == Lookup(catalog, QualifiedModel(request.route[1]))
         model == request.route[1].model
     IN  request' = IF provider # <<>>
                      THEN [Goes("call") EXCEPT !.target = <<Selector(provider[1], model)>>]
                      ELSE RerouteOrFail("not_found")
  /\ UNCHANGED Environment

RefreshForRequest ==
  /\ request.pc = "reroute"
  /\ RefreshAsked(request.selector[1].provider, "route", [request EXCEPT !.rerouted = TRUE])

ResponseProviderType(fallback, stamped) == IF stamped # Blank THEN stamped ELSE fallback

\* A JSON answer is stamped with the type the registry reports after the call.
StampedType == GetProviderType(catalog, QualifiedModel(request.route[1]))

UsageEntry(type, model) == [name |-> request.name, type |-> type, model |-> model]

\* routeAudioCall, RealtimeTarget: the provider found has no such operation.
ServiceUnsupported ==
  /\ request.pc = "call" /\ request.kind = "service" /\ request.target[1].provider \notin Serving
  /\ request' = Failed("invalid")
  /\ UNCHANGED Environment

Callable == request.kind = "service" => request.target[1].provider \in Serving

CallFails ==
  /\ request.pc = "call" /\ Callable
  /\ request' = Failed("upstream")
  /\ UNCHANGED Environment

Answered(kind, entry) ==
  /\ request.pc = "call" /\ request.kind = kind /\ Callable
  /\ request' = [Goes("end") EXCEPT !.usage = <<entry>>]
  /\ UNCHANGED Environment

\* executeWithUsage: priced by the resolved model.
JSONAnswered ==
  Answered("json", UsageEntry(ResponseProviderType(request.type, StampedType), request.selector[1].model))

\* A stream is not stamped; its observer carries the workflow's route.
StreamAnswered == Answered("stream", UsageEntry(request.type, request.selector[1].model))

\* The executor prices by the model of the answer.
InternalAnswered ==
  Answered("internal", UsageEntry(ResponseProviderType(request.type, StampedType), request.target[1].model))

ServiceAnswered == Answered("service", UsageEntry(request.type, request.selector[1].model))
----------------------------------------------------------------------------
(* server/passthrough_*.go *)

ResolvePassthroughProvider(segment) ==
  IF segment \in Names THEN [type |-> TypeOf[segment], name |-> segment]
  ELSE [type |-> segment,
        name |-> IF ProviderByType(segment) = <<>> THEN Blank ELSE ProviderByType(segment)[1]]

\* The enrichment middleware keeps the instance name before the workflow and the
\* handler replace the segment of the path by the provider's type, each resolving
\* what the one before left.
PassthroughName(segment) == ResolvePassthroughProvider(segment).name

PassthroughType(segment) ==
  LET enriched == ResolvePassthroughProvider(segment).type
      derived == ResolvePassthroughProvider(enriched).type
  IN  ResolvePassthroughProvider(derived).type

Passthrough ==
  /\ request.pc = "passthrough"
  /\ LET name == PassthroughName(request.hint)
         type == PassthroughType(request.hint)
         provider == IF name # Blank THEN <<name>> ELSE ProviderByType(type)
     IN  request' = IF provider = <<>> \/ type \notin PassedThrough THEN Failed("invalid")
                    ELSE [Goes("access") EXCEPT !.name = name, !.type = type,
                                              !.target = <<Selector(provider[1], request.model)>>]
  /\ UNCHANGED Environment

\* What access is asked for: the provider that the registry finds for the model
\* under the type or alone, else the first one of the type.
PassthroughAccessSelector(cat, type, model) ==
  LET typed == GetProviderName(cat, <<type>> \o model)
      bare == GetProviderName(cat, model)
  IN  Selector(CASE typed # Blank -> typed
                 [] typed = Blank /\ bare # Blank -> bare
                 [] OTHER -> ResolvePassthroughProvider(type).name, model)

AuthorizePassthrough ==
  /\ request.pc = "access"
  /\ request' = IF ValidateModelAccess(PassthroughAccessSelector(catalog, request.type, request.model))
                  THEN Goes("call")
                  ELSE [Failed("denied") EXCEPT !.target = <<>>]
  /\ UNCHANGED Environment

ProxyPassthroughResponse == Answered("passthrough", UsageEntry(request.type, request.model))
----------------------------------------------------------------------------
(* The environment. *)

\* Nobody reads the registry while the body is read: no change in between matters.
ReadingBody == request.pc \in {"body", "rewrite", "workflow"}

UpstreamChanges ==
  /\ changes < ChangeBound /\ ~ReadingBody
  /\ \E n \in Names : \E ids \in Inventories[n] \ {upstream[n]} :
       /\ upstream' = [upstream EXCEPT ![n] = ids]
       /\ request' = [request EXCEPT !.steady =
                        {k \in @ : ParseModelSelector(request.model, request.hint).model \in upstream'[k]}]
  /\ changes' = changes + 1
  /\ UNCHANGED <<catalog, denied>>

BackgroundRefresh ==
  /\ ~ReadingBody
  /\ \E n \in Names : /\ catalog[n] # upstream[n]
                      /\ catalog' = [catalog EXCEPT ![n] = upstream[n]]
  /\ UNCHANGED <<upstream, changes, denied, request>>

PolicyChanges ==
  /\ \E selector \in Deniable \ denied : denied' = denied \cup {selector}
  /\ request.pc \in {"idle", "prepare", "access"}
  /\ UNCHANGED <<upstream, catalog, changes, request>>

Next ==
  \/ ArriveTranslated \/ CaptureSnapshot \/ NotRewritten \/ Rewrite \/ DeriveWorkflow
  \/ ArriveInternal \/ ArriveService \/ ArrivePassthrough
  \/ Resolve \/ CheckSupport \/ PrepareService \/ LabelResolution \/ RefreshForResolution \/ Prepare
  \/ Route \/ FindProvider \/ RefreshForRequest
  \/ ServiceUnsupported \/ CallFails \/ JSONAnswered \/ StreamAnswered \/ InternalAnswered \/ ServiceAnswered
  \/ Passthrough \/ AuthorizePassthrough \/ ProxyPassthroughResponse
  \/ UpstreamChanges \/ BackgroundRefresh \/ PolicyChanges

RequestEnded == request.pc = "end"
Spec == Init /\ [][Next]_requestVars
----------------------------------------------------------------------------
Types == {TypeOf[n] : n \in Names}

\* A selector that the router's second resolution may read differently: its
\* provider is no configured name (the lookup fell through to a whole id), its
\* provider's name is also a type, or its id begins with the provider's name.
ReadTwice(selector) ==
  \/ selector.provider \notin Names
  \/ selector.provider \in Types
  \/ Len(selector.model) > 1 /\ Head(selector.model) = selector.provider

\* The call goes to the provider and the id that the workflow resolved and the
\* access check allowed, although the router resolves the request a second time
\* and the registry may have changed in between; a passthrough for a configured
\* name reaches that provider.
CallsWhatItResolved ==
  request.target # <<>> =>
    IF request.kind = "passthrough"
      THEN request.hint \in Names => request.target[1].provider = request.hint
      ELSE /\ request.selector[1] \notin request.deniedBefore
           /\ ReadTwice(request.selector[1]) \/ request.target = request.selector

\* Usage is never charged to another provider or type than the one called,
\* although name and type are read from the registry before and after the call
\* (gateway/usage.go, router.go stampProvider); both stay empty when the registry
\* lost the model at that moment.
UsageNamesTheProvider ==
  (/\ request.usage # <<>>
   /\ request.kind # "passthrough"
   /\ ~ReadTwice(request.selector[1])) =>
    /\ request.usage[1].name \in {request.target[1].provider, Blank}
    /\ request.usage[1].type \in {TypeOf[request.target[1].provider], Blank}

\* The selector that the workflow goes by, taken from the captured body, from its
\* first bytes or from the whole, is the selector of the body that is decoded and
\* sent, also when a rewriter has replaced it meanwhile (request_snapshot.go,
\* request_selector_peek.go, request_rewrite.go); bodies with a repeated field are
\* left out, for which model_validation.go accepts a difference.
PeekedSelectorIsTheBodys ==
  request.asked # <<>> => request.asked = <<request.model, request.hint>>

\* A model that the provider named in the request has listed all the time, and that
\* no redirect replaces, is not reported as missing: the registry may be out of date,
\* but then the request refreshes it (refreshProviderModelsForResolution,
\* refreshProviderModelsForRequest).
ListedModelsAreFound ==
  request.failure = "not_found" => request.steady \subseteq Types

\* A request reaches the model it was resolved to and allowed, and no other one,
\* is charged to it, and is not turned away while it is listed.
RequestsReachTheirModel ==
  CallsWhatItResolved /\ UsageNamesTheProvider /\ ListedModelsAreFound
=============================================================================
