----------------------------- MODULE Resolution -----------------------------
(***************************************************************************)
(* How a requested model becomes a provider and a model id: the selectors  *)
(* of internal/core, the lookups of the model registry and the resolution  *)
(* of internal/providers/router.go.  The registry's content is a           *)
(* parameter, cat: configured provider name -> set of model ids.           *)
(*                                                                         *)
(* A model id or a qualified name is the sequence of its parts between     *)
(* slashes; parts are not empty.  An optional result is <<>> or <<r>>.     *)
(***************************************************************************)
EXTENDS Naturals, Sequences, SequencesExt

CONSTANTS
  Order,          \* configured provider names, in registration order
  TypeOf,         \* configured provider name -> provider type
  NameRank,       \* its place when names are sorted
  SelectorRank    \* its place when selectors "name/id" are sorted: '-' < '/'

Names == ToSet(Order)
Blank == ""
Segments == Seq(STRING)
Ids == Segments \ {<<>>}

ASSUME NamesAssumption ==
  /\ Order \in Seq(STRING) /\ Blank \notin Names
  /\ \A i, k \in DOMAIN Order : Order[i] = Order[k] => i = k
  /\ TypeOf \in [Names -> STRING]
  /\ NameRank \in [Names -> Nat] /\ SelectorRank \in [Names -> Nat]
  /\ \A n, k \in Names : n # k => NameRank[n] # NameRank[k] /\ SelectorRank[n] # SelectorRank[k]
----------------------------------------------------------------------------
(* Selectors. *)

Selector(provider, model) == [provider |-> provider, model |-> model]
Selectors == [provider : STRING, model : Ids]

ParseModelSelector(model, hint) ==
  IF hint # Blank
    THEN Selector(hint, IF Len(model) > 1 /\ Head(model) = hint THEN Tail(model) ELSE model)
    ELSE IF Len(model) > 1 THEN Selector(Head(model), Tail(model)) ELSE Selector(Blank, model)

QualifiedModel(selector) ==
  IF selector.provider = Blank THEN selector.model ELSE <<selector.provider>> \o selector.model

NewRequestedModelSelector(model, hint) == [model |-> model, hint |-> hint, explicit |-> hint # Blank]
Normalize(requested) == ParseModelSelector(requested.model, requested.hint)

OrElse(first, second) == IF first # <<>> THEN first ELSE second

Least(S, rank) == IF S = {} THEN <<>> ELSE <<CHOOSE n \in S : \A k \in S : rank[n] <= rank[k]>>
Place == [n \in Names |-> CHOOSE i \in DOMAIN Order : Order[i] = n]
----------------------------------------------------------------------------
(* The registry's lookups. *)

ModelCount(cat) == UNION {cat[n] : n \in Names}

ByName(cat, segment, id) ==
  IF segment \in Names /\ id \in cat[segment] THEN <<Selector(segment, id)>> ELSE <<>>

ByType(cat, segment, id, rank) ==
  LET owner == Least({n \in Names : TypeOf[n] = segment /\ id \in cat[n]}, rank)
  IN  IF owner = <<>> THEN <<>> ELSE <<Selector(owner[1], id)>>

\* The index and the scan of the sorted catalog break a tie between providers of
\* one type differently: by name, and by name with the slash that follows it.
ResolveProviderSelector(cat, segment, id) ==
  OrElse(ByName(cat, segment, id), ByType(cat, segment, id, NameRank))

ResolveProviderOwnedRawSelector(cat, segment, id) ==
  OrElse(ByName(cat, segment, id), ByType(cat, segment, id, SelectorRank))

ProviderByType(type) == Least({n \in Names : TypeOf[n] = type}, Place)
GetProviderTypeForName(name) == IF name \in Names THEN TypeOf[name] ELSE Blank

\* The provider behind a qualified name: the named provider's id, the named
\* provider's id with the name in it, then, unless the name is configured, the
\* first registered provider whose id is the whole name.
Lookup(cat, q) ==
  LET named == IF Len(q) > 1 /\ Head(q) \in Names THEN <<Head(q)>> ELSE <<>>
  IN  IF named # <<>>
        THEN IF cat[named[1]] \cap {Tail(q), q} # {} THEN named ELSE <<>>
        ELSE Least({n \in Names : q \in cat[n]}, Place)
----------------------------------------------------------------------------
(* The router. *)

ResolveUnqualifiedSelector(cat, selector) ==
  LET owner == Lookup(cat, selector.model)
  IN  IF owner = <<>> THEN <<>> ELSE <<Selector(owner[1], selector.model)>>

HasRegisteredProviderSelector(segment) == segment \in Names \/ ProviderByType(segment) # <<>>

RawModelID(cat, requested) ==
  LET owner == Least({n \in Names : requested.model \in cat[n]}, SelectorRank)
  IN  IF requested.explicit \/ HasRegisteredProviderSelector(Normalize(requested).provider) \/ owner = <<>>
        THEN <<>>
        ELSE <<Selector(owner[1], requested.model)>>

ResolveQualifiedSelector(cat, requested, selector) ==
  OrElse(ResolveProviderSelector(cat, selector.provider, selector.model),
  OrElse(ResolveProviderOwnedRawSelector(cat, selector.provider, selector.model),
  OrElse(ResolveProviderOwnedRawSelector(cat, selector.provider, requested.model),
         RawModelID(cat, requested))))

\* Router.ResolveModel; no result while the registry is empty.
ResolveModel(cat, requested) ==
  LET selector == Normalize(requested)
      concrete == IF selector.provider = Blank THEN ResolveUnqualifiedSelector(cat, selector)
                  ELSE ResolveQualifiedSelector(cat, requested, selector)
  IN  IF ModelCount(cat) = {} THEN <<>>
      ELSE OrElse(concrete, <<selector>>)

\* Supports, GetProviderType and GetProviderName resolve the name once more and
\* look it up.
Found(cat, q) ==
  LET selector == ResolveModel(cat, NewRequestedModelSelector(q, Blank))
  IN  IF selector = <<>> THEN <<>> ELSE Lookup(cat, QualifiedModel(selector[1]))

Supports(cat, q) == Found(cat, q) # <<>>
GetProviderType(cat, q) == IF Supports(cat, q) THEN TypeOf[Found(cat, q)[1]] ELSE Blank

GetProviderName(cat, q) ==
  LET selector == ResolveModel(cat, NewRequestedModelSelector(q, Blank))
  IN  IF ~Supports(cat, q) THEN Blank
      ELSE IF selector[1].provider # Blank THEN selector[1].provider
      ELSE Found(cat, q)[1]

RefreshTargets(segment) ==
  IF segment \in Names THEN {segment} ELSE {n \in Names : TypeOf[n] = segment}
=============================================================================
