--------------------------- MODULE Requests_proofs ---------------------------
(* Machine-checked proofs about one model request: for any providers, types,  *)
(* lists of models, redirects, policy, bodies and settings, and any changes   *)
(* and refreshes while it is on its way.                                      *)
EXTENDS Requests, RequestSettings, SequenceTheorems, WellFoundedInduction, TLAPS

-----------------------------------------------------------------------------
(* Selectors.                                                                *)

(* A name is a segment, a type as well, and neither is the empty one.        *)
LEMMA NamesAreSegments ==
  /\ Names \subseteq STRING /\ Blank \notin Names /\ TypeOf \in [Names -> STRING]
  /\ NameRank \in [Names -> Nat] /\ SelectorRank \in [Names -> Nat]
  BY NamesAssumption DEF Names, ToSet

LEMMA OneIsASequence ==
  ASSUME NEW S, NEW x \in S PROVE <<x>> \in Seq(S)
  OBVIOUS

(* A provider and an id make a name that comes apart again.                  *)
LEMMA QualifiedComesApart ==
  ASSUME NEW p \in STRING, NEW id \in Ids
  PROVE  /\ <<p>> \o id \in Ids
         /\ Len(<<p>> \o id) > 1
         /\ Head(<<p>> \o id) = p
         /\ Tail(<<p>> \o id) = id
<1> DEFINE q == <<p>> \o id
<1>0. id \in Seq(STRING) /\ id # << >>
  BY DEF Ids, Segments
<1>a. <<p>> \in Seq(STRING)
  BY OneIsASequence
<1>b. Len(<<p>>) = 1 /\ <<p>>[1] = p
  OBVIOUS
<1>1. <<p>> \in Seq(STRING) /\ id \in Seq(STRING) /\ id # << >> /\ Len(<<p>>) = 1 /\ <<p>>[1] = p
  BY <1>0, <1>a, <1>b
<1>2. Len(id) \in Nat \ {0}
  BY <1>1, EmptySeq
<1>3. /\ q \in Seq(STRING) /\ Len(q) = 1 + Len(id)
      /\ \A i \in 1 .. 1 + Len(id) : q[i] = IF i <= 1 THEN <<p>>[i] ELSE id[i - 1]
  BY <1>1, ConcatProperties
<1>4. q # << >> /\ Len(q) > 1
  BY <1>2, <1>3
<1>5. Head(q) = p
  BY <1>1, <1>3, <1>4, HeadTailProperties
<1>6. Tail(q) = id
  <2>1. /\ Tail(q) \in Seq(STRING) /\ Len(Tail(q)) = Len(q) - 1
        /\ \A i \in 1 .. Len(Tail(q)) : Tail(q)[i] = q[i + 1]
    BY <1>3, <1>4, HeadTailProperties
  <2> HIDE DEF q
  <2>2. \A i \in 1 .. Len(id) : Tail(q)[i] = id[i]
    BY <1>2, <1>3, <2>1
  <2> QED
    BY <1>1, <1>2, <1>3, <2>1, <2>2, SeqEqual
<1> QED
  BY <1>3, <1>4, <1>5, <1>6 DEF Ids, Segments

(* An id of several parts is its first part and an id.                       *)
LEMMA IdsComeApart ==
  ASSUME NEW id \in Ids, Len(id) > 1
  PROVE  Head(id) \in STRING /\ Tail(id) \in Ids /\ id = <<Head(id)>> \o Tail(id)
<1>1. id \in Seq(STRING) /\ id # << >> /\ Len(id) \in Nat
  BY LenProperties DEF Ids, Segments
<1>2. /\ Head(id) \in STRING /\ Tail(id) \in Seq(STRING) /\ Len(Tail(id)) = Len(id) - 1
      /\ \A i \in 1 .. Len(Tail(id)) : Tail(id)[i] = id[i + 1]
      /\ Head(id) = id[1]
  BY <1>1, HeadTailProperties
<1>3. Tail(id) \in Ids
  <2>1. Len(Tail(id)) # 0
    BY <1>1, <1>2
  <2>2. Tail(id) # << >>
    BY <2>1, EmptySeq
  <2> QED
    BY <1>2, <2>2 DEF Ids, Segments
<1> DEFINE joined == <<Head(id)>> \o Tail(id)
<1>4. /\ <<Head(id)>> \in Seq(STRING) /\ Len(<<Head(id)>>) = 1 /\ <<Head(id)>>[1] = Head(id)
  BY <1>2, OneIsASequence
<1>5. /\ joined \in Seq(STRING) /\ Len(joined) = 1 + Len(Tail(id))
      /\ \A i \in 1 .. 1 + Len(Tail(id)) : joined[i] = IF i <= 1 THEN <<Head(id)>>[i] ELSE Tail(id)[i - 1]
  BY <1>2, <1>4, ConcatProperties
<1> HIDE DEF joined
<1>6. Len(joined) = Len(id)
  BY <1>1, <1>2, <1>5
<1>7. \A i \in 1 .. Len(id) : joined[i] = id[i]
  <2> TAKE i \in 1 .. Len(id)
  <2>1. CASE i = 1
    BY <1>1, <1>2, <1>4, <1>5, <2>1
  <2>2. CASE i # 1
    BY <1>1, <1>2, <1>5, <2>2
  <2> QED
    BY <2>1, <2>2
<1>8. joined = id
  BY <1>1, <1>5, <1>6, <1>7, SeqEqual
<1> QED
  BY <1>2, <1>3, <1>8 DEF joined

(* What a selector is parsed to has an id again.                             *)
LEMMA ParsedIsASelector ==
  ASSUME NEW model \in Ids, NEW hint \in STRING \cup {Blank}
  PROVE  /\ ParseModelSelector(model, hint).provider \in STRING \cup {Blank}
         /\ ParseModelSelector(model, hint).model \in Ids
         /\ ParseModelSelector(model, hint) =
              Selector(ParseModelSelector(model, hint).provider, ParseModelSelector(model, hint).model)
<1>1. Len(model) > 1 => Head(model) \in STRING /\ Tail(model) \in Ids
  BY IdsComeApart
<1> QED
  BY <1>1 DEF ParseModelSelector, Selector

-----------------------------------------------------------------------------
(* Lookups.                                                                  *)

(* The least of some names is one of them.                                   *)
LEMMA LeastIsOne ==
  ASSUME NEW S \in SUBSET Names, NEW rank \in [Names -> Nat]
  PROVE  IF S = {} THEN Least(S, rank) = << >>
         ELSE \E n \in S : Least(S, rank) = <<n>>
<1> SUFFICES ASSUME S # {} PROVE \E n \in S : Least(S, rank) = <<n>>
  BY DEF Least
<1> DEFINE ranks == {rank[n] : n \in S}
<1>1. ranks \in SUBSET Nat /\ ranks # {}
  OBVIOUS
<1>2. \E i \in ranks : \A j \in ranks : i <= j
  <2> DEFINE less == {pair \in Nat \X Nat : pair[1] < pair[2]}
  <2>1. IsWellFoundedOn(less, Nat)
    BY NatLessThanWellFounded DEF OpToRel
  <2>2. \E i \in ranks : \A j \in ranks : <<j, i>> \notin less
    <3> HIDE DEF less, ranks
    <3> QED
      BY <1>1, <2>1, WFMin
  <2>3. \A i, j \in Nat : <<j, i>> \notin less => i <= j
    OBVIOUS
  <2> HIDE DEF less, ranks
  <2> QED
    BY <1>1, <2>2, <2>3
<1>3. \E n \in S : \A k \in S : rank[n] <= rank[k]
  BY <1>2
<1>4. (CHOOSE n \in S : \A k \in S : rank[n] <= rank[k]) \in S
  BY <1>3, Zenon
<1> QED
  BY <1>4 DEF Least

LEMMA PlacesAreNumbers == Place \in [Names -> Nat]
<1>1. \A n \in Names : \E i \in DOMAIN Order : Order[i] = n
  BY DEF Names, ToSet
<1>2. \A n \in Names : (CHOOSE i \in DOMAIN Order : Order[i] = n) \in DOMAIN Order
  BY <1>1, Zenon
<1>3. DOMAIN Order \subseteq Nat
  BY NamesAssumption
<1> QED
  BY <1>2, <1>3 DEF Place

(* A name that is no type is looked up by name alone.                        *)
PlainNames == Names \ Types

Catalogs == [Names -> SUBSET Ids]

LEMMA PlainNamesLookUp ==
  ASSUME NEW cat, NEW p \in PlainNames, NEW id
  PROVE  /\ ResolveProviderSelector(cat, p, id) = ByName(cat, p, id)
         /\ ResolveProviderOwnedRawSelector(cat, p, id) = ByName(cat, p, id)
<1>1. {n \in Names : TypeOf[n] = p /\ id \in cat[n]} = {}
  BY DEF PlainNames, Types
<1>2. \A rank : ByType(cat, p, id, rank) = << >>
  BY <1>1 DEF ByType, Least
<1>3. ByName(cat, p, id) = << >> \/ ByName(cat, p, id) # << >>
  OBVIOUS
<1> QED
  BY <1>2, <1>3 DEF ResolveProviderSelector, ResolveProviderOwnedRawSelector, OrElse

(* A request for an id of such a provider is resolved to that provider: to    *)
(* the id, or to the whole model asked for when only that one is listed.      *)
LEMMA PlainNamesResolve ==
  ASSUME NEW cat, NEW p \in PlainNames, NEW id, NEW requested, Normalize(requested) = Selector(p, id)
  PROVE  ResolveModel(cat, requested) =
           IF ModelCount(cat) = {} THEN << >>
           ELSE IF id \notin cat[p] /\ requested.model \in cat[p] THEN <<Selector(p, requested.model)>>
           ELSE <<Selector(p, id)>>
<1>1. p \in Names /\ p # Blank
  BY NamesAreSegments DEF PlainNames
<1>2. Selector(p, id).provider = p /\ Selector(p, id).model = id
  BY DEF Selector
<1>3. RawModelID(cat, requested) = << >>
  BY <1>1, <1>2 DEF RawModelID, HasRegisteredProviderSelector
<1>4. ResolveQualifiedSelector(cat, requested, Selector(p, id)) =
        OrElse(ByName(cat, p, id), OrElse(ByName(cat, p, id), OrElse(ByName(cat, p, requested.model), << >>)))
  BY <1>2, <1>3, PlainNamesLookUp DEF ResolveQualifiedSelector
<1>5. \A x : <<x>> # << >>
  OBVIOUS
<1>6. \A x \in {id, requested.model} :
        ByName(cat, p, x) = IF x \in cat[p] THEN <<Selector(p, x)>> ELSE << >>
  BY <1>1 DEF ByName
<1>7. ResolveModel(cat, requested) =
        IF ModelCount(cat) = {} THEN << >>
        ELSE OrElse(ResolveQualifiedSelector(cat, requested, Selector(p, id)), <<Selector(p, id)>>)
  BY <1>1, <1>2 DEF ResolveModel
<1> QED
  BY <1>4, <1>5, <1>6, <1>7 DEF OrElse

(* The provider of a qualified name that is configured.                      *)
LEMMA NamedLookup ==
  ASSUME NEW cat, NEW p \in Names, NEW id \in Ids
  PROVE  Lookup(cat, QualifiedModel(Selector(p, id))) =
           IF cat[p] \cap {id, <<p>> \o id} # {} THEN <<p>> ELSE << >>
<1>1. p \in STRING /\ p # Blank
  BY NamesAreSegments
<1>2. QualifiedModel(Selector(p, id)) = <<p>> \o id
  BY <1>1 DEF QualifiedModel, Selector
<1>3. Len(<<p>> \o id) > 1 /\ Head(<<p>> \o id) = p /\ Tail(<<p>> \o id) = id
  BY <1>1, QualifiedComesApart
<1>4. <<p>> # << >> /\ <<p>>[1] = p
  OBVIOUS
<1>5. Lookup(cat, <<p>> \o id) = IF cat[p] \cap {id, <<p>> \o id} # {} THEN <<p>> ELSE << >>
  BY <1>3, <1>4 DEF Lookup
<1> QED
  BY <1>2, <1>5

(* A selector handed on as one name is parsed to what it was.                *)
LEMMA QualifiedIsParsed ==
  ASSUME NEW p \in Names, NEW id \in Ids
  PROVE  LET requested == NewRequestedModelSelector(QualifiedModel(Selector(p, id)), Blank)
         IN  /\ requested.model = <<p>> \o id
             /\ Normalize(requested) = Selector(p, id)
<1>1. p \in STRING /\ p # Blank
  BY NamesAreSegments
<1>2. QualifiedModel(Selector(p, id)) = <<p>> \o id
  BY <1>1 DEF QualifiedModel, Selector
<1>3. Len(<<p>> \o id) > 1 /\ Head(<<p>> \o id) = p /\ Tail(<<p>> \o id) = id
  BY <1>1, QualifiedComesApart
<1>4. ParseModelSelector(<<p>> \o id, Blank) = Selector(p, id)
  BY <1>3 DEF ParseModelSelector
<1> QED
  BY <1>2, <1>4 DEF Normalize, NewRequestedModelSelector

LEMMA WholeNamesResolve ==
  ASSUME NEW cat, NEW p \in PlainNames, NEW id \in Ids
  PROVE  ResolveModel(cat, NewRequestedModelSelector(QualifiedModel(Selector(p, id)), Blank)) =
           IF ModelCount(cat) = {} THEN << >>
           ELSE IF id \notin cat[p] /\ <<p>> \o id \in cat[p] THEN <<Selector(p, <<p>> \o id)>>
           ELSE <<Selector(p, id)>>
<1> DEFINE requested == NewRequestedModelSelector(QualifiedModel(Selector(p, id)), Blank)
<1>1. requested.model = <<p>> \o id
  BY QualifiedIsParsed DEF PlainNames
<1>2. Normalize(requested) = Selector(p, id)
  BY QualifiedIsParsed DEF PlainNames
<1> HIDE DEF requested
<1>3. ResolveModel(cat, requested) =
        IF ModelCount(cat) = {} THEN << >>
        ELSE IF id \notin cat[p] /\ requested.model \in cat[p] THEN <<Selector(p, requested.model)>>
        ELSE <<Selector(p, id)>>
  BY <1>2, PlainNamesResolve
<1> QED
  BY <1>1, <1>3 DEF requested

(* A selector of a plain provider that lists the id, with or without the     *)
(* provider's name in front of it, is routed to that provider, which then    *)
(* serves it.                                                                *)
LEMMA ListedIsRouted ==
  ASSUME NEW cat, NEW p \in PlainNames, NEW listed \in Ids, listed \in cat[p],
         NEW selector \in {Selector(p, listed), Selector(p, <<p>> \o listed)}
  PROVE  \E id \in Ids : /\ ResolveModel(cat, ApplyResolvedSelector(selector)) = <<Selector(p, id)>>
                         /\ listed \in {id, <<p>> \o id}
<1> DEFINE requested == ApplyResolvedSelector(selector)
<1>1. p \in Names /\ p \in STRING /\ p # Blank /\ ModelCount(cat) # {}
  BY NamesAreSegments DEF PlainNames, ModelCount
<1>2. requested.model = selector.model /\ Normalize(requested) = ParseModelSelector(selector.model, p)
  BY DEF ApplyResolvedSelector, NewRequestedModelSelector, Normalize, Selector
<1>3. ASSUME NEW id, Normalize(requested) = Selector(p, id)
      PROVE  ResolveModel(cat, requested) =
               IF id \notin cat[p] /\ requested.model \in cat[p] THEN <<Selector(p, requested.model)>>
               ELSE <<Selector(p, id)>>
  <2> HIDE DEF requested
  <2> QED
    BY <1>1, <1>3, PlainNamesResolve
<1>4. CASE selector = Selector(p, <<p>> \o listed)
  <2>1. selector.model = <<p>> \o listed
    BY <1>4 DEF Selector
  <2>2. Normalize(requested) = Selector(p, listed)
    BY <1>1, <1>2, <2>1, QualifiedComesApart DEF ParseModelSelector
  <2> HIDE DEF requested
  <2>3. ResolveModel(cat, requested) = <<Selector(p, listed)>>
    BY <1>3, <2>2
  <2> QED
    BY <2>3 DEF requested
<1>5. CASE selector = Selector(p, listed) /\ Len(listed) > 1 /\ Head(listed) = p
  <2>1. requested.model = listed /\ Normalize(requested) = Selector(p, Tail(listed))
    BY <1>1, <1>2, <1>5 DEF ParseModelSelector, Selector
  <2>2. Tail(listed) \in Ids /\ listed = <<p>> \o Tail(listed)
    BY <1>5, IdsComeApart
  <2> HIDE DEF requested
  <2>3. ResolveModel(cat, requested) \in {<<Selector(p, listed)>>, <<Selector(p, Tail(listed))>>}
    BY <1>3, <2>1
  <2> QED
    BY <2>2, <2>3 DEF requested
<1>6. CASE selector = Selector(p, listed) /\ ~ (Len(listed) > 1 /\ Head(listed) = p)
  <2>1. Normalize(requested) = Selector(p, listed)
    BY <1>1, <1>2, <1>6 DEF ParseModelSelector, Selector
  <2> HIDE DEF requested
  <2>2. ResolveModel(cat, requested) = <<Selector(p, listed)>>
    BY <1>2, <1>3, <1>6, <2>1 DEF Selector
  <2> QED
    BY <2>2 DEF requested
<1> QED
  BY <1>4, <1>5, <1>6

-----------------------------------------------------------------------------
(* What resolving returns.                                                   *)

Maybe(S) == {<< >>} \cup {<<x>> : x \in S}
AnySelectors == [provider : STRING \cup {Blank}, model : Ids]

(* Every lookup finds a selector with a configured provider, or nothing.     *)
LEMMA LookupsFindSelectors ==
  ASSUME NEW cat, NEW segment, NEW id \in Ids
  PROVE  /\ ResolveProviderSelector(cat, segment, id) \in Maybe(AnySelectors)
         /\ ResolveProviderOwnedRawSelector(cat, segment, id) \in Maybe(AnySelectors)
<1>1. \A n \in Names : <<Selector(n, id)>> \in Maybe(AnySelectors)
  BY NamesAreSegments DEF Maybe, AnySelectors, Selector
<1>2. << >> \in Maybe(AnySelectors)
  BY DEF Maybe
<1>3. ByName(cat, segment, id) \in Maybe(AnySelectors)
  BY <1>1, <1>2 DEF ByName
<1>4. ASSUME NEW rank \in [Names -> Nat] PROVE ByType(cat, segment, id, rank) \in Maybe(AnySelectors)
  <2> DEFINE S == {n \in Names : TypeOf[n] = segment /\ id \in cat[n]}
  <2>1. Least(S, rank) = << >> \/ \E n \in Names : Least(S, rank) = <<n>>
    BY LeastIsOne
  <2>2. ByType(cat, segment, id, rank) =
          IF Least(S, rank) = << >> THEN << >> ELSE <<Selector(Least(S, rank)[1], id)>>
    BY DEF ByType
  <2> QED
    BY <1>1, <1>2, <2>1, <2>2
<1> QED
  BY <1>3, <1>4, NamesAreSegments DEF ResolveProviderSelector, ResolveProviderOwnedRawSelector, OrElse

LEMMA ResolvedIsASelector ==
  ASSUME NEW cat, NEW model \in Ids, NEW hint \in STRING \cup {Blank}
  PROVE  ResolveModel(cat, NewRequestedModelSelector(model, hint)) \in Maybe(AnySelectors)
<1> DEFINE requested == NewRequestedModelSelector(model, hint)
           selector == Normalize(requested)
<1>1. requested.model = model /\ selector = ParseModelSelector(model, hint)
  BY DEF NewRequestedModelSelector, Normalize
<1>2. selector \in AnySelectors /\ <<selector>> \in Maybe(AnySelectors) /\ selector.model \in Ids
  <2>1. selector \in AnySelectors /\ selector.model \in Ids
    BY <1>1, ParsedIsASelector DEF AnySelectors, Selector
  <2> QED
    BY <2>1 DEF Maybe
<1>3. << >> \in Maybe(AnySelectors)
  BY DEF Maybe
<1>4. \A n \in Names, id \in Ids : <<Selector(n, id)>> \in Maybe(AnySelectors)
  BY NamesAreSegments DEF Maybe, AnySelectors, Selector
<1>5. RawModelID(cat, requested) \in Maybe(AnySelectors)
  <2> DEFINE owner == Least({n \in Names : requested.model \in cat[n]}, SelectorRank)
  <2>1. owner = << >> \/ \E n \in Names : owner = <<n>>
    BY LeastIsOne, NamesAreSegments
  <2>2. \/ RawModelID(cat, requested) = << >>
        \/ owner # << >> /\ RawModelID(cat, requested) = <<Selector(owner[1], requested.model)>>
    BY DEF RawModelID
  <2> QED
    BY <1>1, <1>3, <1>4, <2>1, <2>2
<1>6. ResolveUnqualifiedSelector(cat, selector) \in Maybe(AnySelectors)
  <2> DEFINE owner == Lookup(cat, selector.model)
  <2>1. owner = << >> \/ \E n \in Names : owner = <<n>>
    <3>1. Least({n \in Names : selector.model \in cat[n]}, Place) = << >>
          \/ \E n \in Names : Least({n2 \in Names : selector.model \in cat[n2]}, Place) = <<n>>
      BY LeastIsOne, PlacesAreNumbers
    <3>2. <<Head(selector.model)>>[1] = Head(selector.model) /\ <<Head(selector.model)>> # << >>
      OBVIOUS
    <3> QED
      BY <3>1, <3>2 DEF Lookup
  <2>2. ResolveUnqualifiedSelector(cat, selector) =
          IF owner = << >> THEN << >> ELSE <<Selector(owner[1], selector.model)>>
    BY DEF ResolveUnqualifiedSelector
  <2> QED
    BY <1>2, <1>3, <1>4, <2>1, <2>2
<1>7. ResolveQualifiedSelector(cat, requested, selector) \in Maybe(AnySelectors)
  <2>1. /\ ResolveProviderSelector(cat, selector.provider, selector.model) \in Maybe(AnySelectors)
        /\ ResolveProviderOwnedRawSelector(cat, selector.provider, selector.model) \in Maybe(AnySelectors)
        /\ ResolveProviderOwnedRawSelector(cat, selector.provider, requested.model) \in Maybe(AnySelectors)
    BY <1>1, <1>2, LookupsFindSelectors
  <2> HIDE DEF requested, selector
  <2> QED
    BY <1>5, <2>1 DEF ResolveQualifiedSelector, OrElse
<1> QED
  <2> HIDE DEF requested, selector
  <2>1. ResolveModel(cat, requested) =
          IF ModelCount(cat) = {} THEN << >>
          ELSE OrElse(IF selector.provider = Blank THEN ResolveUnqualifiedSelector(cat, selector)
                      ELSE ResolveQualifiedSelector(cat, requested, selector), <<selector>>)
    BY DEF ResolveModel, selector
  <2> QED
    BY <1>2, <1>3, <1>6, <1>7, <2>1 DEF requested, OrElse

-----------------------------------------------------------------------------
(* Names of plain providers.                                                 *)

(* What is known of a qualified name of a plain provider is its own.         *)
LEMMA PlainNamesAreOwn ==
  ASSUME NEW cat, NEW p \in PlainNames, NEW id \in Ids
  PROVE  LET q == QualifiedModel(Selector(p, id))
         IN  /\ GetProviderName(cat, q) \in {p, Blank}
             /\ GetProviderType(cat, q) \in {TypeOf[p], Blank}
             /\ id \in cat[p] => Supports(cat, q)
<1> DEFINE whole == <<p>> \o id
           q == QualifiedModel(Selector(p, id))
           requested == NewRequestedModelSelector(q, Blank)
           found == ResolveModel(cat, requested)
<1>1. p \in Names /\ p \in STRING /\ p # Blank /\ whole \in Ids
  BY NamesAreSegments, QualifiedComesApart DEF PlainNames
<1>3. found = IF ModelCount(cat) = {} THEN << >>
              ELSE IF id \notin cat[p] /\ whole \in cat[p] THEN <<Selector(p, whole)>>
              ELSE <<Selector(p, id)>>
  BY WholeNamesResolve
<1>4. found = << >> \/ \E x \in {id, whole} : found = <<Selector(p, x)>>
  BY <1>3
<1>5. \A x \in {id, whole} : /\ Lookup(cat, QualifiedModel(Selector(p, x))) \in {<< >>, <<p>>}
                             /\ Selector(p, x).provider = p
  BY <1>1, NamedLookup DEF Selector
<1>6. Found(cat, q) \in {<< >>, <<p>>} /\ (found # << >> => found[1].provider = p)
  <2> HIDE DEF whole
  <2> QED
    BY <1>4, <1>5 DEF Found
<1>7. GetProviderType(cat, q) \in {TypeOf[p], Blank}
  BY <1>6 DEF GetProviderType, Supports
<1>8. GetProviderName(cat, q) \in {p, Blank}
  <2>1. Found(cat, q) # << >> => found # << >>
    BY DEF Found
  <2> QED
    BY <1>1, <1>6, <2>1 DEF GetProviderName, Supports
<1>9. id \in cat[p] => Supports(cat, q)
  <2> SUFFICES ASSUME id \in cat[p] PROVE Supports(cat, q)
    OBVIOUS
  <2>1. ModelCount(cat) # {}
    BY <1>1 DEF ModelCount
  <2>2. found = <<Selector(p, id)>>
    BY <1>3, <2>1
  <2>3. Lookup(cat, QualifiedModel(Selector(p, id))) = <<p>>
    BY <1>1, NamedLookup
  <2>4. Found(cat, q) = <<p>>
    BY <2>2, <2>3 DEF Found
  <2> QED
    BY <2>4 DEF Supports
<1> QED
  BY <1>7, <1>8, <1>9

-----------------------------------------------------------------------------
(* Bodies.                                                                   *)

Sound(body) ==
  /\ body \in Seq(Fields)
  /\ \A i, k \in DOMAIN body : body[i].key = body[k].key => i = k

OfTheBody(body) == Envelope(Decoded(body, "model"), Decoded(body, "provider"))

(* The only field of a name is the last and the first one.                   *)
LEMMA OnlyPlace ==
  ASSUME NEW i \in Nat PROVE Latest({i}) = i /\ Earliest({i}) = i
  BY DEF Latest, Earliest

LEMMA ValueOfField ==
  ASSUME NEW body, Sound(body), NEW key, NEW n \in 0 .. Len(body)
  PROVE  /\ \A i \in 1 .. n : body[i].key = key =>
              /\ Places(body, key, n) = {i}
              /\ LastValue(body, key, n) = body[i].value
         /\ (\A i \in 1 .. n : body[i].key # key) => LastValue(body, key, n) = Null
         /\ LastValue(body, key, n) \in Segments
<1>1. Len(body) \in Nat /\ DOMAIN body = 1 .. Len(body) /\ \A i \in 1 .. Len(body) : body[i] \in Fields
  BY DEF Sound
<1>2. ASSUME NEW i \in 1 .. n, body[i].key = key
      PROVE  Places(body, key, n) = {i} /\ LastValue(body, key, n) = body[i].value
  <2>1. Places(body, key, n) = {i}
    BY <1>1, <1>2 DEF Places, Sound
  <2> QED
    BY <1>1, <2>1, OnlyPlace DEF LastValue
<1>3. (\A i \in 1 .. n : body[i].key # key) => LastValue(body, key, n) = Null
  BY DEF LastValue, Places
<1>4. Null \in Segments /\ \A i \in 1 .. n : body[i].value \in Segments
  BY <1>1 DEF Fields, Null, Segments
<1> QED
  BY <1>2, <1>3, <1>4

(* The first of some places is one of them.                                  *)
LEMMA EarliestIsOne ==
  ASSUME NEW places \in SUBSET Nat, places # {} PROVE Earliest(places) \in places
<1>1. \E i \in places : \A k \in places : i <= k
  <2> DEFINE less == {pair \in Nat \X Nat : pair[1] < pair[2]}
  <2>1. IsWellFoundedOn(less, Nat)
    BY NatLessThanWellFounded DEF OpToRel
  <2>2. \E i \in places : \A k \in places : <<k, i>> \notin less
    <3> HIDE DEF less
    <3> QED
      BY <2>1, WFMin
  <2>3. \A i, k \in Nat : <<k, i>> \notin less => i <= k
    OBVIOUS
  <2> HIDE DEF less
  <2> QED
    BY <2>2, <2>3
<1> QED
  BY <1>1, Zenon DEF Earliest

(* A peek that decides anything has read what decoding the body will find.   *)
LEMMA PeekIsTrue ==
  ASSUME NEW body, Sound(body)
  PROVE  LET peeked == DecodeRequestBodySelectorHints(body)
         IN  peeked.parsed =>
               peeked.model = Decoded(body, "model") /\ peeked.provider = Decoded(body, "provider")
<1> DEFINE end == Earliest(Deciding(body))
           peeked == DecodeRequestBodySelectorHints(body)
<1>1. Len(body) \in Nat /\ DOMAIN body = 1 .. Len(body) /\ Len(body) \in 0 .. Len(body)
  BY DEF Sound
<1>2. CASE Deciding(body) = {}
  <2>1. peeked.model = Null /\ peeked.provider = Decoded(body, "provider")
    BY <1>2 DEF DecodeRequestBodySelectorHints, Peeked, Decoded
  <2>2. \A i \in 1 .. Len(body) : body[i].key = "model" => body[i].value = Null
    BY <1>1, <1>2 DEF Deciding
  <2>3. Decoded(body, "model") = Null
    <3>1. CASE \E i \in 1 .. Len(body) : body[i].key = "model"
      BY <1>1, <2>2, <3>1, ValueOfField DEF Decoded
    <3>2. CASE \A i \in 1 .. Len(body) : body[i].key # "model"
      BY <1>1, <3>2, ValueOfField DEF Decoded
    <3> QED
      BY <3>1, <3>2
  <2> QED
    BY <2>1, <2>3
<1>3. CASE Deciding(body) # {} /\ Unreadable(body[end])
  BY <1>3 DEF DecodeRequestBodySelectorHints, Peeked
<1>4. CASE Deciding(body) # {} /\ ~ Unreadable(body[end])
  <2>1. end \in Deciding(body)
    <3>1. Deciding(body) \in SUBSET Nat
      BY <1>1 DEF Deciding
    <3> QED
      BY <1>4, <3>1, EarliestIsOne
  <2>2. end \in 1 .. Len(body) /\ body[end].key = "model"
    BY <1>1, <1>4, <2>1 DEF Deciding
  <2>3. Decoded(body, "model") = body[end].value
    BY <1>1, <2>2, ValueOfField DEF Decoded
  <2>4. /\ peeked.model = body[end].value
        /\ peeked.provider = LastValue(body, "provider", end)
        /\ peeked.parsed = (LastValue(body, "provider", end) # Null)
    BY <1>4 DEF DecodeRequestBodySelectorHints, Peeked
  <2>5. LastValue(body, "provider", end) # Null =>
          LastValue(body, "provider", end) = Decoded(body, "provider")
    <3>1. end \in 0 .. Len(body)
      BY <1>1, <2>2
    <3> SUFFICES ASSUME LastValue(body, "provider", end) # Null
                 PROVE  LastValue(body, "provider", end) = Decoded(body, "provider")
      OBVIOUS
    <3>2. PICK k \in 1 .. end : body[k].key = "provider"
      BY <3>1, ValueOfField
    <3>3. k \in 1 .. Len(body)
      BY <1>1, <2>2, <3>2
    <3> QED
      BY <1>1, <3>1, <3>2, <3>3, ValueOfField DEF Decoded
  <2> QED
    BY <2>3, <2>4, <2>5
<1> QED
  BY <1>2, <1>3, <1>4

(* So does an envelope that was derived, whatever the body was read for.     *)
LEMMA EnvelopesAreTrue ==
  ASSUME NEW body, Sound(body)
  PROVE  /\ DeriveWhiteBoxPrompt(body) \in {NoEnvelope, OfTheBody(body)}
         /\ SeedRequestBodySelectorHints(body) \in {NoEnvelope, OfTheBody(body)}
<1>1. Len(body) \in Nat /\ Len(body) \in 0 .. Len(body)
  BY DEF Sound
<1>2. ASSUME NEW key
      PROVE  Decoded(body, key) = IF Places(body, key, Len(body)) = {} THEN Null
                                  ELSE body[Earliest(Places(body, key, Len(body)))].value
  <2>1. CASE \E i \in 1 .. Len(body) : body[i].key = key
    <3>1. PICK i \in 1 .. Len(body) : body[i].key = key
      BY <2>1
    <3>2. Places(body, key, Len(body)) = {i} /\ Decoded(body, key) = body[i].value
      BY <1>1, <3>1, ValueOfField DEF Decoded
    <3>3. Earliest({i}) = i /\ {i} # {}
      BY <1>1, OnlyPlace
    <3> QED
      BY <3>2, <3>3
  <2>2. CASE \A i \in 1 .. Len(body) : body[i].key # key
    BY <1>1, <2>2, ValueOfField DEF Decoded, Places
  <2> QED
    BY <2>1, <2>2
<1>3. DeriveWhiteBoxPrompt(body) \in {NoEnvelope, OfTheBody(body)}
  <2>1. CASE Decodable(body)
    BY <1>2, <2>1 DEF DeriveWhiteBoxPrompt, OfTheBody
  <2>2. CASE ~ Decodable(body)
    BY <2>2 DEF DeriveWhiteBoxPrompt
  <2> QED
    BY <2>1, <2>2
<1>4. SeedRequestBodySelectorHints(body) \in {NoEnvelope, OfTheBody(body)}
  BY PeekIsTrue DEF SeedRequestBodySelectorHints, OfTheBody
<1> QED
  BY <1>3, <1>4

LEMMA HintsAreTrue ==
  ASSUME NEW body, Sound(body), NEW env \in {NoEnvelope, OfTheBody(body)}
  PROVE  LET hints == SelectorHintsForValidation(body, env)
         IN  /\ hints.model = Decoded(body, "model") /\ hints.model \in Segments
             /\ hints.provider = Decoded(body, "provider")
             /\ AsHint(hints.provider) \in STRING \cup {Blank}
<1> DEFINE hints == SelectorHintsForValidation(body, env)
<1>1. hints.model = Decoded(body, "model") /\ hints.provider = Decoded(body, "provider")
  BY PeekIsTrue DEF SelectorHintsForValidation, OfTheBody, Envelope, NoEnvelope
<1>2. Decoded(body, "model") \in Segments /\ Decoded(body, "provider") \in Segments
  <2>1. Len(body) \in 0 .. Len(body)
    BY DEF Sound
  <2> QED
    BY <2>1, ValueOfField DEF Decoded
<1>3. \A value \in Segments : value # Null => value[1] \in STRING
  BY DEF Segments, Null
<1> QED
  BY <1>1, <1>2, <1>3 DEF AsHint

-----------------------------------------------------------------------------
(* The request.                                                              *)

RequestFields ==
  {"kind", "model", "hint", "pc", "refreshed", "rerouted", "selector", "name", "type", "route",
   "target", "body", "env", "asked", "usage", "failure", "deniedBefore", "steady"}

Kinds == {"json", "stream", "internal", "service", "passthrough"}
Reading == {"idle", "body", "rewrite", "workflow"}
Asks == ParseModelSelector(request.model, request.hint)
Redirected == request.hint = Blank /\ request.model \in DOMAIN Redirects

(* What has been read and resolved so far has the right shape, and nothing   *)
(* is known of a request before its body was read.                           *)
WellFormed ==
  /\ upstream \in Catalogs /\ catalog \in Catalogs
  /\ DOMAIN request = RequestFields
  /\ request.kind \in Kinds /\ request.hint \in STRING \cup {Blank}
  /\ request.selector \in Maybe(AnySelectors)
  /\ request.deniedBefore \subseteq denied
  /\ request.pc \in Reading =>
       /\ request.kind # "passthrough" /\ request.selector = << >>
       /\ request.asked = << >> /\ request.steady = {}
  /\ request.pc \notin Reading \cup {"end"} => request.model \in Ids
  /\ request.target # << >> => request.pc \in {"access", "call", "end"}
  /\ request.usage # << >> => request.pc = "end"
  /\ request.failure # Blank => request.pc = "end"

(* A body was given by a client or a rewriter, and what was derived from it  *)
(* is true of it.                                                            *)
BodiesAreRead ==
  /\ request.pc \in {"body", "rewrite", "workflow"} => request.body \in Bodies \cup Rewritten
  /\ request.pc \in {"rewrite", "workflow"} => request.env \in {NoEnvelope, OfTheBody(request.body)}

(* Which steps a passthrough takes; all others resolve, and past the check   *)
(* they go on with a selector that was allowed after they arrived.           *)
StepsAllowed ==
  IF request.kind = "passthrough"
  THEN /\ request.pc \in {"passthrough", "access", "call", "end"}
       /\ request.target # << >> /\ request.hint \in Names => request.target[1].provider = request.hint
  ELSE /\ request.pc \notin {"passthrough", "access"}
       /\ request.pc \in {"check", "label", "prepare", "route", "reroute", "find", "call"} =>
            request.selector # << >>
       /\ \/ request.pc \in {"route", "reroute", "find", "call"}
          \/ request.pc = "label" /\ request.kind \notin {"json", "stream"}
          \/ request.target # << >>
          => request.selector # << >> /\ request.selector[1] \notin request.deniedBefore
       /\ request.pc = "call" => request.target # << >>

(* A selector that is not read twice is routed, called and labelled as it    *)
(* was resolved.                                                             *)
RoutedAsResolved ==
  request.kind # "passthrough" /\ request.selector # << >> /\ ~ReadTwice(request.selector[1]) =>
    /\ request.pc \in {"find", "call"} => request.route = request.selector
    /\ request.target # << >> => request.target = request.selector
    /\ request.pc \in {"prepare", "route", "reroute", "find", "call"} =>
         /\ request.name \in {request.selector[1].provider, Blank}
         /\ request.type \in {TypeOf[request.selector[1].provider], Blank}

(* What the provider named has listed all the time it is found by, at the    *)
(* latest after a refresh; before, its whole name may have been taken for an *)
(* id.                                                                       *)
SteadyBy(n) ==
  /\ n \in Names /\ n = Asks.provider /\ ~Redirected /\ Asks.model \in upstream[n]
  /\ n \notin Types /\ request.kind # "passthrough" =>
       /\ request.refreshed \/ request.rerouted => Asks.model \in catalog[n]
       /\ request.selector # << >> =>
            request.selector[1] \in {Selector(n, Asks.model), Selector(n, <<n>> \o Asks.model)}
       /\ request.refreshed /\ request.pc = "check" => request.selector = <<Selector(n, Asks.model)>>
       /\ request.rerouted /\ request.pc = "find" =>
            \E id \in Ids : request.route = <<Selector(n, id)>> /\ Asks.model \in {id, <<n>> \o id}

SteadyIsFound == \A n \in request.steady : SteadyBy(n)

RequestsIInv ==
  /\ WellFormed /\ BodiesAreRead /\ StepsAllowed /\ RoutedAsResolved /\ SteadyIsFound
  /\ CallsWhatItResolved /\ UsageNamesTheProvider /\ ListedModelsAreFound
  /\ PeekedSelectorIsTheBodys

Properties == CallsWhatItResolved /\ UsageNamesTheProvider /\ ListedModelsAreFound /\ PeekedSelectorIsTheBodys

(* Nothing is wrong with a request that has just arrived.                    *)
LEMMA NewRequestKeeps ==
  ASSUME RequestsIInv, NEW kind \in Kinds, NEW model \in Ids, NEW hint \in STRING \cup {Blank},
         NEW asked \in {<< >>, <<model, hint>>},
         request' = [NewRequest(kind, model, hint) EXCEPT !.asked = asked],
         UNCHANGED Environment
  PROVE  RequestsIInv'
<1> DEFINE P == ParseModelSelector(model, hint).provider
           M == ParseModelSelector(model, hint).model
<1>1. upstream' = upstream /\ catalog' = catalog /\ denied' = denied
      /\ upstream \in Catalogs /\ catalog \in Catalogs
  BY DEF Environment, RequestsIInv, WellFormed
<1>2. /\ DOMAIN request' = RequestFields
      /\ request'.kind = kind /\ request'.model = model /\ request'.hint = hint
      /\ request'.pc = (IF kind = "passthrough" THEN "passthrough" ELSE "resolve")
      /\ request'.refreshed = FALSE /\ request'.rerouted = FALSE
      /\ request'.selector = << >> /\ request'.target = << >> /\ request'.asked = asked
      /\ request'.usage = << >> /\ request'.failure = Blank /\ request'.deniedBefore = denied
      /\ request'.steady = (IF hint = Blank /\ model \in DOMAIN Redirects THEN {}
                            ELSE {n \in {P} \cap Names : M \in upstream[n]})
  BY DEF NewRequest, RequestFields
<1>3. << >> \in Maybe(AnySelectors)
  BY DEF Maybe
<1>4. WellFormed'
  BY <1>1, <1>2, <1>3 DEF WellFormed, Reading, Kinds
<1>5. BodiesAreRead' /\ StepsAllowed' /\ RoutedAsResolved'
  BY <1>2 DEF BodiesAreRead, StepsAllowed, RoutedAsResolved
<1>6. SteadyIsFound'
  BY <1>1, <1>2 DEF SteadyIsFound, SteadyBy, Asks, Redirected
<1>7. Blank # "not_found"
  BY DEF Blank
<1>8. Properties'
  BY <1>2, <1>7 DEF Properties, CallsWhatItResolved, UsageNamesTheProvider, ListedModelsAreFound,
                    PeekedSelectorIsTheBodys
<1> QED
  BY <1>4, <1>5, <1>6, <1>8 DEF RequestsIInv, Properties

LEMMA RequestsBegin == Init => RequestsIInv
<1> SUFFICES ASSUME Init PROVE RequestsIInv
  OBVIOUS
<1>1. upstream \in Catalogs /\ catalog \in Catalogs
  BY RequestsAssumption DEF Init, Catalogs
<1>2. ParseModelSelector(<< >>, Blank).provider = Blank
  BY DEF ParseModelSelector, Selector
<1>3. request = [NewRequest("json", << >>, Blank) EXCEPT !.pc = "idle"]
  BY DEF Init
<1>4. /\ DOMAIN request = RequestFields
      /\ request.kind = "json" /\ request.pc = "idle" /\ request.hint = Blank
      /\ request.selector = << >> /\ request.target = << >> /\ request.asked = << >>
      /\ request.usage = << >> /\ request.failure = Blank /\ request.deniedBefore = denied
      /\ request.steady = {}
  BY <1>2, <1>3, NamesAreSegments DEF NewRequest, RequestFields
<1>5. << >> \in Maybe(AnySelectors) /\ Blank # "not_found"
  BY DEF Maybe, Blank
<1>6. WellFormed
  BY <1>1, <1>4, <1>5 DEF WellFormed, Reading, Kinds
<1>7. BodiesAreRead /\ StepsAllowed /\ RoutedAsResolved /\ SteadyIsFound
  BY <1>4 DEF BodiesAreRead, StepsAllowed, RoutedAsResolved, SteadyIsFound
<1>8. Properties
  BY <1>4, <1>5 DEF Properties, CallsWhatItResolved, UsageNamesTheProvider, ListedModelsAreFound,
                    PeekedSelectorIsTheBodys
<1> QED
  BY <1>6, <1>7, <1>8 DEF RequestsIInv, Properties

(* Reading the body changes nothing else.                                    *)
LEMMA ReadingKeeps ==
  ASSUME RequestsIInv, request.pc \in Reading, UNCHANGED Environment,
         DOMAIN request' = RequestFields, BodiesAreRead',
         request'.kind = request.kind, request'.hint = request.hint,
         request'.selector = request.selector, request'.target = request.target,
         request'.asked = request.asked, request'.usage = request.usage,
         request'.deniedBefore = request.deniedBefore, request'.steady = request.steady,
         \/ request'.pc \in Reading /\ request'.failure = request.failure
         \/ request'.pc = "end" /\ request'.failure \in {"rejected", "invalid"}
  PROVE  RequestsIInv'
<1>1. /\ request.kind # "passthrough" /\ request.selector = << >> /\ request.target = << >>
      /\ request.asked = << >> /\ request.usage = << >> /\ request.steady = {}
      /\ request.failure = Blank /\ request'.failure # "not_found"
  BY DEF RequestsIInv, WellFormed, Reading, Blank
<1>2. WellFormed'
  BY <1>1 DEF RequestsIInv, WellFormed, Reading, Environment
<1>3. StepsAllowed' /\ RoutedAsResolved' /\ SteadyIsFound'
  BY <1>1 DEF StepsAllowed, RoutedAsResolved, SteadyIsFound, Reading
<1>4. Properties'
  BY <1>1 DEF Properties, CallsWhatItResolved, UsageNamesTheProvider, ListedModelsAreFound,
              PeekedSelectorIsTheBodys
<1> QED
  BY <1>2, <1>3, <1>4 DEF RequestsIInv, Properties

(* The bodies of clients and of rewriters repeat no field.                   *)
LEMMA BodiesAreSound ==
  \A body \in Bodies \cup Rewritten : Sound(body)
  BY RequestsAssumption DEF Sound

LEMMA ArriveTranslatedKeeps ==
  ASSUME RequestsIInv, ArriveTranslated PROVE RequestsIInv'
<1>1. DOMAIN request = RequestFields /\ request.pc = "idle" /\ UNCHANGED Environment
  BY DEF RequestsIInv, WellFormed, ArriveTranslated
<1>2. PICK body \in Bodies : request' = [Goes("body") EXCEPT !.body = body]
  BY DEF ArriveTranslated
<1>3. request'.pc = "body" /\ request'.body = body
  BY <1>1, <1>2 DEF Goes, RequestFields
<1>4. BodiesAreRead'
  BY <1>3 DEF BodiesAreRead
<1> QED
  BY <1>1, <1>2, <1>3, <1>4, ReadingKeeps DEF Goes, RequestFields, Reading

LEMMA CaptureSnapshotKeeps ==
  ASSUME RequestsIInv, CaptureSnapshot PROVE RequestsIInv'
<1>1. /\ DOMAIN request = RequestFields /\ request.pc = "body" /\ UNCHANGED Environment
      /\ request.body \in Bodies \cup Rewritten
  BY DEF RequestsIInv, WellFormed, BodiesAreRead, CaptureSnapshot
<1>2. PICK env \in {DeriveWhiteBoxPrompt(request.body), SeedRequestBodySelectorHints(request.body)} :
        request' = [Goes("rewrite") EXCEPT !.env = env]
  BY DEF CaptureSnapshot
<1>3. request'.pc = "rewrite" /\ request'.body = request.body /\ request'.env = env
  BY <1>1, <1>2 DEF Goes, RequestFields
<1>4. BodiesAreRead'
  BY <1>1, <1>3, BodiesAreSound, EnvelopesAreTrue DEF BodiesAreRead
<1> QED
  BY <1>1, <1>2, <1>3, <1>4, ReadingKeeps DEF Goes, RequestFields, Reading

LEMMA RewriteKeeps ==
  ASSUME RequestsIInv, NotRewritten \/ Rewrite PROVE RequestsIInv'
<1>1. /\ DOMAIN request = RequestFields /\ request.pc = "rewrite" /\ UNCHANGED Environment
      /\ request.body \in Bodies \cup Rewritten
      /\ request.env \in {NoEnvelope, OfTheBody(request.body)}
  BY DEF RequestsIInv, WellFormed, BodiesAreRead, NotRewritten, Rewrite
<1>2. CASE NotRewritten
  <2>1. request' = Goes("workflow")
    BY <1>2 DEF NotRewritten
  <2>2. request'.pc = "workflow" /\ request'.body = request.body /\ request'.env = request.env
    BY <1>1, <2>1 DEF Goes, RequestFields
  <2>3. BodiesAreRead'
    BY <1>1, <2>2 DEF BodiesAreRead
  <2> QED
    BY <1>1, <2>1, <2>2, <2>3, ReadingKeeps DEF Goes, RequestFields, Reading
<1>3. ASSUME NEW body \in Rewritten \cup {request.body},
             request' = [Goes("workflow") EXCEPT !.body = body, !.env = StoreRequestBodySnapshot(body)]
      PROVE  RequestsIInv'
  <2>1. request'.pc = "workflow" /\ request'.body = body /\ request'.env = DeriveWhiteBoxPrompt(body)
    BY <1>1, <1>3 DEF Goes, RequestFields, StoreRequestBodySnapshot
  <2>2. BodiesAreRead'
    BY <1>1, <2>1, BodiesAreSound, EnvelopesAreTrue DEF BodiesAreRead
  <2> QED
    BY <1>1, <1>3, <2>1, <2>2, ReadingKeeps DEF Goes, RequestFields, Reading
<1>4. CASE request' = [Failed("rejected") EXCEPT !.body = << >>, !.env = NoEnvelope]
  <2>1. request'.pc = "end" /\ request'.failure = "rejected"
    BY <1>1, <1>4 DEF Failed, RequestFields
  <2>2. BodiesAreRead'
    BY <2>1 DEF BodiesAreRead
  <2> QED
    BY <1>1, <1>4, <2>1, <2>2, ReadingKeeps DEF Failed, RequestFields, Reading
<1> QED
  BY <1>2, <1>3, <1>4 DEF Rewrite

LEMMA DeriveWorkflowKeeps ==
  ASSUME RequestsIInv, DeriveWorkflow PROVE RequestsIInv'
<1> DEFINE hints == SelectorHintsForValidation(request.body, request.env)
           asked == <<Decoded(request.body, "model"), AsHint(Decoded(request.body, "provider"))>>
<1>1. /\ DOMAIN request = RequestFields /\ request.pc = "workflow" /\ UNCHANGED Environment
      /\ request.body \in Bodies \cup Rewritten
      /\ request.env \in {NoEnvelope, OfTheBody(request.body)}
  BY DEF RequestsIInv, WellFormed, BodiesAreRead, DeriveWorkflow
<1>2. /\ hints.model = Decoded(request.body, "model") /\ hints.model \in Segments
      /\ AsHint(hints.provider) \in STRING \cup {Blank}
      /\ asked = <<hints.model, AsHint(hints.provider)>>
  BY <1>1, BodiesAreSound, HintsAreTrue
<1>3. ASSUME hints.model # Null, NEW kind \in {"json", "stream"},
             request' = [NewRequest(kind, hints.model, AsHint(hints.provider)) EXCEPT !.asked = asked]
      PROVE  RequestsIInv'
  <2>1. hints.model \in Ids
    BY <1>2, <1>3 DEF Ids, Null
  <2> HIDE DEF hints
  <2> QED
    BY <1>1, <1>2, <1>3, <2>1, NewRequestKeeps DEF Kinds
<1>4. CASE request' = [Failed("invalid") EXCEPT !.body = << >>, !.env = NoEnvelope]
  <2>1. request'.pc = "end" /\ request'.failure = "invalid"
    BY <1>1, <1>4 DEF Failed, RequestFields
  <2>2. BodiesAreRead'
    BY <2>1 DEF BodiesAreRead
  <2> QED
    BY <1>1, <1>4, <2>1, <2>2, ReadingKeeps DEF Failed, RequestFields, Reading
<1> QED
  BY <1>3, <1>4 DEF DeriveWorkflow

LEMMA ArrivalsKeep ==
  ASSUME RequestsIInv, ArriveInternal \/ ArriveService \/ ArrivePassthrough PROVE RequestsIInv'
<1>1. PICK kind \in {"internal", "service", "passthrough"}, model \in Models, hint \in Hints :
        request' = NewRequest(kind, model, hint)
  BY DEF ArriveInternal, ArriveService, ArrivePassthrough
<1>2. UNCHANGED Environment /\ model \in Ids /\ hint \in STRING \cup {Blank}
  BY RequestsAssumption DEF ArriveInternal, ArriveService, ArrivePassthrough
<1>3. request' = [NewRequest(kind, model, hint) EXCEPT !.asked = << >>]
  BY <1>1 DEF NewRequest
<1> QED
  BY <1>2, <1>3, NewRequestKeeps DEF Kinds

-----------------------------------------------------------------------------
(* Past the body.                                                            *)

Resolving == {"resolve", "refresh", "check", "label", "prepare", "route", "reroute", "find", "call"}
Later == Resolving \cup {"passthrough", "access"}

(* What a step of the request leaves alone, and what remains to be shown.    *)
LEMMA StepKeeps ==
  ASSUME RequestsIInv, request.pc \in Later,
         upstream' = upstream, catalog' \in Catalogs, denied' = denied,
         DOMAIN request' = RequestFields,
         request'.kind = request.kind, request'.model = request.model, request'.hint = request.hint,
         request'.asked = request.asked, request'.deniedBefore = request.deniedBefore,
         request'.steady = request.steady,
         request'.selector \in Maybe(AnySelectors),
         request'.pc \in Later \cup {"end"},
         request'.target # << >> => request'.pc \in {"access", "call", "end"},
         request'.usage # << >> => request'.pc = "end",
         request'.failure # Blank => request'.pc = "end",
         request'.failure = "not_found" => request.steady \subseteq Types,
         StepsAllowed', RoutedAsResolved', SteadyIsFound', UsageNamesTheProvider'
  PROVE  RequestsIInv'
<1>1. WellFormed'
  BY DEF RequestsIInv, WellFormed, Later, Resolving, Reading
<1>2. BodiesAreRead'
  BY DEF BodiesAreRead, Later, Resolving
<1>3. CallsWhatItResolved'
  <2>1. CASE request'.kind = "passthrough"
    BY <2>1 DEF CallsWhatItResolved, StepsAllowed
  <2>2. CASE request'.kind # "passthrough"
    <3> SUFFICES ASSUME request'.target # << >>
                 PROVE  /\ request'.selector[1] \notin request'.deniedBefore
                        /\ ReadTwice(request'.selector[1]) \/ request'.target = request'.selector
      BY <2>2 DEF CallsWhatItResolved
    <3>1. request'.selector # << >> /\ request'.selector[1] \notin request'.deniedBefore
      BY <2>2 DEF StepsAllowed
    <3> QED
      BY <2>2, <3>1 DEF RoutedAsResolved
  <2> QED
    BY <2>1, <2>2
<1>4. ListedModelsAreFound' /\ PeekedSelectorIsTheBodys'
  BY DEF RequestsIInv, ListedModelsAreFound, PeekedSelectorIsTheBodys
<1> QED
  BY <1>1, <1>2, <1>3, <1>4 DEF RequestsIInv

(* A request may fail at any step, but of a missing model only when nobody   *)
(* has listed it all the time.                                               *)
LEMMA FailingKeeps ==
  ASSUME RequestsIInv, request.pc \in Later, UNCHANGED Environment,
         NEW failure, request' = Failed(failure),
         failure = "not_found" => request.steady \subseteq Types
  PROVE  RequestsIInv'
<1>1. /\ upstream' = upstream /\ catalog' = catalog /\ denied' = denied /\ catalog \in Catalogs
      /\ DOMAIN request = RequestFields /\ request.selector \in Maybe(AnySelectors)
      /\ request.usage = << >>
  BY DEF RequestsIInv, WellFormed, Environment, Later, Resolving
<1>2. /\ DOMAIN request' = RequestFields
      /\ request'.pc = "end" /\ request'.failure = failure
      /\ \A field \in RequestFields \ {"pc", "failure"} : request'[field] = request[field]
  BY <1>1 DEF Failed, RequestFields
<1>3. /\ request'.kind = request.kind /\ request'.model = request.model /\ request'.hint = request.hint
      /\ request'.refreshed = request.refreshed /\ request'.rerouted = request.rerouted
      /\ request'.selector = request.selector /\ request'.target = request.target
      /\ request'.asked = request.asked /\ request'.usage = request.usage
      /\ request'.deniedBefore = request.deniedBefore /\ request'.steady = request.steady
  BY <1>2 DEF RequestFields
<1>4. StepsAllowed'
  BY <1>2, <1>3 DEF RequestsIInv, StepsAllowed
<1>5. RoutedAsResolved'
  BY <1>2, <1>3 DEF RequestsIInv, RoutedAsResolved
<1>6. SteadyIsFound'
  BY <1>1, <1>2, <1>3 DEF RequestsIInv, SteadyIsFound, SteadyBy, Asks, Redirected
<1>7. UsageNamesTheProvider'
  BY <1>1, <1>3 DEF UsageNamesTheProvider
<1> QED
  BY <1>1, <1>2, <1>3, <1>4, <1>5, <1>6, <1>7, StepKeeps

(* The providers that have listed the model all the time.                    *)
Steady == {n \in request.steady : n \notin Types /\ request.kind # "passthrough"}

LEMMA SteadyIsPlain ==
  ASSUME RequestsIInv, NEW n \in Steady, request.pc \in Resolving
  PROVE  /\ n \in PlainNames /\ n \in Names /\ n \in STRING /\ n # Blank
         /\ Asks = Selector(n, Asks.model) /\ Asks.model \in Ids
         /\ Asks.model \in upstream[n]
         /\ Normalize(Requested) = Asks
         /\ \A cat : RequestedModel(cat) = Asks
         /\ RefreshSelector = n
<1>1. request.model \in Ids /\ request.hint \in STRING \cup {Blank}
  BY DEF RequestsIInv, WellFormed, Resolving, Reading
<1>2. n \in Names /\ n = Asks.provider /\ ~ Redirected /\ Asks.model \in upstream[n] /\ n \notin Types
  BY DEF RequestsIInv, SteadyIsFound, SteadyBy, Steady
<1>3. n \in PlainNames /\ n \in STRING /\ n # Blank
  BY <1>2, NamesAreSegments DEF PlainNames
<1>4. Asks = Selector(n, Asks.model) /\ Asks.model \in Ids
  BY <1>1, <1>2, ParsedIsASelector DEF Asks
<1>5. Normalize(Requested) = Asks
  BY DEF Normalize, Requested, NewRequestedModelSelector, Asks
<1>6. \A cat : RequestedModel(cat) = Asks
  BY <1>2, <1>5 DEF RequestedModel, Redirected, Requested, NewRequestedModelSelector
<1>7. request.selector # << >> => request.selector[1].provider = n
  <2>1. request.selector # << >> =>
          request.selector[1] \in {Selector(n, Asks.model), Selector(n, <<n>> \o Asks.model)}
    BY <1>2 DEF RequestsIInv, SteadyIsFound, SteadyBy, Steady
  <2> QED
    BY <2>1 DEF Selector
<1>8. RefreshSelector = n
  BY <1>2, <1>3, <1>6, <1>7 DEF RefreshSelector
<1> QED
  BY <1>2, <1>3, <1>4, <1>5, <1>6, <1>8

(* Where a request is while it is resolved.                                  *)
LEMMA Progress ==
  ASSUME RequestsIInv, request.pc \in Later
  PROVE  /\ upstream \in Catalogs /\ catalog \in Catalogs
         /\ DOMAIN request = RequestFields /\ request.selector \in Maybe(AnySelectors)
         /\ request.model \in Ids /\ request.hint \in STRING \cup {Blank}
         /\ request.usage = << >> /\ request.failure = Blank
         /\ request.pc \notin {"access", "call"} => request.target = << >>
  BY DEF RequestsIInv, WellFormed, Later, Resolving, Reading

(* A step that only moves on, when the next place asks for no more.          *)
LEMMA MovingKeeps ==
  ASSUME RequestsIInv, request.pc \in Later, UNCHANGED Environment,
         NEW pc \in Later \ {"check", "find"}, request' = Goes(pc),
         IF request.kind = "passthrough" THEN pc \in {"access", "call"}
         ELSE /\ pc \in Resolving \ {"call"}
              /\ pc # "refresh" => request.selector # << >>
              /\ \/ pc \in {"route", "reroute"}
                 \/ pc = "label" /\ request.kind \notin {"json", "stream"}
                 => request.selector[1] \notin request.deniedBefore
              /\ pc \in {"prepare", "route", "reroute"} =>
                   request.pc \in {"prepare", "route", "reroute", "find"}
              /\ request.pc # "call"
  PROVE  RequestsIInv'
<1>1. /\ upstream' = upstream /\ catalog' = catalog /\ denied' = denied /\ catalog \in Catalogs
      /\ DOMAIN request = RequestFields /\ request.selector \in Maybe(AnySelectors)
      /\ request.usage = << >> /\ request.failure = Blank
      /\ request.pc \notin {"access", "call"} => request.target = << >>
  BY Progress DEF Environment
<1>2. /\ DOMAIN request' = RequestFields /\ request'.pc = pc
      /\ request'.kind = request.kind /\ request'.model = request.model /\ request'.hint = request.hint
      /\ request'.refreshed = request.refreshed /\ request'.rerouted = request.rerouted
      /\ request'.selector = request.selector /\ request'.target = request.target
      /\ request'.name = request.name /\ request'.type = request.type
      /\ request'.asked = request.asked /\ request'.usage = request.usage
      /\ request'.failure = request.failure
      /\ request'.deniedBefore = request.deniedBefore /\ request'.steady = request.steady
  BY <1>1 DEF Goes, RequestFields
<1>3. UsageNamesTheProvider' /\ Blank # "not_found"
  BY <1>1, <1>2 DEF UsageNamesTheProvider, Blank
<1>4. request.target # << >> => request.kind = "passthrough"
  BY <1>1 DEF RequestsIInv, StepsAllowed
<1>5. StepsAllowed'
  BY <1>2, <1>4 DEF RequestsIInv, StepsAllowed, Resolving
<1>6. RoutedAsResolved'
  BY <1>2, <1>4 DEF RequestsIInv, RoutedAsResolved
<1>7. SteadyIsFound'
  BY <1>1, <1>2 DEF RequestsIInv, SteadyIsFound, SteadyBy, Asks, Redirected
<1>8. request'.target # << >> => request'.pc \in {"access", "call", "end"}
  BY <1>2, <1>4
<1> QED
  BY <1>1, <1>2, <1>3, <1>5, <1>6, <1>7, <1>8, StepKeeps

(* Resolving finds the steady provider: by the id, or by the whole name when *)
(* that alone is in the registry.                                            *)
LEMMA SteadyResolves ==
  ASSUME RequestsIInv, NEW n \in Steady, request.pc \in Resolving,
         NEW cat, ResolveExecutionSelector(cat) # << >>
  PROVE  LET selector == ResolveExecutionSelector(cat)
         IN  /\ selector[1] \in {Selector(n, Asks.model), Selector(n, <<n>> \o Asks.model)}
             /\ Asks.model \in cat[n] => selector = <<Selector(n, Asks.model)>>
<1>1. n \in PlainNames /\ Asks.model \in Ids
  BY SteadyIsPlain
<1>2. RequestedModel(cat) = Selector(n, Asks.model)
  BY SteadyIsPlain
<1> DEFINE id == Asks.model
<1>3. ResolveExecutionSelector(cat) =
        ResolveModel(cat, NewRequestedModelSelector(QualifiedModel(Selector(n, id)), Blank))
  BY <1>2 DEF ResolveExecutionSelector
<1> HIDE DEF id
<1>4. ResolveExecutionSelector(cat) =
        IF ModelCount(cat) = {} THEN << >>
        ELSE IF id \notin cat[n] /\ <<n>> \o id \in cat[n] THEN <<Selector(n, <<n>> \o id)>>
        ELSE <<Selector(n, id)>>
  BY <1>1, <1>3, WholeNamesResolve DEF id
<1> QED
  BY <1>4 DEF id

LEMMA ExecutionSelectors ==
  ASSUME RequestsIInv, request.pc \in Resolving, NEW cat
  PROVE  ResolveExecutionSelector(cat) \in Maybe(AnySelectors)
<1> DEFINE asked == RequestedModel(cat)
<1>1. request.model \in Ids /\ request.hint \in STRING \cup {Blank}
  BY Progress DEF Later
<1>2. Normalize(Requested) \in AnySelectors
  <2>1. Normalize(Requested) = ParseModelSelector(request.model, request.hint)
    BY DEF Normalize, Requested, NewRequestedModelSelector
  <2> QED
    BY <1>1, <2>1, ParsedIsASelector DEF AnySelectors, Selector
<1>3. \A model \in DOMAIN Redirects : Redirects[model] \in AnySelectors
  BY RequestsAssumption DEF Selectors, AnySelectors
<1>4. asked \in AnySelectors
  BY <1>2, <1>3 DEF RequestedModel
<1>5. QualifiedModel(asked) \in Ids
  <2>1. asked.provider \in STRING \cup {Blank} /\ asked.model \in Ids
    BY <1>4 DEF AnySelectors
  <2>2. CASE asked.provider = Blank
    BY <2>1, <2>2 DEF QualifiedModel
  <2>3. CASE asked.provider # Blank
    <3>1. asked.provider \in STRING
      BY <2>1, <2>3
    <3> QED
      BY <2>1, <2>3, <3>1, QualifiedComesApart DEF QualifiedModel
  <2> QED
    BY <2>2, <2>3
<1> QED
  BY <1>5, ResolvedIsASelector DEF ResolveExecutionSelector

LEMMA ResolveKeeps ==
  ASSUME RequestsIInv, Resolve PROVE RequestsIInv'
<1> DEFINE selector == ResolveExecutionSelector(catalog)
<1>1. request.pc = "resolve" /\ UNCHANGED Environment /\ request.pc \in Later /\ request.pc \in Resolving
  BY DEF Resolve, Later, Resolving
<1>2. /\ upstream \in Catalogs /\ catalog \in Catalogs
      /\ DOMAIN request = RequestFields /\ request.usage = << >> /\ request.target = << >>
      /\ request.failure = Blank /\ request.kind # "passthrough"
  BY <1>1, Progress DEF RequestsIInv, StepsAllowed
<1>3. selector \in Maybe(AnySelectors)
  BY <1>1, ExecutionSelectors
<1>4. ASSUME selector # << >>, request' = [Goes("check") EXCEPT !.selector = selector]
      PROVE  RequestsIInv'
  <2>1. /\ DOMAIN request' = RequestFields /\ request'.pc = "check"
        /\ request'.kind = request.kind /\ request'.model = request.model /\ request'.hint = request.hint
        /\ request'.refreshed = request.refreshed /\ request'.rerouted = request.rerouted
        /\ request'.selector = selector /\ request'.target = << >>
        /\ request'.asked = request.asked /\ request'.usage = << >> /\ request'.failure = Blank
        /\ request'.deniedBefore = request.deniedBefore /\ request'.steady = request.steady
    BY <1>2, <1>4 DEF Goes, RequestFields
  <2> HIDE DEF selector
  <2>2. StepsAllowed' /\ RoutedAsResolved'
    BY <1>2, <1>4, <2>1 DEF StepsAllowed, RoutedAsResolved
  <2>3. SteadyIsFound'
    <3>1. UNCHANGED <<upstream, catalog>> /\ Asks' = Asks /\ Redirected' = Redirected
      BY <1>1, <2>1 DEF Environment, Asks, Redirected
    <3> SUFFICES ASSUME NEW n \in request.steady
                 PROVE  /\ n \in Names /\ n = Asks.provider /\ ~ Redirected /\ Asks.model \in upstream[n]
                        /\ n \notin Types =>
                             /\ request.refreshed \/ request.rerouted => Asks.model \in catalog[n]
                             /\ selector[1] \in {Selector(n, Asks.model), Selector(n, <<n>> \o Asks.model)}
                             /\ request.refreshed => selector = <<Selector(n, Asks.model)>>
      BY <2>1, <3>1 DEF SteadyIsFound, SteadyBy
    <3>2. /\ n \in Names /\ n = Asks.provider /\ ~ Redirected /\ Asks.model \in upstream[n]
          /\ n \notin Types => (request.refreshed \/ request.rerouted => Asks.model \in catalog[n])
      BY <1>2 DEF RequestsIInv, SteadyIsFound, SteadyBy
    <3>3. n \notin Types =>
            /\ selector[1] \in {Selector(n, Asks.model), Selector(n, <<n>> \o Asks.model)}
            /\ Asks.model \in catalog[n] => selector = <<Selector(n, Asks.model)>>
      BY <1>1, <1>2, <1>4, SteadyResolves DEF Steady, selector
    <3> QED
      BY <3>2, <3>3
  <2>4. UsageNamesTheProvider' /\ Blank # "not_found"
    BY <2>1 DEF UsageNamesTheProvider, Blank
  <2>5. upstream' = upstream /\ catalog' \in Catalogs /\ denied' = denied
    BY <1>1, <1>2 DEF Environment
  <2> QED
    BY <1>1, <1>3, <2>1, <2>2, <2>3, <2>4, <2>5, StepKeeps DEF Later, Resolving
<1>5. CASE request' = Failed("unavailable")
  BY <1>1, <1>5, FailingKeeps
<1>6. CASE request' = Goes("refresh")
  BY <1>1, <1>2, <1>6, MovingKeeps DEF Later, Resolving
<1> QED
  BY <1>4, <1>5, <1>6 DEF Resolve, RefreshOrFail

(* A model that has been listed all the time is supported after the refresh. *)
LEMMA CheckSupportKeeps ==
  ASSUME RequestsIInv, CheckSupport PROVE RequestsIInv'
<1> DEFINE selector == request.selector[1]
           supported == Supports(catalog, QualifiedModel(selector))
<1>1. request.pc = "check" /\ UNCHANGED Environment /\ request.pc \in Later /\ request.pc \in Resolving
  BY DEF CheckSupport, Later, Resolving
<1>2. request.kind # "passthrough" /\ request.selector # << >> /\ request.deniedBefore \subseteq denied
  BY <1>1 DEF RequestsIInv, WellFormed, StepsAllowed
<1>3. ~ supported /\ (request.refreshed \/ RefreshSelector = Blank) => request.steady \subseteq Types
  <2> SUFFICES ASSUME ~ supported, request.refreshed \/ RefreshSelector = Blank,
                      NEW n \in request.steady, n \notin Types
               PROVE  FALSE
    OBVIOUS
  <2>1. n \in Steady
    BY <1>2 DEF Steady
  <2>2. n \in PlainNames /\ Asks.model \in Ids /\ request.refreshed
    BY <1>1, <2>1, SteadyIsPlain
  <2>3. request.selector = <<Selector(n, Asks.model)>> /\ Asks.model \in catalog[n]
    BY <1>1, <1>2, <2>2 DEF RequestsIInv, SteadyIsFound, SteadyBy
  <2>4. selector = Selector(n, Asks.model)
    BY <2>3
  <2> DEFINE id == Asks.model
  <2>5. id \in Ids /\ id \in catalog[n] /\ selector = Selector(n, id)
    BY <2>2, <2>3, <2>4
  <2> HIDE DEF id, selector
  <2>6. Supports(catalog, QualifiedModel(Selector(n, id)))
    BY <2>2, <2>5, PlainNamesAreOwn
  <2> QED
    BY <2>5, <2>6
<1>4. CASE ~ supported /\ request' = Failed("not_found") /\ (request.refreshed \/ RefreshSelector = Blank)
  BY <1>1, <1>3, <1>4, FailingKeeps
<1>5. CASE request' = Goes("refresh")
  BY <1>1, <1>2, <1>5, MovingKeeps DEF Later, Resolving
<1>6. CASE request' = Failed("denied")
  BY <1>1, <1>6, FailingKeeps
<1>7. CASE request' = Goes("label") /\ (request.kind = "internal" => ValidateModelAccess(selector))
  <2>1. request.kind \notin {"json", "stream"} => request.kind = "internal"
    BY <1>2 DEF CheckSupport, RequestsIInv, WellFormed, Kinds
  <2>2. request.kind \notin {"json", "stream"} => request.selector[1] \notin request.deniedBefore
    BY <1>2, <1>7, <2>1 DEF ValidateModelAccess
  <2> QED
    BY <1>1, <1>2, <1>7, <2>2, MovingKeeps DEF Later, Resolving
<1> QED
  BY <1>4, <1>5, <1>6, <1>7 DEF CheckSupport, RefreshOrFail

LEMMA PreparationsKeep ==
  ASSUME RequestsIInv, PrepareService \/ Prepare PROVE RequestsIInv'
<1>1. /\ request.pc \in {"check", "prepare"} /\ UNCHANGED Environment
      /\ request.pc \in Later /\ request.pc \in Resolving
  BY DEF PrepareService, Prepare, Later, Resolving
<1>2. request.kind # "passthrough" /\ request.selector # << >> /\ request.deniedBefore \subseteq denied
  BY <1>1 DEF RequestsIInv, WellFormed, StepsAllowed
<1>3. CASE request' = Failed("denied")
  BY <1>1, <1>3, FailingKeeps
<1>4. CASE /\ request' = Goes(IF request.pc = "check" THEN "label" ELSE "route")
           /\ request.selector[1] \notin denied
  BY <1>1, <1>2, <1>4, MovingKeeps DEF Later, Resolving
<1> QED
  BY <1>3, <1>4 DEF PrepareService, Prepare, ValidateModelAccess

(* What makes a selector one that is not read twice.                         *)
LEMMA ReadOnce ==
  ASSUME NEW selector \in AnySelectors, ~ ReadTwice(selector)
  PROVE  /\ selector.provider \in PlainNames /\ selector.provider \in Names
         /\ selector.model \in Ids /\ selector = Selector(selector.provider, selector.model)
         /\ Normalize(ApplyResolvedSelector(selector)) = selector
         /\ ApplyResolvedSelector(selector).model = selector.model
<1>1. selector.provider \in PlainNames /\ selector.provider \in Names /\ selector.provider # Blank
  BY NamesAreSegments DEF ReadTwice, PlainNames
<1>2. selector.model \in Ids /\ selector = Selector(selector.provider, selector.model)
  BY DEF AnySelectors, Selector
<1>3. ~ (Len(selector.model) > 1 /\ Head(selector.model) = selector.provider)
  BY DEF ReadTwice
<1>4. ParseModelSelector(selector.model, selector.provider) = Selector(selector.provider, selector.model)
  BY <1>1, <1>3 DEF ParseModelSelector
<1> QED
  BY <1>1, <1>2, <1>4 DEF Normalize, ApplyResolvedSelector, NewRequestedModelSelector

LEMMA LabelResolutionKeeps ==
  ASSUME RequestsIInv, LabelResolution PROVE RequestsIInv'
<1> DEFINE s == request.selector[1]
           q == QualifiedModel(s)
           pc == IF request.kind \in {"json", "stream"} THEN "prepare" ELSE "route"
<1>1. request.pc = "label" /\ UNCHANGED Environment /\ request.pc \in Later /\ pc \in Later
  BY DEF LabelResolution, Later, Resolving
<1>2. /\ upstream' = upstream /\ catalog' = catalog /\ denied' = denied /\ catalog \in Catalogs
      /\ DOMAIN request = RequestFields /\ request.selector \in Maybe(AnySelectors)
      /\ request.usage = << >> /\ request.target = << >> /\ request.failure = Blank
  BY <1>1, Progress DEF Environment
<1>3. /\ request.kind # "passthrough" /\ request.selector # << >>
      /\ request.kind \notin {"json", "stream"} => s \notin request.deniedBefore
  BY <1>1 DEF RequestsIInv, StepsAllowed
<1>4. /\ DOMAIN request' = RequestFields /\ request'.pc = pc
      /\ request'.kind = request.kind /\ request'.model = request.model /\ request'.hint = request.hint
      /\ request'.refreshed = request.refreshed /\ request'.rerouted = request.rerouted
      /\ request'.selector = request.selector /\ request'.target = << >>
      /\ request'.asked = request.asked /\ request'.usage = << >> /\ request'.failure = Blank
      /\ request'.deniedBefore = request.deniedBefore /\ request'.steady = request.steady
      /\ request'.type = GetProviderType(catalog, q)
      /\ request'.name \in {GetProviderName(catalog, q), s.provider}
  BY <1>2 DEF LabelResolution, WithResolution, Goes, RequestFields
<1>5. s \in AnySelectors /\ request.selector = <<s>>
  BY <1>2, <1>3 DEF Maybe
<1> HIDE DEF s
<1>6. ~ ReadTwice(s) => request'.name \in {s.provider, Blank} /\ request'.type \in {TypeOf[s.provider], Blank}
  <2> SUFFICES ASSUME ~ ReadTwice(s)
               PROVE  request'.name \in {s.provider, Blank} /\ request'.type \in {TypeOf[s.provider], Blank}
    OBVIOUS
  <2> DEFINE p == s.provider
             id == s.model
  <2>1. p \in PlainNames /\ id \in Ids /\ s = Selector(p, id)
    BY <1>5, ReadOnce
  <2> HIDE DEF p, id
  <2>2. /\ GetProviderName(catalog, q) \in {p, Blank}
        /\ GetProviderType(catalog, q) \in {TypeOf[p], Blank}
    BY <2>1, PlainNamesAreOwn
  <2> QED
    BY <1>4, <2>2 DEF p
<1>7. StepsAllowed'
  BY <1>3, <1>4 DEF StepsAllowed, s
<1>8. RoutedAsResolved'
  BY <1>4, <1>5, <1>6 DEF RoutedAsResolved
<1>9. SteadyIsFound'
  BY <1>2, <1>4 DEF RequestsIInv, SteadyIsFound, SteadyBy, Asks, Redirected
<1>10. UsageNamesTheProvider' /\ Blank # "not_found"
  BY <1>4 DEF UsageNamesTheProvider, Blank
<1> HIDE DEF pc
<1> QED
  BY <1>1, <1>2, <1>4, <1>7, <1>8, <1>9, <1>10, StepKeeps

(* A refresh that a request has asked for ends with what the steady provider *)
(* lists.                                                                    *)
LEMMA RefreshesKeep ==
  ASSUME RequestsIInv, RefreshForResolution \/ RefreshForRequest PROVE RequestsIInv'
<1> DEFINE segment == IF request.pc = "refresh" THEN RefreshSelector ELSE request.selector[1].provider
           goesTo == IF request.pc = "refresh" THEN "resolve" ELSE "route"
<1>1. /\ request.pc \in {"refresh", "reroute"} /\ upstream' = upstream /\ denied' = denied
      /\ request.pc \in Later /\ request.pc \in Resolving
  BY DEF RefreshForResolution, RefreshForRequest, RefreshAsked, Later, Resolving
<1>2. /\ upstream \in Catalogs /\ catalog \in Catalogs
      /\ DOMAIN request = RequestFields /\ request.selector \in Maybe(AnySelectors)
      /\ request.usage = << >> /\ request.target = << >> /\ request.failure = Blank
      /\ request.kind # "passthrough"
  BY <1>1, Progress DEF RequestsIInv, StepsAllowed
<1>3. CASE request' = Failed("refresh_failed") /\ UNCHANGED Environment
  BY <1>1, <1>3, FailingKeeps
<1>4. ASSUME NEW answering \in SUBSET RefreshTargets(segment),
             answering = {} => RefreshTargets(segment) = {},
             catalog' = Refreshed(answering),
             \/ request' = [[request EXCEPT !.refreshed = TRUE] EXCEPT !.pc = goesTo] /\ request.pc = "refresh"
             \/ request' = [[request EXCEPT !.rerouted = TRUE] EXCEPT !.pc = goesTo] /\ request.pc = "reroute"
      PROVE  RequestsIInv'
  <2>1. /\ DOMAIN request' = RequestFields /\ request'.pc = goesTo
        /\ request'.kind = request.kind /\ request'.model = request.model /\ request'.hint = request.hint
        /\ request'.selector = request.selector /\ request'.target = << >>
        /\ request'.name = request.name /\ request'.type = request.type
        /\ request'.asked = request.asked /\ request'.usage = << >> /\ request'.failure = Blank
        /\ request'.deniedBefore = request.deniedBefore /\ request'.steady = request.steady
    BY <1>2, <1>4 DEF RequestFields
  <2>2. catalog' \in Catalogs
    BY <1>2, <1>4 DEF Refreshed, Catalogs
  <2>3. goesTo \in {"resolve", "route"} /\ (goesTo = "route" <=> request.pc = "reroute") /\ goesTo \in Later
    BY <1>1 DEF Later, Resolving
  <2>4. ASSUME NEW n \in Steady PROVE Asks.model \in catalog'[n]
    <3>1. n \in Names /\ Asks.model \in upstream[n] /\ RefreshSelector = n
      BY <1>1, SteadyIsPlain
    <3>2. request.selector # << >> => request.selector[1].provider = n
      <4>1. request.selector # << >> =>
              request.selector[1] \in {Selector(n, Asks.model), Selector(n, <<n>> \o Asks.model)}
        BY DEF RequestsIInv, SteadyIsFound, SteadyBy, Steady
      <4> QED
        BY <4>1 DEF Selector
    <3>3. request.pc = "reroute" => request.selector # << >>
      BY <1>2 DEF RequestsIInv, StepsAllowed
    <3>4. segment = n
      BY <1>1, <3>1, <3>2, <3>3
    <3> HIDE DEF segment
    <3>5. n \in answering
      BY <1>4, <3>1, <3>4 DEF RefreshTargets
    <3> QED
      BY <1>4, <3>1, <3>5 DEF Refreshed
  <2> HIDE DEF segment, goesTo
  <2>5. StepsAllowed'
    BY <1>2, <2>1, <2>3 DEF RequestsIInv, StepsAllowed
  <2>6. RoutedAsResolved'
    BY <1>2, <2>1, <2>3 DEF RequestsIInv, RoutedAsResolved
  <2>7. SteadyIsFound'
    <3>1. UNCHANGED upstream /\ Asks' = Asks /\ Redirected' = Redirected
      BY <1>1, <2>1 DEF Asks, Redirected
    <3>2. \A n \in request.steady : n \notin Types => n \in Steady
      BY <1>2 DEF Steady
    <3> QED
      BY <1>2, <2>1, <2>3, <2>4, <3>1, <3>2 DEF RequestsIInv, SteadyIsFound, SteadyBy
  <2>8. UsageNamesTheProvider' /\ Blank # "not_found"
    BY <2>1 DEF UsageNamesTheProvider, Blank
  <2> QED
    BY <1>1, <1>2, <2>1, <2>2, <2>3, <2>5, <2>6, <2>7, <2>8, StepKeeps
<1>5. CASE RefreshForResolution
  BY <1>3, <1>4, <1>5 DEF RefreshForResolution, RefreshAsked, Environment
<1>6. CASE RefreshForRequest
  BY <1>3, <1>4, <1>6 DEF RefreshForRequest, RefreshAsked, Environment
<1> QED
  BY <1>5, <1>6

LEMMA SteadyRoutes ==
  ASSUME RequestsIInv, NEW n \in Steady, request.pc \in Resolving,
         request.selector # << >>, request.rerouted
  PROVE  \E id \in Ids :
           /\ ResolveModel(catalog, ApplyResolvedSelector(request.selector[1])) = <<Selector(n, id)>>
           /\ Asks.model \in {id, <<n>> \o id}
<1> DEFINE listed == Asks.model
           selector == request.selector[1]
<1>1. n \in PlainNames /\ listed \in Ids
  BY SteadyIsPlain
<1>2. listed \in catalog[n] /\ selector \in {Selector(n, listed), Selector(n, <<n>> \o listed)}
  BY DEF RequestsIInv, SteadyIsFound, SteadyBy, Steady
<1> HIDE DEF listed, selector
<1>3. \E id \in Ids : /\ ResolveModel(catalog, ApplyResolvedSelector(selector)) = <<Selector(n, id)>>
                      /\ listed \in {id, <<n>> \o id}
  BY <1>1, <1>2, ListedIsRouted
<1> QED
  BY <1>3 DEF listed, selector

LEMMA ReroutingKeeps ==
  ASSUME RequestsIInv, request.pc \in {"route", "find"}, UNCHANGED Environment, request' = Goes("reroute")
  PROVE  RequestsIInv'
<1>1. /\ request.pc \in Later /\ request.kind # "passthrough" /\ request.selector # << >>
      /\ request.selector[1] \notin request.deniedBefore
  BY DEF RequestsIInv, StepsAllowed, Later, Resolving
<1> QED
  BY <1>1, MovingKeeps, Progress DEF Later, Resolving

LEMMA RouteKeeps ==
  ASSUME RequestsIInv, Route PROVE RequestsIInv'
<1> DEFINE s == request.selector[1]
           found == ResolveModel(catalog, ApplyResolvedSelector(s))
<1>1. request.pc = "route" /\ UNCHANGED Environment /\ request.pc \in Later /\ request.pc \in Resolving
  BY DEF Route, Later, Resolving
<1>2. /\ upstream' = upstream /\ catalog' = catalog /\ denied' = denied /\ catalog \in Catalogs
      /\ DOMAIN request = RequestFields /\ request.selector \in Maybe(AnySelectors)
      /\ request.usage = << >> /\ request.target = << >> /\ request.failure = Blank
  BY <1>1, Progress DEF Environment
<1>3. request.kind # "passthrough" /\ request.selector # << >> /\ s \notin request.deniedBefore
  BY <1>1 DEF RequestsIInv, StepsAllowed
<1>4. s \in AnySelectors /\ request.selector = <<s>>
  BY <1>2, <1>3 DEF Maybe
<1>5. ASSUME found # << >>, request' = [Goes("find") EXCEPT !.route = found]
      PROVE  RequestsIInv'
  <2>1. /\ DOMAIN request' = RequestFields /\ request'.pc = "find" /\ request'.route = found
        /\ request'.kind = request.kind /\ request'.model = request.model /\ request'.hint = request.hint
        /\ request'.refreshed = request.refreshed /\ request'.rerouted = request.rerouted
        /\ request'.selector = request.selector /\ request'.target = << >>
        /\ request'.name = request.name /\ request'.type = request.type
        /\ request'.asked = request.asked /\ request'.usage = << >> /\ request'.failure = Blank
        /\ request'.deniedBefore = request.deniedBefore /\ request'.steady = request.steady
    BY <1>2, <1>5 DEF Goes, RequestFields
  <2>2. ~ ReadTwice(s) => found = <<s>>
    <3> SUFFICES ASSUME ~ ReadTwice(s) PROVE found = <<s>>
      OBVIOUS
    <3> DEFINE p == s.provider
               id == s.model
               requested == ApplyResolvedSelector(s)
    <3>1. p \in PlainNames /\ s = Selector(p, id) /\ Normalize(requested) = s /\ requested.model = id
      <4> HIDE DEF s
      <4> QED
        BY <1>4, ReadOnce
    <3>2. p \in PlainNames /\ Normalize(requested) = Selector(p, id)
      BY <3>1
    <3> HIDE DEF p, id, requested, s
    <3>3. ResolveModel(catalog, requested) =
            IF ModelCount(catalog) = {} THEN << >>
            ELSE IF id \notin catalog[p] /\ requested.model \in catalog[p]
              THEN <<Selector(p, requested.model)>>
            ELSE <<Selector(p, id)>>
      BY <3>2, PlainNamesResolve
    <3> QED
      BY <1>5, <3>1, <3>3 DEF requested
  <2>3. \A n \in Steady : request.rerouted =>
          \E id \in Ids : found = <<Selector(n, id)>> /\ Asks.model \in {id, <<n>> \o id}
    BY <1>1, <1>3, SteadyRoutes
  <2> HIDE DEF found
  <2>4. StepsAllowed'
    BY <1>3, <2>1 DEF StepsAllowed
  <2>5. RoutedAsResolved'
    <3> HIDE DEF s
    <3>1. request.selector[1] = s
      BY DEF s
    <3> QED
      BY <1>1, <1>3, <1>4, <2>1, <2>2, <3>1 DEF RequestsIInv, RoutedAsResolved
  <2>6. SteadyIsFound'
    <3>1. UNCHANGED <<upstream, catalog>> /\ Asks' = Asks /\ Redirected' = Redirected
      BY <1>2, <2>1 DEF Asks, Redirected
    <3>2. \A n \in request.steady : n \notin Types => n \in Steady
      BY <1>3 DEF Steady
    <3> QED
      BY <1>3, <2>1, <2>3, <3>1, <3>2 DEF RequestsIInv, SteadyIsFound, SteadyBy
  <2>7. UsageNamesTheProvider' /\ Blank # "not_found"
    BY <2>1 DEF UsageNamesTheProvider, Blank
  <2> QED
    BY <1>1, <1>2, <2>1, <2>4, <2>5, <2>6, <2>7, StepKeeps DEF Later, Resolving
<1>6. CASE request' = Failed("unavailable")
  BY <1>1, <1>6, FailingKeeps
<1>7. CASE request' = Goes("reroute")
  BY <1>1, <1>7, ReroutingKeeps
<1> QED
  BY <1>5, <1>6, <1>7 DEF Route, RerouteOrFail

(* A model that has been listed all the time is found after the refresh.     *)
LEMMA FindProviderKeeps ==
  ASSUME RequestsIInv, FindProvider PROVE RequestsIInv'
<1> DEFINE route == request.route[1]
           provider == Lookup(catalog, QualifiedModel(route))
<1>1. request.pc = "find" /\ UNCHANGED Environment /\ request.pc \in Later /\ request.pc \in Resolving
  BY DEF FindProvider, Later, Resolving
<1>2. /\ upstream' = upstream /\ catalog' = catalog /\ denied' = denied /\ catalog \in Catalogs
      /\ DOMAIN request = RequestFields /\ request.selector \in Maybe(AnySelectors)
      /\ request.usage = << >> /\ request.target = << >> /\ request.failure = Blank
  BY <1>1, Progress DEF Environment
<1>3. /\ request.kind # "passthrough" /\ request.selector # << >>
      /\ request.selector[1] \notin request.deniedBefore
  BY <1>1 DEF RequestsIInv, StepsAllowed
<1>4. request.selector[1] \in AnySelectors /\ request.selector = <<request.selector[1]>>
  BY <1>2, <1>3 DEF Maybe
<1>5. ASSUME provider # << >>,
             request' = [Goes("call") EXCEPT !.target = <<Selector(provider[1], route.model)>>]
      PROVE  RequestsIInv'
  <2>1. /\ DOMAIN request' = RequestFields /\ request'.pc = "call" /\ request'.route = request.route
        /\ request'.kind = request.kind /\ request'.model = request.model /\ request'.hint = request.hint
        /\ request'.refreshed = request.refreshed /\ request'.rerouted = request.rerouted
        /\ request'.selector = request.selector
        /\ request'.target = <<Selector(provider[1], route.model)>>
        /\ request'.name = request.name /\ request'.type = request.type
        /\ request'.asked = request.asked /\ request'.usage = << >> /\ request'.failure = Blank
        /\ request'.deniedBefore = request.deniedBefore /\ request'.steady = request.steady
    BY <1>2, <1>5 DEF Goes, RequestFields
  <2>2. ~ ReadTwice(request.selector[1]) =>
          request.route = request.selector /\ request'.target = request.selector
    <3> SUFFICES ASSUME ~ ReadTwice(request.selector[1])
                 PROVE  request.route = request.selector /\ request'.target = request.selector
      OBVIOUS
    <3>1. request.route = request.selector
      BY <1>1, <1>3 DEF RequestsIInv, RoutedAsResolved
    <3> DEFINE p == route.provider
               id == route.model
    <3>2. route \in AnySelectors /\ ~ ReadTwice(route) /\ request.selector = <<route>>
      BY <1>4, <3>1
    <3>3. p \in Names /\ id \in Ids /\ route = Selector(p, id)
      <4> HIDE DEF route
      <4> QED
        BY <3>2, ReadOnce
    <3> HIDE DEF route, p, id
    <3>4. Lookup(catalog, QualifiedModel(Selector(p, id))) \in {<< >>, <<p>>}
      BY <3>3, NamedLookup
    <3>5. provider = <<p>>
      BY <1>5, <3>3, <3>4
    <3> HIDE DEF provider
    <3>6. Selector(provider[1], route.model) = route
      BY <3>3, <3>5 DEF id
    <3> QED
      BY <2>1, <3>1, <3>2, <3>6
  <2> HIDE DEF provider, route
  <2>3. StepsAllowed'
    BY <1>3, <2>1 DEF StepsAllowed
  <2>4. RoutedAsResolved'
    BY <1>1, <1>3, <2>1, <2>2 DEF RequestsIInv, RoutedAsResolved
  <2>5. SteadyIsFound'
    BY <1>2, <2>1 DEF RequestsIInv, SteadyIsFound, SteadyBy, Asks, Redirected
  <2>6. UsageNamesTheProvider' /\ Blank # "not_found"
    BY <2>1 DEF UsageNamesTheProvider, Blank
  <2> QED
    BY <1>1, <1>2, <2>1, <2>3, <2>4, <2>5, <2>6, StepKeeps DEF Later, Resolving
<1>6. ASSUME provider = << >>, request' = RerouteOrFail("not_found")
      PROVE  RequestsIInv'
  <2>1. CASE request' = Goes("reroute")
    BY <1>1, <2>1, ReroutingKeeps
  <2>2. ASSUME request' = Failed("not_found"),
               request.rerouted \/ ~ HasRegisteredProviderSelector(request.selector[1].provider)
        PROVE  RequestsIInv'
    <3>1. request.steady \subseteq Types
      <4> SUFFICES ASSUME NEW n \in request.steady, n \notin Types PROVE FALSE
        OBVIOUS
      <4>1. n \in Steady
        BY <1>3 DEF Steady
      <4>2. n \in Names /\ Asks.model \in Ids
        BY <1>1, <4>1, SteadyIsPlain
      <4>3. request.selector[1] \in {Selector(n, Asks.model), Selector(n, <<n>> \o Asks.model)}
        BY <1>3, <4>1 DEF RequestsIInv, SteadyIsFound, SteadyBy, Steady
      <4>4. request.selector[1].provider = n
        BY <4>3 DEF Selector
      <4>5. request.rerouted
        BY <2>2, <4>2, <4>4 DEF HasRegisteredProviderSelector
      <4>6. PICK id \in Ids : request.route = <<Selector(n, id)>> /\ Asks.model \in {id, <<n>> \o id}
        BY <1>1, <4>1, <4>5 DEF RequestsIInv, SteadyIsFound, SteadyBy, Steady
      <4>7. Asks.model \in catalog[n]
        BY <4>1, <4>5 DEF RequestsIInv, SteadyIsFound, SteadyBy, Steady
      <4>8. Lookup(catalog, QualifiedModel(Selector(n, id))) = <<n>>
        BY <4>2, <4>6, <4>7, NamedLookup
      <4>9. route = Selector(n, id)
        BY <4>6
      <4> HIDE DEF route
      <4> QED
        BY <1>6, <4>8, <4>9
    <3> QED
      BY <1>1, <2>2, <3>1, FailingKeeps
  <2> QED
    BY <1>6, <2>1, <2>2 DEF RerouteOrFail
<1> QED
  BY <1>5, <1>6 DEF FindProvider

(* An answer is charged to the provider that was called.                     *)
LEMMA AnsweringKeeps ==
  ASSUME RequestsIInv, request.pc = "call", UNCHANGED Environment,
         NEW type, NEW model, request' = [Goes("end") EXCEPT !.usage = <<UsageEntry(type, model)>>],
         request.kind # "passthrough" =>
           type \in {request.type, ResponseProviderType(request.type, StampedType)}
  PROVE  RequestsIInv'
<1>1. /\ upstream' = upstream /\ catalog' = catalog /\ denied' = denied /\ catalog \in Catalogs
      /\ DOMAIN request = RequestFields /\ request.selector \in Maybe(AnySelectors)
      /\ request.failure = Blank /\ request.pc \in Later
  BY Progress DEF Environment, Later, Resolving
<1>2. /\ DOMAIN request' = RequestFields /\ request'.pc = "end"
      /\ request'.usage = <<UsageEntry(type, model)>>
      /\ request'.kind = request.kind /\ request'.model = request.model /\ request'.hint = request.hint
      /\ request'.refreshed = request.refreshed /\ request'.rerouted = request.rerouted
      /\ request'.selector = request.selector /\ request'.target = request.target
      /\ request'.asked = request.asked /\ request'.failure = Blank
      /\ request'.deniedBefore = request.deniedBefore /\ request'.steady = request.steady
  BY <1>1 DEF Goes, RequestFields
<1>3. StepsAllowed'
  BY <1>2 DEF RequestsIInv, StepsAllowed
<1>4. RoutedAsResolved'
  BY <1>2 DEF RequestsIInv, RoutedAsResolved
<1>5. SteadyIsFound'
  BY <1>1, <1>2 DEF RequestsIInv, SteadyIsFound, SteadyBy, Asks, Redirected
<1>6. UsageNamesTheProvider'
  <2> DEFINE s == request.selector[1]
  <2> SUFFICES ASSUME request.kind # "passthrough", ~ ReadTwice(s)
               PROVE  /\ request.name \in {request.target[1].provider, Blank}
                      /\ type \in {TypeOf[request.target[1].provider], Blank}
    <3>1. request'.usage[1].name = request.name /\ request'.usage[1].type = type
      BY <1>2 DEF UsageEntry
    <3> QED
      BY <1>2, <3>1 DEF UsageNamesTheProvider
  <2>1. request.selector # << >> /\ request.target # << >>
    BY DEF RequestsIInv, StepsAllowed
  <2>2. /\ request.route = request.selector /\ request.target = request.selector
        /\ request.name \in {s.provider, Blank} /\ request.type \in {TypeOf[s.provider], Blank}
    BY <2>1 DEF RequestsIInv, RoutedAsResolved
  <2>3. s \in AnySelectors
    BY <1>1, <2>1 DEF Maybe
  <2>4. StampedType \in {TypeOf[s.provider], Blank}
    <3> DEFINE p == s.provider
               id == s.model
    <3>1. p \in PlainNames /\ id \in Ids /\ s = Selector(p, id)
      <4> HIDE DEF s
      <4> QED
        BY <2>3, ReadOnce
    <3>2. request.route[1] = Selector(p, id)
      BY <2>2, <3>1
    <3> HIDE DEF p, id
    <3>3. GetProviderType(catalog, QualifiedModel(Selector(p, id))) \in {TypeOf[p], Blank}
      BY <3>1, PlainNamesAreOwn
    <3> QED
      BY <3>2, <3>3 DEF StampedType, p
  <2>5. type \in {TypeOf[s.provider], Blank}
    BY <2>2, <2>4 DEF ResponseProviderType
  <2> QED
    BY <2>2, <2>5
<1>7. Blank # "not_found"
  BY DEF Blank
<1> QED
  BY <1>1, <1>2, <1>3, <1>4, <1>5, <1>6, <1>7, StepKeeps

LEMMA CallsKeep ==
  ASSUME RequestsIInv,
         \/ ServiceUnsupported \/ CallFails \/ JSONAnswered \/ StreamAnswered
         \/ InternalAnswered \/ ServiceAnswered \/ ProxyPassthroughResponse
  PROVE  RequestsIInv'
<1>1. request.pc = "call" /\ request.pc \in Later /\ UNCHANGED Environment
  BY DEF ServiceUnsupported, CallFails, JSONAnswered, StreamAnswered, InternalAnswered, ServiceAnswered,
         ProxyPassthroughResponse, Answered, Later, Resolving
<1>2. CASE ServiceUnsupported \/ CallFails
  BY <1>1, <1>2, FailingKeeps DEF ServiceUnsupported, CallFails
<1>3. CASE JSONAnswered
  BY <1>1, <1>3, AnsweringKeeps DEF JSONAnswered, Answered
<1>4. CASE StreamAnswered
  BY <1>1, <1>4, AnsweringKeeps DEF StreamAnswered, Answered
<1>5. CASE InternalAnswered
  BY <1>1, <1>5, AnsweringKeeps DEF InternalAnswered, Answered
<1>6. CASE ServiceAnswered
  BY <1>1, <1>6, AnsweringKeeps DEF ServiceAnswered, Answered
<1>7. CASE ProxyPassthroughResponse
  BY <1>1, <1>7, AnsweringKeeps DEF ProxyPassthroughResponse, Answered
<1> QED
  BY <1>2, <1>3, <1>4, <1>5, <1>6, <1>7

(* A passthrough for a configured name gets that provider, whatever types    *)
(* are named alike.                                                          *)
LEMMA PassthroughKeeps ==
  ASSUME RequestsIInv, Passthrough PROVE RequestsIInv'
<1> DEFINE name == PassthroughName(request.hint)
           type == PassthroughType(request.hint)
           provider == IF name # Blank THEN <<name>> ELSE ProviderByType(type)
<1>1. request.pc = "passthrough" /\ UNCHANGED Environment /\ request.pc \in Later
  BY DEF Passthrough, Later
<1>2. /\ upstream' = upstream /\ catalog' = catalog /\ denied' = denied /\ catalog \in Catalogs
      /\ DOMAIN request = RequestFields /\ request.selector \in Maybe(AnySelectors)
      /\ request.usage = << >> /\ request.failure = Blank
  BY <1>1, Progress DEF Environment
<1>3. request.kind = "passthrough"
  BY <1>1 DEF RequestsIInv, StepsAllowed
<1>4. ASSUME request' = [Goes("access") EXCEPT !.name = name, !.type = type,
                                              !.target = <<Selector(provider[1], request.model)>>]
      PROVE  RequestsIInv'
  <2>1. /\ DOMAIN request' = RequestFields /\ request'.pc = "access"
        /\ request'.kind = "passthrough" /\ request'.model = request.model /\ request'.hint = request.hint
        /\ request'.selector = request.selector
        /\ request'.target = <<Selector(provider[1], request.model)>>
        /\ request'.asked = request.asked /\ request'.usage = << >> /\ request'.failure = Blank
        /\ request'.deniedBefore = request.deniedBefore /\ request'.steady = request.steady
    BY <1>2, <1>3, <1>4 DEF Goes, RequestFields
  <2>2. request.hint \in Names => request'.target[1].provider = request.hint
    <3> SUFFICES ASSUME request.hint \in Names PROVE request'.target[1].provider = request.hint
      OBVIOUS
    <3>1. name = request.hint /\ name # Blank
      BY NamesAreSegments DEF PassthroughName, ResolvePassthroughProvider
    <3>2. provider[1] = request.hint
      BY <3>1
    <3> HIDE DEF provider
    <3> QED
      BY <2>1, <3>2 DEF Selector
  <2>3. StepsAllowed' /\ RoutedAsResolved' /\ UsageNamesTheProvider' /\ Blank # "not_found"
    BY <2>1, <2>2 DEF StepsAllowed, RoutedAsResolved, UsageNamesTheProvider, Blank
  <2>4. SteadyIsFound'
    BY <1>2, <2>1 DEF RequestsIInv, SteadyIsFound, SteadyBy, Asks, Redirected
  <2> QED
    BY <1>1, <1>2, <1>3, <2>1, <2>3, <2>4, StepKeeps DEF Later
<1>5. CASE request' = Failed("invalid")
  BY <1>1, <1>5, FailingKeeps
<1> QED
  BY <1>4, <1>5 DEF Passthrough

LEMMA AuthorizePassthroughKeeps ==
  ASSUME RequestsIInv, AuthorizePassthrough PROVE RequestsIInv'
<1>1. request.pc = "access" /\ UNCHANGED Environment /\ request.pc \in Later
  BY DEF AuthorizePassthrough, Later
<1>2. /\ upstream' = upstream /\ catalog' = catalog /\ denied' = denied /\ catalog \in Catalogs
      /\ DOMAIN request = RequestFields /\ request.selector \in Maybe(AnySelectors)
      /\ request.usage = << >>
  BY <1>1, Progress DEF Environment
<1>3. request.kind = "passthrough"
  BY <1>1 DEF RequestsIInv, StepsAllowed
<1>4. CASE request' = Goes("call")
  BY <1>1, <1>3, <1>4, MovingKeeps DEF Later, Resolving
<1>5. CASE request' = [Failed("denied") EXCEPT !.target = << >>]
  <2>1. /\ DOMAIN request' = RequestFields /\ request'.pc = "end" /\ request'.failure = "denied"
        /\ request'.kind = "passthrough" /\ request'.model = request.model /\ request'.hint = request.hint
        /\ request'.selector = request.selector /\ request'.target = << >>
        /\ request'.asked = request.asked /\ request'.usage = << >>
        /\ request'.deniedBefore = request.deniedBefore /\ request'.steady = request.steady
    BY <1>2, <1>3, <1>5 DEF Failed, RequestFields
  <2>2. StepsAllowed' /\ RoutedAsResolved' /\ UsageNamesTheProvider'
    BY <2>1 DEF StepsAllowed, RoutedAsResolved, UsageNamesTheProvider
  <2>3. SteadyIsFound'
    BY <1>2, <2>1 DEF RequestsIInv, SteadyIsFound, SteadyBy, Asks, Redirected
  <2> QED
    BY <1>1, <1>2, <1>3, <2>1, <2>2, <2>3, StepKeeps
<1> QED
  BY <1>4, <1>5 DEF AuthorizePassthrough

(* What a provider no longer lists is not steady any more.                   *)
LEMMA UpstreamChangesKeeps ==
  ASSUME RequestsIInv, UpstreamChanges PROVE RequestsIInv'
<1>1. PICK n \in Names : \E ids \in Inventories[n] :
        /\ upstream' = [upstream EXCEPT ![n] = ids]
        /\ request' = [request EXCEPT !.steady =
                         {k \in @ : ParseModelSelector(request.model, request.hint).model \in upstream'[k]}]
  BY DEF UpstreamChanges
<1>2. /\ catalog' = catalog /\ denied' = denied /\ request.pc \notin {"body", "rewrite", "workflow"}
      /\ upstream \in Catalogs /\ catalog \in Catalogs /\ DOMAIN request = RequestFields
  BY DEF UpstreamChanges, ReadingBody, RequestsIInv, WellFormed
<1>3. upstream' \in Catalogs
  BY <1>1, <1>2, RequestsAssumption DEF Catalogs
<1>4. /\ DOMAIN request' = RequestFields
      /\ request'.steady = {k \in request.steady : Asks.model \in upstream'[k]}
      /\ \A field \in RequestFields \ {"steady"} : request'[field] = request[field]
  BY <1>1, <1>2 DEF RequestFields, Asks
<1>5. /\ request'.kind = request.kind /\ request'.model = request.model /\ request'.hint = request.hint
      /\ request'.pc = request.pc /\ request'.refreshed = request.refreshed
      /\ request'.rerouted = request.rerouted /\ request'.selector = request.selector
      /\ request'.name = request.name /\ request'.type = request.type
      /\ request'.route = request.route /\ request'.target = request.target
      /\ request'.body = request.body /\ request'.env = request.env
      /\ request'.asked = request.asked /\ request'.usage = request.usage
      /\ request'.failure = request.failure /\ request'.deniedBefore = request.deniedBefore
  BY <1>4 DEF RequestFields
<1>6. request'.steady \subseteq request.steady
  BY <1>4
<1>7. WellFormed'
  BY <1>2, <1>3, <1>4, <1>5, <1>6 DEF RequestsIInv, WellFormed
<1>8. BodiesAreRead' /\ StepsAllowed'
  BY <1>5 DEF RequestsIInv, BodiesAreRead, StepsAllowed
<1>9. RoutedAsResolved'
  BY <1>5 DEF RequestsIInv, RoutedAsResolved
<1>10. SteadyIsFound'
  <2>1. Asks' = Asks /\ Redirected' = Redirected
    BY <1>5 DEF Asks, Redirected
  <2>2. \A k \in request'.steady : k \in request.steady /\ Asks.model \in upstream'[k]
    BY <1>4
  <2>3. \A k \in request.steady : Asks.model \in upstream'[k] => SteadyBy(k)'
    <3> SUFFICES ASSUME NEW k \in request.steady, Asks.model \in upstream'[k] PROVE SteadyBy(k)'
      OBVIOUS
    <3>1. SteadyBy(k)
      BY DEF RequestsIInv, SteadyIsFound
    <3> QED
      BY <1>2, <1>5, <2>1, <3>1 DEF SteadyBy
  <2> QED
    BY <2>2, <2>3 DEF SteadyIsFound
<1>11. Properties'
  <2>1. CallsWhatItResolved'
    BY <1>5 DEF RequestsIInv, CallsWhatItResolved
  <2>2. UsageNamesTheProvider'
    BY <1>5 DEF RequestsIInv, UsageNamesTheProvider
  <2>3. ListedModelsAreFound' /\ PeekedSelectorIsTheBodys'
    BY <1>5, <1>6 DEF RequestsIInv, ListedModelsAreFound, PeekedSelectorIsTheBodys
  <2> QED
    BY <2>1, <2>2, <2>3 DEF Properties
<1> QED
  BY <1>7, <1>8, <1>9, <1>10, <1>11 DEF RequestsIInv, Properties

(* Neither a refresh in the background, which can only bring up to date what *)
(* a steady provider lists, nor a stricter policy disturbs the request.      *)
LEMMA BackgroundKeeps ==
  ASSUME RequestsIInv, BackgroundRefresh \/ PolicyChanges PROVE RequestsIInv'
<1>1. /\ upstream' = upstream /\ request' = request /\ denied \subseteq denied'
      /\ upstream \in Catalogs /\ catalog \in Catalogs
  BY DEF BackgroundRefresh, PolicyChanges, RequestsIInv, WellFormed
<1>2. catalog' \in Catalogs /\ \A n \in Names : catalog'[n] \in {catalog[n], upstream[n]}
  BY <1>1 DEF BackgroundRefresh, PolicyChanges, Catalogs
<1>3. WellFormed'
  BY <1>1, <1>2 DEF RequestsIInv, WellFormed
<1>4. BodiesAreRead' /\ StepsAllowed' /\ RoutedAsResolved'
  BY <1>1 DEF RequestsIInv, BodiesAreRead, StepsAllowed, RoutedAsResolved
<1>5. SteadyIsFound'
  BY <1>1, <1>2 DEF RequestsIInv, SteadyIsFound, SteadyBy, Asks, Redirected
<1>6. Properties'
  BY <1>1 DEF RequestsIInv, Properties, CallsWhatItResolved, UsageNamesTheProvider,
              ListedModelsAreFound, PeekedSelectorIsTheBodys
<1> QED
  BY <1>3, <1>4, <1>5, <1>6 DEF RequestsIInv, Properties

LEMMA RequestsStutter == RequestsIInv /\ UNCHANGED requestVars => RequestsIInv'
<1> SUFFICES ASSUME RequestsIInv, UNCHANGED requestVars PROVE RequestsIInv'
  OBVIOUS
<1>1. UNCHANGED <<upstream, catalog, denied, request>>
  BY DEF requestVars
<1>2. WellFormed' /\ BodiesAreRead' /\ StepsAllowed' /\ RoutedAsResolved'
  BY <1>1 DEF RequestsIInv, WellFormed, BodiesAreRead, StepsAllowed, RoutedAsResolved
<1>3. SteadyIsFound'
  BY <1>1 DEF RequestsIInv, SteadyIsFound, SteadyBy, Asks, Redirected
<1>4. Properties'
  BY <1>1 DEF RequestsIInv, Properties, CallsWhatItResolved, UsageNamesTheProvider,
              ListedModelsAreFound, PeekedSelectorIsTheBodys
<1> QED
  BY <1>2, <1>3, <1>4 DEF RequestsIInv, Properties

(* The inductive invariant: what every step of a request relies on and       *)
(* leaves behind, whatever the registry and the policy do in between.        *)
THEOREM RequestInvariance == Spec => []RequestsIInv
<1>1. ASSUME RequestsIInv, Next PROVE RequestsIInv'
  <2>1. CASE ArriveTranslated \/ CaptureSnapshot \/ NotRewritten \/ Rewrite \/ DeriveWorkflow
    BY <1>1, <2>1, ArriveTranslatedKeeps, CaptureSnapshotKeeps, RewriteKeeps, DeriveWorkflowKeeps
  <2>2. CASE ArriveInternal \/ ArriveService \/ ArrivePassthrough
    BY <1>1, <2>2, ArrivalsKeep
  <2>3. CASE Resolve \/ CheckSupport \/ PrepareService \/ LabelResolution \/ Prepare
    BY <1>1, <2>3, ResolveKeeps, CheckSupportKeeps, PreparationsKeep, LabelResolutionKeeps
  <2>4. CASE RefreshForResolution \/ RefreshForRequest
    BY <1>1, <2>4, RefreshesKeep
  <2>5. CASE Route \/ FindProvider
    BY <1>1, <2>5, RouteKeeps, FindProviderKeeps
  <2>6. CASE \/ ServiceUnsupported \/ CallFails \/ JSONAnswered \/ StreamAnswered
             \/ InternalAnswered \/ ServiceAnswered \/ ProxyPassthroughResponse
    BY <1>1, <2>6, CallsKeep
  <2>7. CASE Passthrough \/ AuthorizePassthrough
    BY <1>1, <2>7, PassthroughKeeps, AuthorizePassthroughKeeps
  <2>8. CASE UpstreamChanges \/ BackgroundRefresh \/ PolicyChanges
    BY <1>1, <2>8, UpstreamChangesKeeps, BackgroundKeeps
  <2> QED
    BY <1>1, <2>1, <2>2, <2>3, <2>4, <2>5, <2>6, <2>7, <2>8 DEF Next
<1>2. RequestsIInv /\ [Next]_requestVars => RequestsIInv'
  BY <1>1, RequestsStutter
<1> QED
  BY <1>2, RequestsBegin, PTL DEF Spec

(* A request is served by the provider and the model that it was resolved to *)
(* and allowed, is charged to them, and is not turned away as unknown while  *)
(* the provider it names lists the model.                                    *)
THEOREM RequestsArrive == Spec => []RequestsReachTheirModel
<1>1. RequestsIInv => RequestsReachTheirModel
  BY DEF RequestsIInv, RequestsReachTheirModel
<1> QED
  BY <1>1, RequestInvariance, PTL

(* The selector a workflow goes by is the one in the body that is decoded    *)
(* and sent, however the body was captured and whether it was rewritten.     *)
THEOREM BodiesDecide == Spec => []PeekedSelectorIsTheBodys
<1>1. RequestsIInv => PeekedSelectorIsTheBodys
  BY DEF RequestsIInv
<1> QED
  BY <1>1, RequestInvariance, PTL

(***************************************************************************)
(* The settings of a request: what a client's API says of them, what the   *)
(* chat request keeps, and what each provider gets.                        *)
(***************************************************************************)
(* What the chat request keeps of the client's settings.                     *)
ChatAsWished(chat) ==
  /\ chat.choice.shape \in {"unset", "word", "object"}
  /\ chat.choice.shape = "unset" => chat.choice = Unset
  /\ chat.choice.shape = "word" => chat.choice.type \in {"auto", "required", "none"}
  /\ chat.choice.shape = "object" => chat.choice.type # ""
  /\ Meaning(chat.choice) = Meaning(wish.choice)
  /\ Meaning(wish.choice) = "tool" => chat.choice.name = wish.choice.name
  /\ chat.choice.shape = "object" /\ chat.choice.type # "function" => wish.api = "chat" /\ chat.choice = wish.choice
  /\ chat.tools = wish.tools /\ chat.parallel = wish.parallel
  /\ chat.reasoning = IF wish.api = "chat" /\ wish.flat THEN "" ELSE WishedEffort
  /\ chat.flat = IF wish.api = "chat" /\ wish.flat THEN WishedEffort ELSE ""
  /\ chat.max = wish.max /\ chat.completion = wish.completion
  /\ chat.format = IF wish.api = "responses" /\ wish.format = "text" THEN "" ELSE wish.format
  /\ chat.stop = wish.stop

(* What a choice on its way to the chat request becomes.                     *)
Converted(c, d) ==
  /\ d.shape \in {"unset", "word", "object"}
  /\ d.shape = "unset" => d = Unset
  /\ d.shape = "word" => d.type \in {"auto", "required", "none"}
  /\ d.shape = "object" => d.type = "function"
  /\ Meaning(d) = Meaning(c)
  /\ Meaning(c) = "tool" => d.name = c.name

LEMMA WordIs ==
  ASSUME NEW type
  PROVE  Word(type).shape = "word" /\ Word(type).type = type /\ Word(type).name = ""
BY DEF Word, Choice

(* Messages: an object of one of its four types becomes a word or a function *)
(* of the same meaning (anthropicapi/request.go:convertToolChoice).          *)
LEMMA MessagesChoiceKeeps ==
  ASSUME NEW c, Known("messages", c)
  PROVE  Converted(c, convertToolChoice(c))
<1>1. c.shape \in {"unset", "word", "object"}
  BY DEF Known
<1>2. CASE c.shape = "unset"
  <2>1. c = Unset /\ Unset.shape = "unset" /\ Unset.type = "" /\ Unset.name = ""
    BY <1>2 DEF Known, Unset, Choice
  <2>2. convertToolChoice(c) = c
    BY <2>1 DEF convertToolChoice
  <2> QED
    BY <1>1, <1>2, <2>1, <2>2 DEF Converted, Meaning
<1>3. CASE c.shape = "object" /\ c.type = "any"
  <2>1. convertToolChoice(c) = Word("required") /\ Meaning(c) = "any"
    BY <1>3 DEF convertToolChoice, Meaning
  <2> QED
    BY <2>1, WordIs DEF Converted, Meaning
<1>4. CASE c.shape = "object" /\ c.type = "tool" /\ c.name # ""
  <2>1. convertToolChoice(c) = Choice("object", "function", c.name) /\ Meaning(c) = "tool"
    BY <1>4 DEF convertToolChoice, Meaning
  <2> QED
    BY <1>1, <2>1 DEF Converted, Meaning, Choice, Unset
<1>5. CASE c.shape = "object" /\ c.type \in {"auto", "none"}
  <2>1. convertToolChoice(c) = Word(c.type) /\ Meaning(c) = c.type
    BY <1>5 DEF convertToolChoice, Meaning
  <2> QED
    BY <1>5, <2>1, WordIs DEF Converted, Meaning
<1>6. \/ c.shape = "unset"
      \/ c.shape = "object" /\ c.type \in {"any", "auto", "none"}
      \/ c.shape = "object" /\ c.type = "tool" /\ c.name # ""
  BY <1>1 DEF Known
<1> QED
  BY <1>2, <1>3, <1>4, <1>5, <1>6

(* Responses: an object that says what a word says becomes the word          *)
(* (responses_adapter.go).                                                   *)
LEMMA ResponsesChoiceKeeps ==
  ASSUME NEW c, Known("responses", c),
         c.shape = "object" => c.type \in {"function", "auto", "required", "none"}
  PROVE  Converted(c, normalizeResponsesToolChoiceForChat(c))
<1>1. c.shape \in {"unset", "word", "object"}
  BY DEF Known
<1>2. CASE c.shape = "object" /\ c.type \in {"auto", "required", "none"}
  <2>1. normalizeResponsesToolChoiceForChat(c) = Word(c.type)
    BY <1>2 DEF normalizeResponsesToolChoiceForChat
  <2> QED
    BY <1>2, <2>1, WordIs DEF Converted, Meaning
<1>3. CASE ~(c.shape = "object" /\ c.type \in {"auto", "required", "none"})
  <2>1. normalizeResponsesToolChoiceForChat(c) = c
    BY <1>3 DEF normalizeResponsesToolChoiceForChat
  <2> QED
    BY <1>1, <1>3, <2>1 DEF Converted, Known
<1> QED
  BY <1>2, <1>3

LEMMA ChatKeeps ==
  ASSUME wish \in Wishes, wish.api = "responses" => validateResponsesRequestForChatTranslation(wish)
  PROVE  ChatAsWished(Chat)
<1>1. Known(wish.api, wish.choice)
  BY WishesAssumption
<1>2. CASE wish.api = "messages"
  <2>1. Chat = ToChatRequest(wish)
    BY <1>2 DEF Chat
  <2>2. /\ Chat.tools = wish.tools /\ Chat.parallel = wish.parallel /\ Chat.flat = ""
        /\ Chat.reasoning = WishedEffort /\ Chat.max = wish.max /\ Chat.completion = wish.completion
        /\ Chat.format = wish.format /\ Chat.stop = wish.stop
        /\ Chat.choice = convertToolChoice(wish.choice)
    BY <1>2, <2>1, WishesAssumption DEF ToChatRequest, WishedEffort
  <2>3. Converted(wish.choice, Chat.choice)
    BY <1>1, <1>2, <2>2, MessagesChoiceKeeps
  <2> QED
    BY <1>2, <2>2, <2>3 DEF ChatAsWished, Converted
<1>3. CASE wish.api = "responses"
  <2>1. Chat = ConvertResponsesSettings(wish)
    BY <1>3 DEF Chat
  <2>2. /\ Chat.tools = wish.tools /\ Chat.parallel = wish.parallel /\ Chat.flat = ""
        /\ Chat.reasoning = WishedEffort /\ Chat.max = wish.max /\ Chat.completion = wish.completion
        /\ Chat.format = IF wish.format = "text" THEN "" ELSE wish.format
        /\ Chat.stop = wish.stop
        /\ Chat.choice = normalizeResponsesToolChoiceForChat(wish.choice)
    BY <1>3, <2>1, WishesAssumption DEF ConvertResponsesSettings, WishedEffort, responsesTextFormatToChatResponseFormat
  <2>3. Converted(wish.choice, Chat.choice)
    BY <1>1, <1>3, <2>2, ResponsesChoiceKeeps DEF validateResponsesRequestForChatTranslation
  <2> QED
    BY <1>3, <2>2, <2>3 DEF ChatAsWished, Converted
<1>4. CASE wish.api = "chat"
  <2>1. Chat = ChatSettings(wish)
    BY <1>4 DEF Chat
  <2>2. /\ Chat.tools = wish.tools /\ Chat.parallel = wish.parallel
        /\ Chat.reasoning = (IF wish.flat THEN "" ELSE WishedEffort)
        /\ Chat.flat = (IF wish.flat THEN WishedEffort ELSE "")
        /\ Chat.max = wish.max /\ Chat.completion = wish.completion
        /\ Chat.format = wish.format /\ Chat.stop = wish.stop /\ Chat.choice = wish.choice
    BY <1>4, <2>1 DEF ChatSettings, WishedEffort
  <2> QED
    BY <1>1, <1>4, <2>2 DEF ChatAsWished, Known
<1> QED
  BY <1>2, <1>3, <1>4, WishesAssumption

(***************************************************************************)
(* What a provider gets keeps what the chat request keeps.                 *)
(***************************************************************************)
LEMMA SentIs ==
  ASSUME NEW tools, NEW choice, NEW name
  PROVE  LET s == Sent(tools, choice, name) IN
         /\ s.tools = tools /\ s.choice = choice /\ s.name = name /\ s.serial = FALSE /\ s.thinking = ""
         /\ s.effort = "" /\ s.budget = 0 /\ s.max = 0 /\ s.format = "" /\ s.stop = FALSE
BY DEF Sent

(* The fields a provider of chat completions gets.                           *)
LEMMA ForwardedIs ==
  ASSUME NEW chat
  PROVE  LET s == Forwarded(chat)
             effort == IF chat.reasoning # "" THEN chat.reasoning ELSE chat.flat
         IN
         /\ s.tools = chat.tools /\ s.name = chat.choice.name
         /\ s.choice = IF chat.choice.type = "required" THEN "any"
                       ELSE IF chat.choice.type = "function" THEN "tool" ELSE chat.choice.type
         /\ s.serial = (chat.parallel = "no")
         /\ s.thinking = (IF effort = "" THEN "" ELSE "level") /\ s.effort = effort /\ s.budget = 0
         /\ s.max = IF chat.max # 0 THEN chat.max ELSE chat.completion
         /\ s.format = chat.format /\ s.stop = chat.stop
<1> DEFINE effort == IF chat.reasoning # "" THEN chat.reasoning ELSE chat.flat
<1>1. CASE effort = ""
  BY <1>1 DEF Forwarded, Sent
<1>2. CASE effort # ""
  BY <1>2 DEF Forwarded, Sent, ByLevel
<1> QED
  BY <1>1, <1>2

LEMMA ForwardedKeeps ==
  ASSUME NEW chat, ChatAsWished(chat), NEW s,
         s.tools = chat.tools, s.name = chat.choice.name, s.serial = (chat.parallel = "no"),
         s.choice = IF chat.choice.type = "required" THEN "any"
                    ELSE IF chat.choice.type = "function" THEN "tool" ELSE chat.choice.type,
         s.format = chat.format, s.stop = chat.stop
  PROVE  /\ ToolsAsWished(s)
         /\ wish.format \notin {"", "text"} => s.format = wish.format
         /\ wish.stop => s.stop
<1>1. wish.format \notin {"", "text"} => s.format = wish.format
  BY DEF ChatAsWished
<1>2. wish.stop => s.stop
  BY DEF ChatAsWished
<1>3. ASSUME wish.tools PROVE s.tools
  BY <1>3 DEF ChatAsWished
<1>4. wish.parallel = "no" => s.serial
  BY DEF ChatAsWished
<1>5. Meaning(wish.choice) = "tool" => s.name = wish.choice.name
  BY DEF ChatAsWished
<1>6. \/ s.choice = Meaning(wish.choice)
      \/ Meaning(wish.choice) = "auto" /\ s.choice = ""
  <2> DEFINE c == chat.choice
  <2>1. c.shape = "unset" => c.type = ""
    <3>1. c.shape = "unset" => c = Unset
      BY DEF ChatAsWished
    <3>2. Unset.type = ""
      BY DEF Unset, Choice
    <3> QED
      BY <3>1, <3>2
  <2>2. Meaning(c) = Meaning(wish.choice)
    BY DEF ChatAsWished
  <2>3. s.choice = IF c.type = "required" THEN "any" ELSE IF c.type = "function" THEN "tool" ELSE c.type
    OBVIOUS
  <2> HIDE DEF c
  <2>4. \/ s.choice = Meaning(c)
        \/ Meaning(c) = "auto" /\ s.choice = ""
    BY <2>1, <2>3 DEF Meaning
  <2> QED
    BY <2>2, <2>4
<1> QED
  BY <1>1, <1>2, <1>3, <1>4, <1>5, <1>6 DEF ToolsAsWished

(* The limit and the effort of a provider of chat completions, of a chat     *)
(* request rewritten for it.                                                 *)
LEMMA LimitKeeps ==
  ASSUME wish \in Wishes, NEW chat, ChatAsWished(chat)
  PROVE  /\ chat.max = wish.max /\ chat.completion = wish.completion
         /\ chat.max \in Nat /\ chat.completion \in Nat
BY WishesAssumption DEF ChatAsWished

\* The fields of a chat request.
IsChat(chat) ==
  DOMAIN chat =
    {"tools", "choice", "parallel", "reasoning", "flat", "max", "completion", "format", "stop"}

(* OpenAI: the limit moves to its new name. *)
LEMMA OpenAIKeeps ==
  ASSUME wish \in Wishes, NEW chat, IsChat(chat), ChatAsWished(chat), wish.provider = "openai"
  PROVE  SettingsAsWished(Forwarded(adaptForReasoningChat(chat)))
<1> DEFINE adapted == adaptForReasoningChat(chat)
           s == Forwarded(adapted)
<1>1. /\ adapted.tools = chat.tools /\ adapted.choice = chat.choice /\ adapted.parallel = chat.parallel
      /\ adapted.reasoning = chat.reasoning /\ adapted.flat = chat.flat
      /\ adapted.format = chat.format /\ adapted.stop = chat.stop
  BY DEF adaptForReasoningChat, IsChat
<1>2. adapted.max = 0 /\ adapted.completion = (IF chat.max # 0 THEN chat.max ELSE chat.completion)
  BY DEF adaptForReasoningChat, IsChat
<1> HIDE DEF adapted
<1>3. /\ s.tools = adapted.tools /\ s.name = adapted.choice.name
      /\ s.choice = IF adapted.choice.type = "required" THEN "any"
                    ELSE IF adapted.choice.type = "function" THEN "tool" ELSE adapted.choice.type
      /\ s.serial = (adapted.parallel = "no")
      /\ s.effort = IF adapted.reasoning # "" THEN adapted.reasoning ELSE adapted.flat
      /\ s.thinking = (IF s.effort = "" THEN "" ELSE "level") /\ s.budget = 0
      /\ s.max = IF adapted.max # 0 THEN adapted.max ELSE adapted.completion
      /\ s.format = adapted.format /\ s.stop = adapted.stop
  BY ForwardedIs
<1> HIDE DEF s
<1>4. /\ ToolsAsWished(s)
      /\ wish.format \notin {"", "text"} => s.format = wish.format
      /\ wish.stop => s.stop
  <2>1. /\ s.tools = chat.tools /\ s.name = chat.choice.name /\ s.serial = (chat.parallel = "no")
        /\ s.choice = IF chat.choice.type = "required" THEN "any"
                      ELSE IF chat.choice.type = "function" THEN "tool" ELSE chat.choice.type
        /\ s.format = chat.format /\ s.stop = chat.stop
    BY <1>1, <1>3
  <2> QED
    BY <2>1, ForwardedKeeps
<1>5. EffortAsWished(s)
  <2>1. s.effort = WishedEffort
    BY <1>1, <1>3 DEF ChatAsWished
  <2> QED
    BY <1>3, <2>1 DEF EffortAsWished, EffortDropped
<1>6. LimitAsWished(s)
  BY <1>2, <1>3, LimitKeeps DEF LimitAsWished, WishedMax
<1> QED
  BY <1>4, <1>5, <1>6 DEF SettingsAsWished, s, adapted

(* Bailian: a limit given under the new name wins. *)
LEMMA BailianKeeps ==
  ASSUME wish \in Wishes, NEW chat, IsChat(chat), ChatAsWished(chat), wish.provider = "bailian"
  PROVE  SettingsAsWished(Forwarded(adaptBailianRequest(chat)))
<1> DEFINE adapted == adaptBailianRequest(chat)
           s == Forwarded(adapted)
<1>1. /\ adapted.tools = chat.tools /\ adapted.choice = chat.choice /\ adapted.parallel = chat.parallel
      /\ adapted.reasoning = chat.reasoning /\ adapted.flat = chat.flat
      /\ adapted.format = chat.format /\ adapted.stop = chat.stop
  BY DEF adaptBailianRequest, IsChat
<1>2. adapted.max = 0 /\ adapted.completion = (IF chat.completion # 0 THEN chat.completion ELSE chat.max)
  BY DEF adaptBailianRequest, IsChat
<1> HIDE DEF adapted
<1>3. /\ s.tools = adapted.tools /\ s.name = adapted.choice.name
      /\ s.choice = IF adapted.choice.type = "required" THEN "any"
                    ELSE IF adapted.choice.type = "function" THEN "tool" ELSE adapted.choice.type
      /\ s.serial = (adapted.parallel = "no")
      /\ s.effort = IF adapted.reasoning # "" THEN adapted.reasoning ELSE adapted.flat
      /\ s.thinking = (IF s.effort = "" THEN "" ELSE "level") /\ s.budget = 0
      /\ s.max = IF adapted.max # 0 THEN adapted.max ELSE adapted.completion
      /\ s.format = adapted.format /\ s.stop = adapted.stop
  BY ForwardedIs
<1> HIDE DEF s
<1>4. /\ ToolsAsWished(s)
      /\ wish.format \notin {"", "text"} => s.format = wish.format
      /\ wish.stop => s.stop
  <2>1. /\ s.tools = chat.tools /\ s.name = chat.choice.name /\ s.serial = (chat.parallel = "no")
        /\ s.choice = IF chat.choice.type = "required" THEN "any"
                      ELSE IF chat.choice.type = "function" THEN "tool" ELSE chat.choice.type
        /\ s.format = chat.format /\ s.stop = chat.stop
    BY <1>1, <1>3
  <2> QED
    BY <2>1, ForwardedKeeps
<1>5. EffortAsWished(s)
  <2>1. s.effort = WishedEffort
    BY <1>1, <1>3 DEF ChatAsWished
  <2> QED
    BY <1>3, <2>1 DEF EffortAsWished, EffortDropped
<1>6. LimitAsWished(s)
  BY <1>2, <1>3, LimitKeeps DEF LimitAsWished, WishedMax
<1> QED
  BY <1>4, <1>5, <1>6 DEF SettingsAsWished, s, adapted

LEMMA NormalizedIsGiven ==
  ASSUME NEW effort
  PROVE  /\ normalizeReasoningEffort(effort) = "" <=> effort = ""
         /\ normalizeReasoningEffort("") = ""
BY DEF normalizeReasoningEffort

(* DeepSeek and the others: the effort becomes a plain field. *)
LEMMA EffortFieldKeeps ==
  ASSUME wish \in Wishes, NEW chat, IsChat(chat), ChatAsWished(chat), NEW effort,
         wish.provider \notin {"anthropic", "gemini", "bedrock", "openai", "bailian"},
         effort = IF wish.provider = "deepseek" THEN normalizeReasoningEffort(chat.reasoning) ELSE chat.reasoning
  PROVE  SettingsAsWished(Forwarded(AdaptReasoningEffortRequest(chat, effort)))
<1> DEFINE adapted == AdaptReasoningEffortRequest(chat, effort)
           s == Forwarded(adapted)
<1>1. /\ adapted.tools = chat.tools /\ adapted.choice = chat.choice /\ adapted.parallel = chat.parallel
      /\ adapted.reasoning = ""
      /\ adapted.flat = (IF chat.reasoning = "" THEN chat.flat ELSE effort)
      /\ adapted.format = chat.format /\ adapted.stop = chat.stop
  BY DEF AdaptReasoningEffortRequest, IsChat
<1>2. adapted.max = chat.max /\ adapted.completion = chat.completion
  BY DEF AdaptReasoningEffortRequest, IsChat
<1> HIDE DEF adapted
<1>3. /\ s.tools = adapted.tools /\ s.name = adapted.choice.name
      /\ s.choice = IF adapted.choice.type = "required" THEN "any"
                    ELSE IF adapted.choice.type = "function" THEN "tool" ELSE adapted.choice.type
      /\ s.serial = (adapted.parallel = "no")
      /\ s.effort = IF adapted.reasoning # "" THEN adapted.reasoning ELSE adapted.flat
      /\ s.thinking = (IF s.effort = "" THEN "" ELSE "level") /\ s.budget = 0
      /\ s.max = IF adapted.max # 0 THEN adapted.max ELSE adapted.completion
      /\ s.format = adapted.format /\ s.stop = adapted.stop
  BY ForwardedIs
<1> HIDE DEF s
<1>4. /\ ToolsAsWished(s)
      /\ wish.format \notin {"", "text"} => s.format = wish.format
      /\ wish.stop => s.stop
  <2>1. /\ s.tools = chat.tools /\ s.name = chat.choice.name /\ s.serial = (chat.parallel = "no")
        /\ s.choice = IF chat.choice.type = "required" THEN "any"
                      ELSE IF chat.choice.type = "function" THEN "tool" ELSE chat.choice.type
        /\ s.format = chat.format /\ s.stop = chat.stop
    BY <1>1, <1>3
  <2> QED
    BY <2>1, ForwardedKeeps
<1>5. EffortAsWished(s)
  <2>1. s.effort = IF wish.provider = "deepseek" /\ ~(wish.api = "chat" /\ wish.flat)
                   THEN normalizeReasoningEffort(WishedEffort) ELSE WishedEffort
    <3>1. s.effort = IF chat.reasoning = "" THEN chat.flat ELSE effort
      BY <1>1, <1>3
    <3>2. CASE wish.api = "chat" /\ wish.flat
      BY <3>1, <3>2 DEF ChatAsWished
    <3>3. CASE ~(wish.api = "chat" /\ wish.flat)
      <4>1. chat.reasoning = WishedEffort /\ chat.flat = ""
        BY <3>3 DEF ChatAsWished
      <4>2. effort = IF wish.provider = "deepseek" THEN normalizeReasoningEffort(WishedEffort) ELSE WishedEffort
        BY <4>1
      <4>3. WishedEffort = "" => normalizeReasoningEffort(WishedEffort) = ""
        BY NormalizedIsGiven
      <4> QED
        BY <3>1, <3>3, <4>1, <4>2, <4>3
    <3> QED
      BY <3>2, <3>3
  <2>2. wish.provider = "deepseek" /\ ~(wish.api = "chat" /\ wish.flat) /\ WishedEffort \in KnownEfforts
          => normalizeReasoningEffort(WishedEffort) = WishedEffort
    BY DEF normalizeReasoningEffort, KnownEfforts
  <2>3. s.effort = "" <=> WishedEffort = ""
    BY <2>1, NormalizedIsGiven
  <2>4. s.thinking = (IF s.effort = "" THEN "" ELSE "level") /\ s.budget = 0
    BY <1>3
  <2>5. ~EffortDropped
    BY DEF EffortDropped
  <2> QED
    BY <2>1, <2>2, <2>3, <2>4, <2>5 DEF EffortAsWished
<1>6. LimitAsWished(s)
  BY <1>2, <1>3, LimitKeeps DEF LimitAsWished, WishedMax
<1> QED
  BY <1>4, <1>5, <1>6 DEF SettingsAsWished, s, adapted

LEMMA ChatHasFields == IsChat(Chat)
BY DEF IsChat, Chat, ToChatRequest, ConvertResponsesSettings, ChatSettings

(* Bedrock: limits and tools, no tools for the choice to use none.           *)
LEMMA BedrockKeeps ==
  ASSUME wish \in Wishes, NEW chat, ChatAsWished(chat), wish.provider = "bedrock"
  PROVE  SettingsAsWished(buildConverseParts(chat))
<1> DEFINE c == chat.choice
           s == buildConverseParts(chat)
           none == ~chat.tools \/ c.type = "none"
<1>1. /\ s.max = IF chat.max # 0 THEN chat.max ELSE chat.completion
      /\ s.thinking = "" /\ s.effort = "" /\ s.budget = 0
  BY DEF buildConverseParts, convertToolsToConverse, Sent
<1>2. s.tools = ~none
  BY DEF buildConverseParts, convertToolsToConverse, isToolChoiceNone, IsNone, Sent
<1>3. ~none => /\ s.name = c.name
               /\ s.choice = IF c.shape = "unset" THEN ""
                             ELSE IF c.type = "required" THEN "any"
                             ELSE IF c.type = "function" THEN "tool" ELSE c.type
  BY DEF buildConverseParts, convertToolsToConverse, convertToolChoiceToConverse, isToolChoiceNone, IsNone, Sent
<1> HIDE DEF s
<1>4. chat.tools = wish.tools /\ Meaning(c) = Meaning(wish.choice)
  BY DEF ChatAsWished
<1>5. Meaning(wish.choice) = "tool" => c.name = wish.choice.name
  BY DEF ChatAsWished
<1>6. c.shape = "unset" => c.type = ""
  <2>1. c.shape = "unset" => c = Unset
    BY DEF ChatAsWished
  <2>2. Unset.type = ""
    BY DEF Unset, Choice
  <2> QED
    BY <2>1, <2>2
<1> HIDE DEF c
<1>7. ToolsAsWished(s)
  BY <1>2, <1>3, <1>4, <1>5, <1>6 DEF ToolsAsWished, Meaning
<1>8. EffortAsWished(s) /\ LimitAsWished(s)
  BY <1>1, LimitKeeps DEF EffortAsWished, EffortDropped, LimitAsWished, WishedMax
<1> QED
  BY <1>7, <1>8 DEF SettingsAsWished, s

\* The fields of what a provider gets.
SentFields ==
  {"tools", "choice", "name", "serial", "thinking", "effort", "budget", "max", "format", "stop"}

\* What Gemini is told of an effort.
GeminiTold(effort, s) ==
  IF effort = "" THEN s.thinking = "" /\ s.effort = "" /\ s.budget = 0
  ELSE IF wish.model # "gemini-2.5"
       THEN s.thinking = "level" /\ s.budget = 0 /\ s.effort = IF effort = "none" THEN "minimal" ELSE effort
       ELSE /\ s.effort = ""
            /\ s.thinking = IF effort \in {"none", "minimal", "low", "medium", "high"} THEN "budget" ELSE ""
            /\ s.budget = IF effort \in {"minimal", "low"} THEN 1
                          ELSE IF effort = "medium" THEN 8 ELSE IF effort = "high" THEN 24 ELSE 0

LEMMA GeminiIs ==
  ASSUME NEW chat
  PROVE  LET s == geminiGenerationConfig(chat)
             c == chat.choice
         IN  /\ s.tools = chat.tools /\ s.name = c.name
             /\ s.choice = IF c.type = "function" THEN "tool"
                           ELSE IF c.shape = "word" /\ c.type = "required" THEN "any"
                           ELSE IF c.shape = "word" /\ c.type \in {"none", "auto"} THEN c.type ELSE ""
             /\ s.max = IF chat.max # 0 THEN chat.max ELSE chat.completion
             /\ s.format = IF chat.format = "text" THEN "" ELSE chat.format
             /\ s.stop = chat.stop
             /\ GeminiTold(chat.reasoning, s)
<1> DEFINE choice == geminiToolConfigFromOpenAI(chat.choice)
           max == IF chat.max # 0 THEN chat.max ELSE chat.completion
           format == IF chat.format = "text" THEN "" ELSE chat.format
           plain == [Sent(chat.tools, choice, chat.choice.name) EXCEPT
                       !.max = max, !.format = format, !.stop = chat.stop]
           effort == chat.reasoning
           s == thinkingConfigForEffort(plain, effort)
<1>1. geminiGenerationConfig(chat) = s
  BY DEF geminiGenerationConfig
<1>2. choice = IF chat.choice.type = "function" THEN "tool"
               ELSE IF chat.choice.shape = "word" /\ chat.choice.type = "required" THEN "any"
               ELSE IF chat.choice.shape = "word" /\ chat.choice.type \in {"none", "auto"} THEN chat.choice.type
               ELSE ""
  BY DEF geminiToolConfigFromOpenAI
<1> HIDE DEF choice, max, format, effort
<1>3. /\ DOMAIN plain = SentFields
      /\ plain.tools = chat.tools /\ plain.choice = choice /\ plain.name = chat.choice.name
      /\ plain.thinking = "" /\ plain.effort = "" /\ plain.budget = 0
      /\ plain.max = max /\ plain.format = format /\ plain.stop = chat.stop
  BY DEF Sent, SentFields
<1> HIDE DEF plain
<1>4. /\ s.tools = chat.tools /\ s.choice = choice /\ s.name = chat.choice.name
      /\ s.max = max /\ s.format = format /\ s.stop = chat.stop
  BY <1>3 DEF thinkingConfigForEffort, ByLevel, ByBudget, SentFields
<1>5. GeminiTold(effort, s)
  <2>1. CASE effort = ""
    BY <1>3, <2>1 DEF GeminiTold, thinkingConfigForEffort
  <2>2. CASE effort # "" /\ wish.model # "gemini-2.5"
    BY <1>3, <2>2 DEF GeminiTold, thinkingConfigForEffort, ByLevel, SentFields
  <2>3. CASE effort # "" /\ wish.model = "gemini-2.5"
    BY <1>3, <2>3 DEF GeminiTold, thinkingConfigForEffort, ByBudget, SentFields
  <2> QED
    BY <2>1, <2>2, <2>3
<1> QED
  BY <1>1, <1>2, <1>4, <1>5 DEF max, format, effort

(* Gemini's native API: of the objects only a function is known.             *)
LEMMA GeminiKeeps ==
  ASSUME wish \in Wishes, NEW chat, ChatAsWished(chat), wish.provider = "gemini"
  PROVE  SettingsAsWished(geminiGenerationConfig(chat))
<1> DEFINE c == chat.choice
           s == geminiGenerationConfig(chat)
<1>1. /\ s.tools = chat.tools /\ s.name = c.name
      /\ s.choice = IF c.type = "function" THEN "tool"
                    ELSE IF c.shape = "word" /\ c.type = "required" THEN "any"
                    ELSE IF c.shape = "word" /\ c.type \in {"none", "auto"} THEN c.type ELSE ""
      /\ s.max = IF chat.max # 0 THEN chat.max ELSE chat.completion
      /\ s.format = IF chat.format = "text" THEN "" ELSE chat.format
      /\ s.stop = chat.stop
      /\ GeminiTold(chat.reasoning, s)
  BY GeminiIs
<1> HIDE DEF s
<1>2. chat.tools = wish.tools /\ Meaning(c) = Meaning(wish.choice)
  BY DEF ChatAsWished
<1>3. Meaning(wish.choice) = "tool" => c.name = wish.choice.name
  BY DEF ChatAsWished
<1>4. /\ c.shape \in {"unset", "word", "object"}
      /\ c.shape = "unset" => c.type = ""
      /\ c.shape = "word" => c.type \in {"auto", "required", "none"}
      /\ c.shape = "object" /\ c.type # "function" => wish.api = "chat" /\ c = wish.choice
  <2>1. c.shape = "unset" => c = Unset
    BY DEF ChatAsWished
  <2>2. Unset.type = ""
    BY DEF Unset, Choice
  <2> QED
    BY <2>1, <2>2 DEF ChatAsWished
<1>5. EffortAsWished(s)
  <2>1. chat.reasoning = IF wish.api = "chat" /\ wish.flat THEN "" ELSE WishedEffort
    BY DEF ChatAsWished
  <2>2. CASE WishedEffort = "" \/ EffortDropped
    BY <1>1, <2>1, <2>2 DEF EffortAsWished, EffortDropped, GeminiTold
  <2>3. CASE WishedEffort # "" /\ ~EffortDropped
    <3>1. chat.reasoning = WishedEffort
      BY <2>1, <2>3 DEF EffortDropped
    <3>2. WishedEffort \in KnownEfforts => WishedEffort # "none"
      BY DEF KnownEfforts
    <3>3. GeminiTold(WishedEffort, s)
      BY <1>1, <3>1
    <3>4. CASE wish.model # "gemini-2.5"
      BY <2>3, <3>2, <3>3, <3>4 DEF EffortAsWished, GeminiTold
    <3>5. CASE wish.model = "gemini-2.5"
      <4>1. WishedEffort \in {"none", "minimal", "low", "medium", "high"}
        BY <2>3, <3>5 DEF EffortDropped
      <4>2. s.thinking = "budget" /\ s.effort = ""
        BY <2>3, <3>3, <3>5, <4>1 DEF GeminiTold
      <4>3. s.budget = IF WishedEffort \in {"minimal", "low"} THEN 1
                     ELSE IF WishedEffort = "medium" THEN 8 ELSE IF WishedEffort = "high" THEN 24 ELSE 0
        BY <2>3, <3>3, <3>5, <4>1 DEF GeminiTold
      <4>4. WishedEffort # "none" => s.budget > 0
        BY <4>1, <4>3
      <4> QED
        BY <2>3, <4>2, <4>4 DEF EffortAsWished
    <3> QED
      BY <3>4, <3>5
  <2> QED
    BY <2>2, <2>3
<1>6. LimitAsWished(s)
  BY <1>1, LimitKeeps DEF LimitAsWished, WishedMax
<1>7. /\ wish.format \notin {"", "text"} => s.format = wish.format
      /\ wish.stop => s.stop
  BY <1>1 DEF ChatAsWished
<1> HIDE DEF c
<1>8. ToolsAsWished(s)
  <2>1. SUFFICES ASSUME wish.tools, ~ChoiceIgnored
                 PROVE  IF Meaning(wish.choice) = "none" THEN ~s.tools \/ s.choice = "none"
                        ELSE /\ s.tools
                             /\ s.choice = Meaning(wish.choice) \/ (Meaning(wish.choice) = "auto" /\ s.choice = "")
                             /\ Meaning(wish.choice) = "tool" => s.name = wish.choice.name
    BY DEF ToolsAsWished
  <2>2. ~(c.shape = "object" /\ c.type # "function")
    BY <1>4, <2>1 DEF ChoiceIgnored
  <2>3. s.choice = Meaning(c) \/ (Meaning(c) = "auto" /\ s.choice = "")
    BY <1>1, <1>4, <2>2 DEF Meaning
  <2> QED
    BY <1>1, <1>2, <1>3, <2>1, <2>3
<1> QED
  BY <1>5, <1>6, <1>7, <1>8 DEF SettingsAsWished, s

(* Anthropic: no tools for the choice to use none; a choice is needed to ask *)
(* for one call at a time; the limit leaves room for the thinking.           *)
\* What Anthropic is told of an effort.
AnthropicTold(effort, s) ==
  IF effort = "" THEN s.thinking = "" /\ s.effort = "" /\ s.budget = 0
  ELSE IF wish.model = "adaptive" THEN s.thinking = "level" /\ s.effort = normalizeEffort(effort) /\ s.budget = 0
  ELSE s.thinking = "budget" /\ s.effort = "" /\ s.budget = reasoningEffortToBudgetTokens(effort)

\* What thinking makes of a request.
Applied(asked, effort, s) ==
  /\ s.tools = asked.tools /\ s.choice = asked.choice /\ s.name = asked.name
  /\ s.serial = asked.serial /\ s.stop = asked.stop
  /\ AnthropicTold(effort, s)
  /\ LET budget == reasoningEffortToBudgetTokens(effort) IN
     \/ s.budget = asked.budget /\ s.max = asked.max
     \/ s.budget = budget /\ s.max = IF asked.max <= budget THEN budget + 1 ELSE asked.max

LEMMA ReasoningApplied ==
  ASSUME NEW asked, DOMAIN asked = SentFields, NEW effort,
         asked.thinking = "", asked.effort = "", asked.budget = 0
  PROVE  Applied(asked, effort, applyReasoning(asked, effort))
<1> SUFFICES ASSUME NEW s, s = applyReasoning(asked, effort)
             PROVE  Applied(asked, effort, s)
  OBVIOUS
<1> USE DEF Applied, AnthropicTold
<1> DEFINE budget == reasoningEffortToBudgetTokens(effort)
           raised == IF asked.max <= budget THEN budget + 1 ELSE asked.max
<1>1. CASE effort = ""
  BY <1>1 DEF applyReasoning
<1>2. CASE effort # "" /\ wish.model = "adaptive"
  <2>1. s = [asked EXCEPT !.thinking = "level", !.effort = normalizeEffort(effort)]
    BY <1>2 DEF applyReasoning, ByLevel
  <2> QED
    BY <1>2, <2>1 DEF SentFields
<1>3. CASE effort # "" /\ wish.model # "adaptive"
  <2>1. s = [asked EXCEPT !.thinking = "budget", !.budget = budget, !.max = raised]
    BY <1>3 DEF applyReasoning, ByBudget, SentFields
  <2>2. s.thinking = "budget" /\ s.budget = budget /\ s.max = raised
    BY <2>1 DEF SentFields
  <2>3. /\ s.tools = asked.tools /\ s.choice = asked.choice /\ s.name = asked.name
        /\ s.serial = asked.serial /\ s.stop = asked.stop /\ s.effort = ""
    <3> HIDE DEF budget, raised
    <3> QED
      BY <2>1 DEF SentFields
  <2> QED
    BY <1>3, <2>2, <2>3
<1> QED
  BY <1>1, <1>2, <1>3

LEMMA RoomIsLeft ==
  ASSUME NEW limit \in Nat, limit # 0, NEW effort, NEW b, NEW m,
         LET budget == reasoningEffortToBudgetTokens(effort) IN
         \/ b = 0 /\ m = limit
         \/ b = budget /\ m = IF limit <= budget THEN budget + 1 ELSE limit
  PROVE  m > b /\ m \in {limit, b + 1}
<1> DEFINE budget == reasoningEffortToBudgetTokens(effort)
<1>1. budget \in Nat
  BY DEF reasoningEffortToBudgetTokens
<1> HIDE DEF budget
<1>2. \/ b = 0 /\ m = limit
      \/ b = budget /\ m = IF limit <= budget THEN budget + 1 ELSE limit
  BY DEF budget
<1> QED
  BY <1>1, <1>2

\* A request to Anthropic before its thinking.
Limited(tools, choice, name, serial, limit, stop) ==
  [Sent(tools, choice, name) EXCEPT !.serial = serial, !.max = limit, !.stop = stop]

LEMMA AnthropicKeeps ==
  ASSUME wish \in Wishes, NEW chat, ChatAsWished(chat), wish.provider = "anthropic",
         ~AnthropicRefusesSettings(chat)
  PROVE  SettingsAsWished(convertSettingsToAnthropic(chat))
<1> DEFINE c == chat.choice
           tools == chat.tools /\ ~IsNone(c)
           chosen == convertOpenAIToolChoiceToAnthropic(c)
           choice == IF chosen = "" /\ chat.parallel = "no" THEN "auto" ELSE chosen
           effort == IF chat.reasoning # "" THEN chat.reasoning ELSE chat.flat
           asked == [Sent(tools, IF tools THEN choice ELSE "", c.name) EXCEPT
                         !.serial = tools /\ choice # "" /\ chat.parallel = "no",
                         !.max = IF chat.max # 0 THEN chat.max ELSE resolveDefaultMaxTokens,
                         !.stop = chat.stop]
           s == applyReasoning(asked, effort)
<1>0. convertSettingsToAnthropic(chat) = s
  BY DEF convertSettingsToAnthropic
<1> DEFINE named == IF tools THEN choice ELSE ""
           serial == tools /\ choice # "" /\ chat.parallel = "no"
           limit == IF chat.max # 0 THEN chat.max ELSE resolveDefaultMaxTokens
<1>1. /\ asked.tools = tools /\ asked.choice = named /\ asked.name = c.name /\ asked.serial = serial
      /\ asked.max = limit /\ asked.stop = chat.stop
      /\ asked.thinking = "" /\ asked.budget = 0 /\ asked.effort = ""
  <2>1. asked = Limited(tools, named, c.name, serial, limit, chat.stop)
    BY DEF Limited
  <2> HIDE DEF tools, named, c, serial, limit, asked
  <2> QED
    BY <2>1 DEF Limited, Sent, SentFields
<1>2. DOMAIN asked = SentFields
  <2>1. asked = Limited(tools, named, c.name, serial, limit, chat.stop)
    BY DEF Limited
  <2> HIDE DEF tools, named, c, serial, limit, asked
  <2> QED
    BY <2>1 DEF Limited, Sent, SentFields
<1>3. limit \in Nat /\ limit # 0 /\ limit = IF wish.max # 0 THEN wish.max ELSE 4
  BY LimitKeeps DEF resolveDefaultMaxTokens
<1> HIDE DEF tools, named, serial, limit, asked, effort
<1> DEFINE budget == reasoningEffortToBudgetTokens(effort)
<1>r. /\ s.tools = asked.tools /\ s.choice = asked.choice /\ s.name = asked.name
      /\ s.serial = asked.serial /\ s.stop = asked.stop
      /\ AnthropicTold(effort, s)
      /\ \/ s.budget = asked.budget /\ s.max = asked.max
         \/ s.budget = budget /\ s.max = IF asked.max <= budget THEN budget + 1 ELSE asked.max
  <2>1. Applied(asked, effort, s)
    BY <1>1, <1>2, ReasoningApplied
  <2> HIDE DEF s
  <2> QED
    BY <2>1 DEF Applied
<1> HIDE DEF s, budget
<1>4. /\ s.tools = tools /\ s.choice = named /\ s.name = c.name /\ s.serial = serial /\ s.stop = chat.stop
      /\ AnthropicTold(effort, s)
  BY <1>1, <1>r
<1>5. /\ c.shape = "unset" => c.type = ""
      /\ c.shape = "object" => c.type # "" /\ c.type # "required"
      /\ c.shape = "word" => c.type # ""
      /\ c.shape \in {"unset", "word", "object"}
  <2>1. c.shape = "unset" => c = Unset
    BY DEF ChatAsWished
  <2>2. Unset.type = ""
    BY DEF Unset, Choice
  <2> QED
    BY <2>1, <2>2 DEF ChatAsWished, AnthropicRefusesSettings, AnthropicRefusesChoice
<1>6. chat.tools = wish.tools /\ chat.parallel = wish.parallel /\ Meaning(c) = Meaning(wish.choice)
  BY DEF ChatAsWished
<1>7. Meaning(wish.choice) = "tool" => c.name = wish.choice.name
  BY DEF ChatAsWished
<1>8. EffortAsWished(s)
  <2>1. effort = WishedEffort
    BY DEF ChatAsWished, effort
  <2>2. ~EffortDropped /\ KnownEfforts = ValidEfforts
    BY DEF EffortDropped, KnownEfforts
  <2>3. WishedEffort \in ValidEfforts => normalizeEffort(WishedEffort) = WishedEffort
    BY DEF ValidEfforts, normalizeEffort
  <2>4. reasoningEffortToBudgetTokens(WishedEffort) > 0
    BY DEF reasoningEffortToBudgetTokens
  <2> QED
    BY <1>4, <2>1, <2>2, <2>3, <2>4 DEF EffortAsWished, AnthropicTold
<1>9. LimitAsWished(s)
  <2>1. \/ s.budget = 0 /\ s.max = limit
        \/ s.budget = budget /\ s.max = IF limit <= budget THEN budget + 1 ELSE limit
    BY <1>1, <1>r
  <2>2. s.max > s.budget /\ s.max \in {limit, s.budget + 1}
    BY <1>3, <2>1, RoomIsLeft DEF budget
  <2> QED
    BY <1>3, <2>2 DEF LimitAsWished
<1>10. wish.stop => s.stop
  BY <1>4 DEF ChatAsWished
<1>11. wish.format \in {"", "text"}
  BY DEF AnthropicRefusesSettings, ChatAsWished
<1> HIDE DEF c
<1>12. ToolsAsWished(s)
  <2>1. Meaning(c) = "none" <=> IsNone(c)
    BY <1>5 DEF Meaning, IsNone
  <2>2. CASE Meaning(c) = "none"
    BY <1>4, <1>6, <2>1, <2>2 DEF ToolsAsWished, tools
  <2>3. CASE Meaning(c) # "none"
    <3>1. chosen = Meaning(c) \/ (Meaning(c) = "auto" /\ chosen = "")
      BY <1>5, <2>1, <2>3 DEF convertOpenAIToolChoiceToAnthropic, Meaning
    <3>2. chosen = "" => Meaning(c) = "auto"
      BY <1>5, <2>1, <2>3 DEF convertOpenAIToolChoiceToAnthropic, Meaning
    <3> HIDE DEF chosen
    <3>3. choice = Meaning(c) \/ (Meaning(c) = "auto" /\ choice = "")
      BY <3>1, <3>2
    <3>4. chat.parallel = "no" => choice # ""
      OBVIOUS
    <3> HIDE DEF choice
    <3>5. wish.tools => tools
      BY <1>6, <2>1, <2>3 DEF tools
    <3> QED
      BY <1>4, <1>6, <1>7, <2>3, <3>3, <3>4, <3>5 DEF ToolsAsWished, named, serial
  <2> QED
    BY <2>2, <2>3
<1> QED
  BY <1>0, <1>8, <1>9, <1>10, <1>11, <1>12 DEF SettingsAsWished, s

LEMMA ProviderKeeps ==
  ASSUME wish \in Wishes, wish.api = "responses" => validateResponsesRequestForChatTranslation(wish),
         wish.provider = "anthropic" => ~AnthropicRefusesSettings(Chat)
  PROVE  SettingsAsWished(ToProvider(Chat))
<1>1. ChatAsWished(Chat)
  BY ChatKeeps
<1>2. IsChat(Chat)
  BY ChatHasFields
<1>3. CASE wish.provider = "anthropic"
  BY <1>1, <1>3, AnthropicKeeps DEF ToProvider
<1>4. CASE wish.provider = "gemini"
  BY <1>1, <1>4, GeminiKeeps DEF ToProvider
<1>5. CASE wish.provider = "bedrock"
  BY <1>1, <1>5, BedrockKeeps DEF ToProvider
<1>6. CASE wish.provider = "openai"
  BY <1>1, <1>2, <1>6, OpenAIKeeps DEF ToProvider
<1>7. CASE wish.provider = "bailian"
  BY <1>1, <1>2, <1>7, BailianKeeps DEF ToProvider
<1>8. CASE wish.provider \notin {"anthropic", "gemini", "bedrock", "openai", "bailian"}
  <2> DEFINE effort == IF wish.provider = "deepseek" THEN normalizeReasoningEffort(Chat.reasoning)
                       ELSE Chat.reasoning
  <2>1. SettingsAsWished(Forwarded(AdaptReasoningEffortRequest(Chat, effort)))
    BY <1>1, <1>2, <1>8, EffortFieldKeeps
  <2>2. ToProvider(Chat) = Forwarded(AdaptReasoningEffortRequest(Chat, effort))
    BY <1>8 DEF ToProvider
  <2> QED
    BY <2>1, <2>2
<1> QED
  BY <1>3, <1>4, <1>5, <1>6, <1>7, <1>8

(***************************************************************************)
(* A weaker effort asks for no more thinking.                              *)
(***************************************************************************)
\* What a provider is told of the effort in the object and in the plain field.
Told(reasoning, flat, s) ==
  LET given == IF wish.provider = "deepseek" THEN normalizeReasoningEffort(reasoning) ELSE reasoning
      effort == IF reasoning # "" THEN given ELSE flat
  IN  IF wish.provider = "anthropic" THEN AnthropicTold(effort, s)
      ELSE IF wish.provider = "gemini" THEN GeminiTold(reasoning, s)
      ELSE IF wish.provider = "bedrock" THEN s.thinking = ""
      ELSE s.thinking = (IF effort = "" THEN "" ELSE "level") /\ s.effort = effort

LEMMA AnthropicTells ==
  ASSUME NEW chat
  PROVE  AnthropicTold(IF chat.reasoning # "" THEN chat.reasoning ELSE chat.flat, convertSettingsToAnthropic(chat))
<1> DEFINE c == chat.choice
           tools == chat.tools /\ ~IsNone(c)
           chosen == convertOpenAIToolChoiceToAnthropic(c)
           choice == IF chosen = "" /\ chat.parallel = "no" THEN "auto" ELSE chosen
           named == IF tools THEN choice ELSE ""
           serial == tools /\ choice # "" /\ chat.parallel = "no"
           limit == IF chat.max # 0 THEN chat.max ELSE resolveDefaultMaxTokens
           asked == Limited(tools, named, c.name, serial, limit, chat.stop)
           effort == IF chat.reasoning # "" THEN chat.reasoning ELSE chat.flat
<1>1. convertSettingsToAnthropic(chat) = applyReasoning(asked, effort)
  BY DEF convertSettingsToAnthropic, Limited
<1> HIDE DEF tools, named, c, serial, limit, effort
<1>2. DOMAIN asked = SentFields /\ asked.thinking = "" /\ asked.effort = "" /\ asked.budget = 0
  BY DEF Limited, Sent, SentFields
<1> HIDE DEF asked
<1>3. Applied(asked, effort, applyReasoning(asked, effort))
  BY <1>2, ReasoningApplied
<1>4. AnthropicTold(effort, applyReasoning(asked, effort))
  BY <1>3 DEF Applied
<1> QED
  BY <1>1, <1>4 DEF effort

LEMMA ProviderTells ==
  ASSUME NEW chat, IsChat(chat)
  PROVE  Told(chat.reasoning, chat.flat, ToProvider(chat))
<1> DEFINE s == ToProvider(chat)
<1>1. CASE wish.provider = "anthropic"
  BY <1>1, AnthropicTells DEF Told, ToProvider
<1>2. CASE wish.provider = "gemini"
  <2>1. s = geminiGenerationConfig(chat)
    BY <1>2 DEF ToProvider
  <2>2. GeminiTold(chat.reasoning, geminiGenerationConfig(chat))
    BY GeminiIs
  <2> QED
    BY <1>2, <2>1, <2>2 DEF Told
<1>3. CASE wish.provider = "bedrock"
  <2>1. s = buildConverseParts(chat)
    BY <1>3 DEF ToProvider
  <2>2. s.thinking = ""
    BY <2>1 DEF buildConverseParts, convertToolsToConverse, Sent
  <2> QED
    BY <1>3, <2>2 DEF Told
<1>4. CASE wish.provider = "openai"
  <2> DEFINE adapted == adaptForReasoningChat(chat)
  <2>1. s = Forwarded(adapted)
    BY <1>4 DEF ToProvider
  <2>2. adapted.reasoning = chat.reasoning /\ adapted.flat = chat.flat
    BY DEF adaptForReasoningChat, IsChat
  <2> HIDE DEF adapted
  <2> DEFINE effort == IF chat.reasoning # "" THEN chat.reasoning ELSE chat.flat
  <2>3. s.thinking = (IF effort = "" THEN "" ELSE "level") /\ s.effort = effort
    BY <2>1, <2>2, ForwardedIs
  <2> QED
    BY <1>4, <2>3 DEF Told
<1>5. CASE wish.provider = "bailian"
  <2> DEFINE adapted == adaptBailianRequest(chat)
  <2>1. s = Forwarded(adapted)
    BY <1>5 DEF ToProvider
  <2>2. adapted.reasoning = chat.reasoning /\ adapted.flat = chat.flat
    BY DEF adaptBailianRequest, IsChat
  <2> HIDE DEF adapted
  <2> DEFINE effort == IF chat.reasoning # "" THEN chat.reasoning ELSE chat.flat
  <2>3. s.thinking = (IF effort = "" THEN "" ELSE "level") /\ s.effort = effort
    BY <2>1, <2>2, ForwardedIs
  <2> QED
    BY <1>5, <2>3 DEF Told
<1>6. CASE wish.provider \notin {"anthropic", "gemini", "bedrock", "openai", "bailian"}
  <2> DEFINE given == IF wish.provider = "deepseek" THEN normalizeReasoningEffort(chat.reasoning)
                      ELSE chat.reasoning
             adapted == AdaptReasoningEffortRequest(chat, given)
  <2>1. s = Forwarded(adapted)
    BY <1>6 DEF ToProvider
  <2> HIDE DEF given
  <2>2. adapted.reasoning = "" /\ adapted.flat = (IF chat.reasoning = "" THEN chat.flat ELSE given)
    BY DEF AdaptReasoningEffortRequest, IsChat
  <2> HIDE DEF adapted
  <2>3. s.thinking = (IF adapted.flat = "" THEN "" ELSE "level") /\ s.effort = adapted.flat
    BY <2>1, <2>2, ForwardedIs
  <2> QED
    BY <1>6, <2>2, <2>3 DEF Told, given
<1> QED
  BY <1>1, <1>2, <1>3, <1>4, <1>5, <1>6

\* The levels in their order.
LEMMA Levels ==
  /\ DOMAIN Strength = {"none", "minimal", "low", "medium", "high", "xhigh", "max"}
  /\ Strength["none"] = 0 /\ Strength["minimal"] = 1 /\ Strength["low"] = 2 /\ Strength["medium"] = 3
  /\ Strength["high"] = 4 /\ Strength["xhigh"] = 5 /\ Strength["max"] = 6
BY DEF Strength

\* What the providers make of a level, by its strength.
LEMMA LevelsConverted ==
  ASSUME NEW level \in DOMAIN Strength
  PROVE  /\ Strength[level] \in 0 .. 6
         /\ Strength[normalizeEffort(level)] = IF Strength[level] <= 2 THEN 2 ELSE Strength[level]
         /\ reasoningEffortToBudgetTokens(level) = IF Strength[level] <= 2 THEN 5
                                                   ELSE IF Strength[level] = 3 THEN 10 ELSE 20
         /\ Strength[normalizeReasoningEffort(level)] = IF Strength[level] <= 1 THEN Strength[level]
                                                        ELSE IF Strength[level] <= 4 THEN 4 ELSE 6
         /\ level = "none" <=> Strength[level] = 0
<1>1. CASE level = "none"
  BY <1>1, Levels DEF normalizeEffort, reasoningEffortToBudgetTokens, normalizeReasoningEffort
<1>2. CASE level = "minimal"
  BY <1>2, Levels DEF normalizeEffort, reasoningEffortToBudgetTokens, normalizeReasoningEffort
<1>3. CASE level = "low"
  BY <1>3, Levels DEF normalizeEffort, reasoningEffortToBudgetTokens, normalizeReasoningEffort
<1>4. CASE level = "medium"
  BY <1>4, Levels DEF normalizeEffort, reasoningEffortToBudgetTokens, normalizeReasoningEffort
<1>5. CASE level = "high"
  BY <1>5, Levels DEF normalizeEffort, reasoningEffortToBudgetTokens, normalizeReasoningEffort
<1>6. CASE level = "xhigh"
  BY <1>6, Levels DEF normalizeEffort, reasoningEffortToBudgetTokens, normalizeReasoningEffort
<1>7. CASE level = "max"
  BY <1>7, Levels DEF normalizeEffort, reasoningEffortToBudgetTokens, normalizeReasoningEffort
<1> QED
  BY <1>1, <1>2, <1>3, <1>4, <1>5, <1>6, <1>7, Levels

LEMMA InOrder ==
  ASSUME NEW a \in 0 .. 6, NEW m \in 0 .. 6, a <= m
  PROVE  /\ (IF a <= 2 THEN 2 ELSE a) <= (IF m <= 2 THEN 2 ELSE m)
         /\ (IF a <= 2 THEN 5 ELSE IF a = 3 THEN 10 ELSE 20) <= (IF m <= 2 THEN 5 ELSE IF m = 3 THEN 10 ELSE 20)
         /\ (IF a <= 1 THEN a ELSE IF a <= 4 THEN 4 ELSE 6) <= (IF m <= 1 THEN m ELSE IF m <= 4 THEN 4 ELSE 6)
         /\ (IF a = 0 THEN 1 ELSE a) <= (IF m = 0 THEN 1 ELSE m)
         /\ m <= 4 => (IF a = 0 THEN 0 ELSE IF a <= 2 THEN 1 ELSE IF a = 3 THEN 8 ELSE 24)
                        <= (IF m = 0 THEN 0 ELSE IF m <= 2 THEN 1 ELSE IF m = 3 THEN 8 ELSE 24)
OBVIOUS

LEMMA LevelsInOrder ==
  ASSUME NEW less \in DOMAIN Strength, NEW more \in DOMAIN Strength, Strength[less] <= Strength[more]
  PROVE  /\ Strength[normalizeEffort(less)] <= Strength[normalizeEffort(more)]
         /\ reasoningEffortToBudgetTokens(less) <= reasoningEffortToBudgetTokens(more)
         /\ Strength[normalizeReasoningEffort(less)] <= Strength[normalizeReasoningEffort(more)]
<1> DEFINE a == Strength[less]
           m == Strength[more]
<1>1. a \in 0 .. 6 /\ m \in 0 .. 6 /\ a <= m
  BY LevelsConverted
<1>2. /\ Strength[normalizeEffort(less)] = IF a <= 2 THEN 2 ELSE a
      /\ reasoningEffortToBudgetTokens(less) = IF a <= 2 THEN 5 ELSE IF a = 3 THEN 10 ELSE 20
      /\ Strength[normalizeReasoningEffort(less)] = IF a <= 1 THEN a ELSE IF a <= 4 THEN 4 ELSE 6
  BY LevelsConverted
<1>3. /\ Strength[normalizeEffort(more)] = IF m <= 2 THEN 2 ELSE m
      /\ reasoningEffortToBudgetTokens(more) = IF m <= 2 THEN 5 ELSE IF m = 3 THEN 10 ELSE 20
      /\ Strength[normalizeReasoningEffort(more)] = IF m <= 1 THEN m ELSE IF m <= 4 THEN 4 ELSE 6
  BY LevelsConverted
<1> HIDE DEF a, m
<1> QED
  BY <1>1, <1>2, <1>3, InOrder

LEMMA GeminiBudgets ==
  ASSUME NEW level \in DOMAIN Strength, NEW s, GeminiTold(level, s), s.thinking # ""
  PROVE  IF wish.model # "gemini-2.5"
         THEN s.thinking = "level" /\ Strength[s.effort] = IF Strength[level] = 0 THEN 1 ELSE Strength[level]
         ELSE /\ s.thinking = "budget" /\ Strength[level] <= 4
              /\ s.budget = IF Strength[level] = 0 THEN 0 ELSE IF Strength[level] <= 2 THEN 1
                            ELSE IF Strength[level] = 3 THEN 8 ELSE 24
<1>1. level # ""
  BY Levels
<1>2. CASE wish.model # "gemini-2.5"
  <2>1. s.thinking = "level" /\ s.effort = IF level = "none" THEN "minimal" ELSE level
    BY <1>1, <1>2 DEF GeminiTold
  <2> QED
    BY <1>2, <2>1, Levels, LevelsConverted
<1>3. CASE wish.model = "gemini-2.5"
  <2>1. /\ s.thinking = "budget" /\ level \in {"none", "minimal", "low", "medium", "high"}
        /\ s.budget = IF level \in {"minimal", "low"} THEN 1
                      ELSE IF level = "medium" THEN 8 ELSE IF level = "high" THEN 24 ELSE 0
    BY <1>1, <1>3 DEF GeminiTold
  <2> QED
    BY <1>3, <2>1, Levels
<1> QED
  BY <1>2, <1>3

LEMMA WeakerAsksNoMore ==
  ASSUME NEW less \in DOMAIN Strength, NEW more \in DOMAIN Strength, Strength[less] <= Strength[more],
         NEW other, NEW s,
         \/ Told(less, "", other) /\ Told(more, "", s)
         \/ Told("", less, other) /\ Told("", more, s),
         other.thinking # "", s.thinking # ""
  PROVE  other.thinking = s.thinking /\ Amount(other) <= Amount(s)
<1> DEFINE a == Strength[less]
           m == Strength[more]
<1>0. a \in 0 .. 6 /\ m \in 0 .. 6 /\ a <= m
  BY LevelsConverted
<1>1. CASE wish.provider = "anthropic"
  <2>1. AnthropicTold(less, other) /\ AnthropicTold(more, s)
    BY <1>1, Levels DEF Told
  <2>2. Strength[normalizeEffort(less)] <= Strength[normalizeEffort(more)]
    BY LevelsInOrder
  <2>3. reasoningEffortToBudgetTokens(less) <= reasoningEffortToBudgetTokens(more)
    BY LevelsInOrder
  <2>4. less # "" /\ more # ""
    BY Levels
  <2> QED
    BY <2>1, <2>2, <2>3, <2>4 DEF AnthropicTold, Amount
<1>2. CASE wish.provider = "gemini"
  <2>1. GeminiTold(less, other) /\ GeminiTold(more, s)
    BY <1>2, Levels DEF Told, GeminiTold
  <2>3. CASE wish.model # "gemini-2.5"
    <3>1. other.thinking = "level" /\ Strength[other.effort] = IF a = 0 THEN 1 ELSE a
      BY <2>1, <2>3, GeminiBudgets
    <3>2. s.thinking = "level" /\ Strength[s.effort] = IF m = 0 THEN 1 ELSE m
      BY <2>1, <2>3, GeminiBudgets
    <3> HIDE DEF a, m
    <3> QED
      BY <1>0, <3>1, <3>2, InOrder DEF Amount
  <2>4. CASE wish.model = "gemini-2.5"
    <3>1. /\ other.thinking = "budget" /\ a <= 4
          /\ other.budget = IF a = 0 THEN 0 ELSE IF a <= 2 THEN 1 ELSE IF a = 3 THEN 8 ELSE 24
      BY <2>1, <2>4, GeminiBudgets
    <3>2. /\ s.thinking = "budget" /\ m <= 4
          /\ s.budget = IF m = 0 THEN 0 ELSE IF m <= 2 THEN 1 ELSE IF m = 3 THEN 8 ELSE 24
      BY <2>1, <2>4, GeminiBudgets
    <3> HIDE DEF a, m
    <3> QED
      BY <1>0, <3>1, <3>2, InOrder DEF Amount
  <2> QED
    BY <2>3, <2>4
<1>3. CASE wish.provider = "bedrock"
  BY <1>3 DEF Told
<1>4. CASE wish.provider \notin {"anthropic", "gemini", "bedrock"}
  <2>1. Strength[normalizeReasoningEffort(less)] <= Strength[normalizeReasoningEffort(more)]
    BY LevelsInOrder
  <2>2. less # "" /\ more # ""
    BY Levels
  <2>3. other.thinking = "level" /\ s.thinking = "level"
    BY <1>4 DEF Told
  <2>4. Strength[other.effort] <= Strength[s.effort]
    BY <1>4, <2>1, <2>2 DEF Told
  <2> QED
    BY <2>3, <2>4 DEF Amount
<1> QED
  BY <1>1, <1>2, <1>3, <1>4

LEMMA ChatWithEffort ==
  ASSUME NEW less
  PROVE  LET weaker == WithEffort(less) IN
         /\ IsChat(weaker)
         /\ weaker.reasoning = IF Chat.reasoning = "" THEN "" ELSE less
         /\ weaker.flat = IF Chat.flat = "" THEN "" ELSE less
<1> DEFINE reasoning == IF Chat.reasoning = "" THEN "" ELSE less
           flat == IF Chat.flat = "" THEN "" ELSE less
           weaker == WithEffort(less)
<1>1. IsChat(Chat)
  BY ChatHasFields
<1>2. weaker = [Chat EXCEPT !.reasoning = reasoning, !.flat = flat]
  BY DEF WithEffort
<1> HIDE DEF reasoning, flat, weaker
<1>3. IsChat(weaker) /\ weaker.reasoning = reasoning /\ weaker.flat = flat
  BY <1>1, <1>2 DEF IsChat
<1> QED
  BY <1>3 DEF reasoning, flat, weaker

LEMMA OrderKept ==
  ASSUME wish \in Wishes, wish.api = "responses" => validateResponsesRequestForChatTranslation(wish)
  PROVE  EffortInOrder(ToProvider(Chat))
<1> DEFINE s == ToProvider(Chat)
<1> SUFFICES ASSUME NEW less \in DOMAIN Strength,
                    WishedEffort \in DOMAIN Strength, Strength[less] <= Strength[WishedEffort],
                    s.thinking # "", ToProvider(WithEffort(less)).thinking # ""
             PROVE  ToProvider(WithEffort(less)).thinking = s.thinking /\ Amount(ToProvider(WithEffort(less))) <= Amount(s)
  BY DEF EffortInOrder
<1> DEFINE weaker == WithEffort(less)
           other == ToProvider(weaker)
<1>1. IsChat(Chat)
  BY ChatHasFields
<1>2. /\ IsChat(weaker)
      /\ weaker.reasoning = (IF Chat.reasoning = "" THEN "" ELSE less)
      /\ weaker.flat = (IF Chat.flat = "" THEN "" ELSE less)
  BY ChatWithEffort
<1>3. \/ Chat.reasoning = WishedEffort /\ Chat.flat = ""
      \/ Chat.reasoning = "" /\ Chat.flat = WishedEffort
  BY ChatKeeps DEF ChatAsWished
<1>4. WishedEffort # ""
  BY Levels
<1>5. Told(Chat.reasoning, Chat.flat, s) /\ Told(weaker.reasoning, weaker.flat, other)
  BY <1>1, <1>2, ProviderTells
<1> HIDE DEF s, weaker, other
<1>6. \/ Told(less, "", other) /\ Told(WishedEffort, "", s)
      \/ Told("", less, other) /\ Told("", WishedEffort, s)
  BY <1>2, <1>3, <1>4, <1>5
<1>7. s.thinking # "" /\ other.thinking # ""
  BY DEF s, other, weaker
<1>8. other.thinking = s.thinking /\ Amount(other) <= Amount(s)
  BY <1>6, <1>7, WeakerAsksNoMore
<1> QED
  BY <1>8 DEF s, other, weaker

\* The request is one of those clients send, and what was sent is as it wishes.
SettingsIInv == wish \in Wishes /\ SettingsAreKept

(* Whatever the settings a client sends, its API and the provider: what the  *)
(* provider gets says the same in its own terms, or the request is refused   *)
(* (request_translation.go, native.go, bedrock/chat.go,                      *)
(* responses_adapter.go).                                                    *)
THEOREM SettingsKept == SettingsSpec => []SettingsAreKept
<1>1. SettingsInit => SettingsIInv
  BY DEF SettingsInit, SettingsIInv, SettingsAreKept
<1>2. SettingsIInv /\ [SendSettings]_settingsVars => SettingsIInv'
  <2> SUFFICES ASSUME SettingsIInv, [SendSettings]_settingsVars
               PROVE  SettingsIInv'
    OBVIOUS
  <2>1. wish' = wish
    BY DEF SendSettings, settingsVars
  <2>2. (\A s : SettingsAsWished(s) => SettingsAsWished(s)')
    <3>1. (\A s : ToolsAsWished(s)' = ToolsAsWished(s)) /\ (\A s : LimitAsWished(s)' = LimitAsWished(s))
      BY <2>1 DEF ToolsAsWished, ChoiceIgnored, LimitAsWished, WishedMax
    <3>2. (WishedEffort' = WishedEffort) /\ (EffortDropped' <=> EffortDropped) /\ (KnownEfforts' = KnownEfforts)
      BY <2>1 DEF WishedEffort, EffortDropped, KnownEfforts, ValidEfforts, Strength
    <3>3. (\A s : EffortAsWished(s) => EffortAsWished(s)')
      BY <3>2 DEF EffortAsWished
    <3> QED
      BY <2>1, <3>1, <3>3 DEF SettingsAsWished
  <2>o. (\A s : EffortInOrder(s) => EffortInOrder(s)')
    <3>1. (Chat' = Chat) /\ (WishedEffort' = WishedEffort)
      BY <2>1 DEF Chat, WishedEffort
    <3>2. (\A less : WithEffort(less)' = WithEffort(less))
      BY <3>1 DEF WithEffort
    <3>3. (\A chat : ToProvider(chat)' = ToProvider(chat))
      BY <2>1 DEF ToProvider, convertSettingsToAnthropic, applyReasoning, geminiGenerationConfig,
                  thinkingConfigForEffort
    <3> QED
      BY <3>1, <3>2, <3>3 DEF EffortInOrder
  <2>3. CASE SendSettings
    <3>1. CASE sent' = <<"refused">>
      BY <2>1, <3>1 DEF SettingsIInv, SettingsAreKept
    <3>2. CASE sent' # <<"refused">>
      <4>1. sent' = <<"sent", ToProvider(Chat)>>
        BY <2>3, <3>2 DEF SendSettings
      <4>2. SettingsAsWished(ToProvider(Chat)) /\ EffortInOrder(ToProvider(Chat))
        BY <2>3, <3>2, ProviderKeeps, OrderKept DEF SendSettings, SettingsIInv
      <4>3. sent'[2] = ToProvider(Chat)
        BY <4>1
      <4> QED
        BY <2>1, <2>2, <2>o, <4>2, <4>3 DEF SettingsIInv, SettingsAreKept
    <3> QED
      BY <3>1, <3>2
  <2>4. CASE UNCHANGED settingsVars
    BY <2>1, <2>2, <2>o, <2>4 DEF SettingsIInv, SettingsAreKept, settingsVars
  <2> QED
    BY <2>3, <2>4
<1>3. SettingsIInv => SettingsAreKept
  BY DEF SettingsIInv
<1> QED
  BY <1>1, <1>2, <1>3, PTL DEF SettingsSpec

=============================================================================
