---------------------------- MODULE MCOperations ----------------------------
(* Operating the gateway, for TLC: a behaviour is about the registry of     *)
(* models, the virtual models, or the life of the process; the variables of *)
(* the others stay as they began.                                           *)
EXTENDS ModelRegistry, VirtualModels, Lifecycle

(* The registry: two providers of one type, p1 first, that share "a".       *)
MCOrder == <<"p1", "p2">>
MCServes == [p \in Providers |-> IF p = "p1" THEN {"a", "b"} ELSE {"a"}]
MCTypeOf == [p \in Providers |-> "openai"]

Unconfigured == [p \in Providers |-> {}]
SecondConfigured == [Unconfigured EXCEPT !["p2"] = {"b"}]

\* Every pair of actors overlaps in some scenario; two faults let a provider
\* go down and the other one list nothing; a restart follows any save.
MCScenarios ==
  {[mode |-> "fallback", models |-> Unconfigured, cast |-> c, faults |-> 2, restarts |-> 0] :
     c \in {{"loop"}, {"request", "reader"}}}
  \cup
  {[mode |-> "fallback", models |-> Unconfigured, cast |-> c, faults |-> 1, restarts |-> 0] :
     c \in {{"loop", "request"}, {"loop", "lister", "reader"}, {"boot", "request"},
            {"boot", "loop"}, {"lister", "request"}}}
  \cup
  {[mode |-> "fallback", models |-> Unconfigured, cast |-> {"boot", "lister"}, faults |-> 1, restarts |-> 1]}
  \cup
  {[mode |-> m, models |-> SecondConfigured, cast |-> {"request", "loop"}, faults |-> 1, restarts |-> 0] :
     m \in {"fallback", "allowlist"}}

(* The virtual models.                                                      *)
Target(provider, model, weight, fallback) ==
  [provider |-> provider, model |-> model, weight |-> weight, fallback |-> fallback]
Redirect(source, targets, strategy, paths) ==
  [source |-> source, targets |-> targets, strategy |-> strategy, enabled |-> TRUE,
   paths |-> paths, scope |-> None]
Policy(source, enabled, paths) ==
  [source |-> source, targets |-> <<>>, strategy |-> "round_robin", enabled |-> enabled,
   paths |-> paths, scope |-> None]

MCSupported == {<<"p", "a">>, <<"q", "a">>}
MCPrice == (<<"q", "a">> :> 3)
MCHealthWeights == ("p" :> 2)
MCUserPaths == {None, <<"team", "", "x">>, <<"..">>}
MCConfigRows ==
  {Redirect(<<"std">>, <<Target("", <<"p", "a">>, 15, FALSE), Target("q", <<"a">>, 0, FALSE)>>, "round_robin", {}),
   Policy(<<"q", "">>, TRUE, {<<"team">>})}
MCDrafts ==
  {Redirect(<<"fast">>, <<Target("p", <<"a">>, 0, FALSE), Target("q", <<"a">>, 0, FALSE)>>, "auto/fast", {<<"", "team">>}),
   Redirect(<<"fast">>, <<Target("p", <<"a">>, 0, FALSE), Target("q", <<"a">>, 0, TRUE)>>, "auto/cheap", {}),
   Redirect(<<"auto">>, <<Target("q", <<"a">>, 0, FALSE), Target("p", <<"a">>, 0, FALSE)>>, "auto", {}),
   Policy(<<"p", "a">>, FALSE, {})}

VARIABLE subject

operationVars == <<vmVars, subject, lifeVars, rvars>>

AllUp == [p \in Providers |-> [state |-> "up", ver |-> 0]]
SomeScenario == CHOOSE s \in Scenarios : TRUE

OperationInit ==
  \/ /\ subject = "registry" /\ available = {}
     /\ Init /\ VMInit /\ LifeInit
  \/ /\ subject = "models" /\ health = AllUp /\ scenario = SomeScenario
     /\ Init /\ VMInit /\ LifeInit
  \/ /\ subject = "process" /\ available = {} /\ health = AllUp /\ scenario = SomeScenario
     /\ Init /\ VMInit /\ LifeInit

OperationNext ==
  \/ subject = "registry" /\ Next /\ UNCHANGED <<subject, vmVars, lifeVars>>
  \/ subject = "models" /\ VMNext /\ UNCHANGED <<subject, rvars, lifeVars>>
  \/ subject = "process" /\ LifeNext /\ UNCHANGED <<subject, rvars, vmVars>>

OperationSpec == OperationInit /\ [][OperationNext]_operationVars /\ LifeFairness
=============================================================================
