---------------------------- MODULE MCPipelineRun ----------------------------
(***************************************************************************)
(* Instances for PipelineRun.  Under every discovery loop: plans with a      *)
(* feedback module, a run_once module in the middle of the order and a       *)
(* dependency cycle.  In one pass: every graph over three modules and two    *)
(* entities, every set of enabled modules of a four-module graph, and the    *)
(* stock plans, which the loop also repeats on their own.                    *)
(***************************************************************************)
EXTENDS PipelineRun, StockStages

CONSTANTS s1, s2

LoopModules == {"enumerate", "fuzz", "probe", "mine"}
GraphModules == {"a", "b", "c", "d"}
GraphEntities == {"x", "y"}
MCModule == LoopModules \cup GraphModules \cup StageNames
MCEntity == {"subdomain", "url"} \cup GraphEntities \cup StageEntities

\* The modules of the graphs are registered against their alphabetical order.
MCIndex == [m \in MCModule |->
              CASE m = "mine" -> 1 [] m = "enumerate" -> 2 [] m = "probe" -> 3 [] m = "fuzz" -> 4
                [] m = "b" -> 5 [] m = "d" -> 6 [] m = "a" -> 7 [] m = "c" -> 8
                [] OTHER -> RegistrationIndex[m] + 8]
MCRunOnce == {"fuzz"} \cup RunOnceStages

Extended(f) == [m \in MCModule |-> IF m \in DOMAIN f THEN f[m] ELSE {}]

\* enumerate feeds fuzz and probe, fuzz (run_once) feeds probe; mine reads what probe
\* leaves and adds subdomains through a sentinel, or closes a cycle.
LoopPlans ==
  {[registered |-> LoopModules, enabled |-> e,
    requires |-> Extended([m \in LoopModules |->
      CASE m = "enumerate" -> {} [] m = "fuzz" -> {"subdomain"}
        [] m = "probe" -> {"subdomain", "url"} [] m = "mine" -> {"url"}]),
    produces |-> Extended([m \in LoopModules |->
      CASE m = "enumerate" -> {"subdomain"} [] m = "fuzz" -> {"url"}
        [] m = "probe" -> {"url"} [] m = "mine" -> IF cyclic THEN {"subdomain"} ELSE {}])] :
   e \in {LoopModules, LoopModules \ {"fuzz"}, {"enumerate", "mine"}}, cyclic \in BOOLEAN}

ThreeModules == {"a", "b", "c"}
AllGraphsOfThree ==
  {[registered |-> ThreeModules, enabled |-> ThreeModules,
    requires |-> Extended(r), produces |-> Extended(p)] :
     r, p \in [ThreeModules -> SUBSET GraphEntities]}

\* d needs what a or b makes; b needs what a makes; c makes and needs the same entity.
FilteredGraphs ==
  {[registered |-> GraphModules, enabled |-> e,
    requires |-> Extended([m \in GraphModules |->
      CASE m = "a" -> {} [] m = "b" -> {"x"} [] m = "c" -> {"y"} [] m = "d" -> {"x", "y"}]),
    produces |-> Extended([m \in GraphModules |->
      CASE m = "a" -> {"x"} [] m = "b" -> {"x", "y"} [] m = "c" -> {"y"} [] m = "d" -> {}])] :
     e \in SUBSET GraphModules}

ExtendedStock(profile, mode) ==
  LET p == StockPlan(profile, mode)
  IN [p EXCEPT !.requires = Extended(@), !.produces = Extended(@)]

StockPlans ==
  {ExtendedStock(profile, mode) : profile \in DOMAIN Profiles, mode \in {"off", "assist", "pentest"}}

MCPlans == LoopPlans \cup AllGraphsOfThree \cup FilteredGraphs \cup StockPlans

MCSub == {s1, s2}
MCDiscoverers == {"enumerate", "mine"}
SmallLoops ==
  {[enabled |-> TRUE, rounds |-> r] : r \in {0, 2, 4, NotANumber}}
    \cup {[enabled |-> FALSE, rounds |-> 2]}

\* Bound: the loop is varied for the plans that are about it, and off for the others.
MCRunInit == RunInit /\ (plan \in LoopPlans \/ ~loop.enabled)
MCRunSpec == MCRunInit /\ [][RunNext]_allVars /\ WF_allVars(RunNext)

\* The stock pipeline in pentest mode with the documented number of rounds.
StockLoopPlans == {ExtendedStock("default", "pentest")}
StockLoops == {[enabled |-> TRUE, rounds |-> 2]}
OneSub == {s1}
StockDiscoverers == {"asset_discovery", "content_subdomains"}

-----------------------------------------------------------------------------
\* js_fetch "ALSO fetch[es] live URLs with these statuses [...]; covers dir-fuzz +
\* URL-history hits" (config/pipeline.yaml): the bodies are fetched after the
\* directory fuzzing that finds the URLs.
DirFuzzHitsFetched ==
  phase = "done" => LastRun("dir_bruteforce") < LastRun("js_fetch")
==============================================================================
