----------------------------- MODULE PipelineRun -----------------------------
(***************************************************************************)
(* A pipeline from its construction to its last module: the execution order *)
(* is resolved (ModuleOrder), then Pipeline.run executes it, in one pass or  *)
(* in discovery rounds that repeat the discovery modules until a round adds  *)
(* no subdomain, the run_once modules coming last.                           *)
(***************************************************************************)
EXTENDS ModuleOrder, Integers

CONSTANTS RunOnce,      \* the modules marked run_once
          Discoverers,  \* the modules that may store subdomains
          Sub,          \* the subdomains the modules may find
          LoopConfigs,  \* the values of pipeline.discovery.loop
          NotANumber    \* a configured number of rounds that int() refuses

ASSUME RunAssumption ==
  /\ RunOnce \subseteq Module
  /\ Discoverers \subseteq Module
  /\ IsFiniteSet(Sub)
  /\ LoopConfigs \subseteq [enabled : BOOLEAN, rounds : Int \cup {NotANumber}]
  /\ NotANumber \notin Int

VARIABLES loop,       \* the configured discovery loop
          phase,      \* "building", "single", "cycle", "finalize" or "done"
          rnd,        \* the current discovery round
          prev,       \* the subdomain count of the round before, -1 in the first
          todo,       \* what is left of the list _run_modules goes through
          results,    \* the run ledger: the modules in the order they ran
          subs,       \* the subdomain assets of the store
          seen,       \* what the store held when each module last started
          miscounted  \* a count came back as 0 because the query failed

\* The variables of the resolution are vars.
runVars == <<loop, phase, rnd, prev, todo, results, subs, seen, miscounted>>
allVars == <<vars, runVars>>

Rounds ==
  IF loop.enabled /\ loop.rounds # NotANumber /\ loop.rounds > 1 THEN loop.rounds ELSE 1

\* What a module may add to the store, or not, whether it succeeds or fails.
Findable(m) == IF m \in Discoverers THEN Sub ELSE {}

\* Mutant of Cycle: the discovery modules in registration order.
CycleByRegistration == ByIndex(Built(plan) \ RunOnce)

\* The discovery modules, repeated in each round, and the run_once modules, kept for the end.
Cycle == Filtered(order, Module \ RunOnce)
Finalize == Filtered(order, RunOnce)

-----------------------------------------------------------------------------
RunInit ==
  /\ Init
  /\ loop \in LoopConfigs
  /\ phase = "building"
  /\ rnd = 0
  /\ prev = -1
  /\ todo = << >>
  /\ results = << >>
  /\ subs = {}
  /\ seen = [m \in Module |-> {}]
  /\ miscounted = FALSE

\* Pipeline.build; a rejected plan is never run.
Resolve == Next /\ UNCHANGED runVars

Begin ==
  /\ phase = "building"
  /\ pc = "resolved"
  /\ phase' = IF Rounds <= 1 THEN "single" ELSE "cycle"
  /\ rnd' = 1
  /\ todo' = IF Rounds <= 1 THEN order ELSE Cycle
  /\ UNCHANGED <<vars, loop, prev, results, subs, seen, miscounted>>

\* Mutant of RunModule: a module that fails takes the rest of the list with it.
RunModuleAborting ==
  /\ todo # << >>
  /\ \E found \in SUBSET Findable(Head(todo)), failed \in BOOLEAN :
       /\ subs' = subs \cup found
       /\ todo' = IF failed THEN << >> ELSE Tail(todo)
  /\ seen' = [seen EXCEPT ![Head(todo)] = subs]
  /\ results' = Append(results, Head(todo))
  /\ UNCHANGED <<vars, loop, phase, rnd, prev, miscounted>>

\* One module runs: whatever its status (success, skipped, or failed before or after
\* it stored something), its result is recorded and the next one follows.
RunModule ==
  /\ todo # << >>
  /\ \E found \in SUBSET Findable(Head(todo)) : subs' = subs \cup found
  /\ seen' = [seen EXCEPT ![Head(todo)] = subs]
  /\ results' = Append(results, Head(todo))
  /\ todo' = Tail(todo)
  /\ UNCHANGED <<vars, loop, phase, rnd, prev, miscounted>>

\* Mutant of EndRound: the loop stops on any repeated or nearly repeated count.
EndRoundOffByOne ==
  /\ phase = "cycle"
  /\ todo = << >>
  /\ \E count \in {Cardinality(subs), 0} :
       /\ miscounted' = (miscounted \/ count # Cardinality(subs))
       /\ IF rnd = Rounds \/ (prev >= 0 /\ count <= prev + 1)
          THEN phase' = "finalize" /\ todo' = Finalize /\ UNCHANGED <<rnd, prev>>
          ELSE rnd' = rnd + 1 /\ prev' = count /\ todo' = Cycle /\ UNCHANGED phase
  /\ UNCHANGED <<vars, loop, results, subs, seen>>

\* Mutant of EndRound: the last round is not told apart, only convergence finalizes.
EndRoundUnfinished ==
  /\ phase = "cycle"
  /\ todo = << >>
  /\ \E count \in {Cardinality(subs), 0} :
       /\ miscounted' = (miscounted \/ count # Cardinality(subs))
       /\ IF count = prev
          THEN phase' = "finalize" /\ todo' = Finalize /\ UNCHANGED <<rnd, prev>>
          ELSE /\ rnd < Rounds
               /\ rnd' = rnd + 1 /\ prev' = count /\ todo' = Cycle /\ UNCHANGED phase
  /\ UNCHANGED <<vars, loop, results, subs, seen>>

\* The end of a discovery round: another one, unless it was the last or it stored
\* as many subdomains as the one before.  A query that fails counts 0.
EndRound ==
  /\ phase = "cycle"
  /\ todo = << >>
  /\ \E count \in {Cardinality(subs), 0} :
       /\ miscounted' = (miscounted \/ count # Cardinality(subs))
       /\ IF rnd = Rounds \/ count = prev
          THEN phase' = "finalize" /\ todo' = Finalize /\ UNCHANGED <<rnd, prev>>
          ELSE rnd' = rnd + 1 /\ prev' = count /\ todo' = Cycle /\ UNCHANGED phase
  /\ UNCHANGED <<vars, loop, results, subs, seen>>

Finish ==
  /\ phase \in {"single", "finalize"}
  /\ todo = << >>
  /\ phase' = "done"
  /\ UNCHANGED <<vars, loop, rnd, prev, todo, results, subs, seen, miscounted>>

RunNext == Resolve \/ Begin \/ RunModule \/ EndRound \/ Finish

\* The run is one sequential call in which every module eventually returns.
RunSpec == RunInit /\ [][RunNext]_allVars /\ WF_allVars(RunNext)

-----------------------------------------------------------------------------
Times(m) == Cardinality({i \in 1 .. Len(results) : results[i] = m})
LastRun(m) ==
  CHOOSE i \in 0 .. Len(results) : /\ i = 0 \/ results[i] = m
                                   /\ \A k \in i + 1 .. Len(results) : results[k] # m

\* "run_once modules (findings/analysis) execute once at the end" (Pipeline.run):
\* whatever fails on the way, each run_once module has exactly one ledger entry,
\* every other module one per round, and no discovery module runs after a finding.
LedgerIsComplete ==
  phase = "done" =>
    /\ \A m \in Built(plan) : Times(m) = IF Rounds = 1 \/ m \in RunOnce THEN 1 ELSE rnd
    /\ Rounds > 1 =>
         \A i, j \in 1 .. Len(results) :
           i < j /\ results[i] \in RunOnce => results[j] \in RunOnce

\* Splitting the order in two lists keeps the dependencies that the split can keep:
\* a module's last run comes after the last run of every module it depends on,
\* unless only that one is postponed to the end.
LastRunsRespectOrder ==
  phase = "done" =>
    \A m \in Built(plan) : \A p \in Prereqs(plan, m) :
      (Rounds = 1 \/ p \notin RunOnce \/ m \in RunOnce) => LastRun(p) < LastRun(m)

\* The loop stops before its last round only when every discovery module has, in its
\* latest run, started from every subdomain known; provided no count query failed.
ConvergedMeansCovered ==
  [][(phase = "cycle" /\ phase' = "finalize" /\ rnd < Rounds /\ ~miscounted') =>
       \A m \in Built(plan) \ RunOnce : seen[m] = subs]_allVars

\* Whatever is found and whatever fails, the run ends within the configured rounds.
RunEnds == <>(phase = "done" \/ pc = "rejected")
==============================================================================
