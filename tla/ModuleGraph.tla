----------------------------- MODULE ModuleGraph -----------------------------
(***************************************************************************)
(* The dependency graph that the requires / produces declarations of the   *)
(* recon modules induce.  A plan is what Pipeline.build is given: the       *)
(* modules the registry holds, the stage list of the profile, and the       *)
(* declarations of each module.                                            *)
(***************************************************************************)
EXTENDS Naturals, FiniteSets

\* The modules a pipeline is built from: registered and wanted by the profile.
Built(plan) == plan.registered \cap plan.enabled

\* Every built module that declares it produces an entity.
Producers(plan, entity) == {m \in Built(plan) : entity \in plan.produces[m]}

\* The modules m must wait for: the producers of what it requires, itself aside.
Prereqs(plan, m) ==
  {p \in Built(plan) : \E entity \in plan.requires[m] : p \in Producers(plan, entity)} \ {m}

\* The modules that wait for m.
Dependents(plan, m) == {d \in Built(plan) : m \in Prereqs(plan, d)}

\* A set of modules none of which can ever start: each waits for another of them.
Deadlocked(plan, S) ==
  /\ S # {}
  /\ S \subseteq Built(plan)
  /\ \A m \in S : Prereqs(plan, m) \cap S # {}

\* In a finite graph, a set of mutually waiting modules is what a cycle leaves.
HasDependencyCycle(plan) == \E S \in SUBSET Built(plan) : Deadlocked(plan, S)
==============================================================================
