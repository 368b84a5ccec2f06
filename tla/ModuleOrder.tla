----------------------------- MODULE ModuleOrder -----------------------------
(***************************************************************************)
(* Pipeline.build and Pipeline._resolve_order: the modules of the profile   *)
(* are ordered by Kahn's algorithm over the requires / produces graph, with *)
(* a FIFO of ready modules fed in registration order.  One action is one    *)
(* iteration of the while loop.                                             *)
(***************************************************************************)
EXTENDS ModuleGraph, Sequences, Lists

CONSTANTS Module,   \* module names
          Entity,   \* the entity names modules require and produce
          Index,    \* registration position of each module
          Plans     \* the plans a pipeline may be built from

PlanType ==
  [registered : SUBSET Module, enabled : SUBSET Module,
   requires : [Module -> SUBSET Entity], produces : [Module -> SUBSET Entity]]

\* The registry is a finite dict that keeps one position per name.
ASSUME OrderAssumption ==
  /\ IsFiniteSet(Module)
  /\ Index \in [Module -> Nat]
  /\ \A a, b \in Module : Index[a] = Index[b] => a = b
  /\ Plans \subseteq PlanType

VARIABLES pc,       \* "build", "sort", "resolved" or "rejected" (PipelineError)
          plan,     \* the registry, the profile and the declarations: never changes
          indegree, \* prerequisites of each module not yet ordered
          ready,    \* the deque of modules with no prerequisite left
          order     \* the resolved execution order

vars == <<pc, plan, indegree, ready, order>>

\* Mutant of ByIndex: the sort key reversed.
ByIndexReversed(S) ==
  [i \in 1 .. Cardinality(S) |->
     CHOOSE m \in S : Cardinality({x \in S : Index[x] > Index[m]}) = i - 1]

\* The members of S by increasing registration position.
ByIndex(S) ==
  [i \in 1 .. Cardinality(S) |->
     CHOOSE m \in S : Cardinality({x \in S : Index[x] < Index[m]}) = i - 1]

-----------------------------------------------------------------------------
Init ==
  /\ plan \in Plans
  /\ pc = "build"
  /\ indegree = [m \in {} |-> 0]
  /\ ready = << >>
  /\ order = << >>

\* Mutant of Build: ready are the modules that require nothing, not those that wait for nobody.
BuildFromRequires ==
  /\ pc = "build"
  /\ pc' = "sort"
  /\ indegree' = [m \in Built(plan) |-> Cardinality(Prereqs(plan, m))]
  /\ ready' = ByIndex({m \in Built(plan) : plan.requires[m] = {}})
  /\ UNCHANGED <<plan, order>>

\* The producers, prerequisite and in-degree tables, and the first ready modules.
Build ==
  /\ pc = "build"
  /\ pc' = "sort"
  /\ indegree' = [m \in Built(plan) |-> Cardinality(Prereqs(plan, m))]
  /\ ready' = ByIndex({m \in Built(plan) : Prereqs(plan, m) = {}})
  /\ UNCHANGED <<plan, order>>

\* Mutant of Decremented: every module's count goes down, whether or not it waits for m.
DecrementedAll(m) == [x \in Built(plan) |-> indegree[x] - 1]

\* The in-degrees once m is ordered.
Decremented(m) ==
  [x \in Built(plan) |-> IF x \in Dependents(plan, m) THEN indegree[x] - 1 ELSE indegree[x]]

\* Mutant of Freed: a dependent is released while one prerequisite is still missing.
FreedEarly(m) == {x \in Dependents(plan, m) : Decremented(m)[x] \in {0, 1} /\ indegree[x] = 2}
                   \cup {x \in Dependents(plan, m) : indegree[x] = 1 /\ x \notin Elements(ready)}

\* The dependents of m that m was the last to hold back.
Freed(m) == {x \in Dependents(plan, m) : Decremented(m)[x] = 0}

\* One turn of the loop: order the first ready module and release its dependents.
Visit ==
  /\ pc = "sort"
  /\ ready # << >>
  /\ order' = Append(order, Head(ready))
  /\ indegree' = Decremented(Head(ready))
  /\ ready' = Tail(ready) \o ByIndex(Freed(Head(ready)))
  /\ UNCHANGED <<pc, plan>>

\* Mutant of Conclude: the length of the order is not compared with the plan.
ConcludeUnchecked ==
  /\ pc = "sort"
  /\ ready = << >>
  /\ pc' = "resolved"
  /\ UNCHANGED <<plan, indegree, ready, order>>

\* Nothing is ready any more: every module is ordered, or a cycle is reported.
Conclude ==
  /\ pc = "sort"
  /\ ready = << >>
  /\ pc' = IF Len(order) = Cardinality(Built(plan)) THEN "resolved" ELSE "rejected"
  /\ UNCHANGED <<plan, indegree, ready, order>>

Next == Build \/ Visit \/ Conclude

\* Resolution is one sequential call: it never waits, so it keeps taking steps.
Spec == Init /\ [][Next]_vars /\ WF_vars(Next)

-----------------------------------------------------------------------------
\* The tables and queues of _resolve_order keep their shape: in-degrees never
\* go below zero, and only modules of the plan are queued or ordered.
TypeOK ==
  /\ pc \in {"build", "sort", "resolved", "rejected"}
  /\ plan \in Plans
  /\ pc # "build" => indegree \in [Built(plan) -> Nat]
  /\ ready \in Seq(Built(plan))
  /\ order \in Seq(Built(plan))

\* At every point of the resolution, no module is ordered twice and every
\* prerequisite of an ordered module comes before it (the order run() follows).
TopologicalOrder ==
  /\ \A i, j \in 1 .. Len(order) : order[i] = order[j] => i = j
  /\ \A i \in 1 .. Len(order) :
       \A p \in Prereqs(plan, order[i]) : \E j \in 1 .. i - 1 : order[j] = p

\* While it sorts, the in-degree table counts the prerequisites still missing, and
\* the deque holds, once each, exactly the modules that can be ordered next; the
\* verdict is taken on an empty deque (the bookkeeping the loop relies on).
Bookkeeping ==
  /\ pc = "build" => order = << >> /\ ready = << >>
  /\ pc # "build" =>
       /\ indegree = [m \in Built(plan) |-> Cardinality(Prereqs(plan, m) \ Elements(order))]
       /\ {m \in Built(plan) : Prereqs(plan, m) \subseteq Elements(order)}
            = Elements(order) \cup Elements(ready)
       /\ Elements(order) \cap Elements(ready) = {}
       /\ \A i, j \in 1 .. Len(ready) : ready[i] = ready[j] => i = j
  /\ pc \in {"resolved", "rejected"} => ready = << >>
  /\ pc = "resolved" => Len(order) = Cardinality(Built(plan))
  /\ pc = "rejected" => Len(order) # Cardinality(Built(plan))

\* _resolve_order raises PipelineError only when some modules wait for each other
\* in a cycle, and otherwise the order holds every module of the plan.
RejectsOnlyCycles ==
  /\ pc = "rejected" => HasDependencyCycle(plan)
  /\ pc = "resolved" => Elements(order) = Built(plan)

\* Position of the last prerequisite of m in the order, 0 without prerequisites.
LastPrereq(m) ==
  LET at == {0} \cup {i \in 1 .. Len(order) : order[i] \in Prereqs(plan, m)}
  IN CHOOSE i \in at : \A k \in at : k <= i

\* The order is a function of the plan, not of how Python iterates over its sets:
\* modules follow the module that released them, ties in registration order.
StableOrder ==
  \A i, j \in 1 .. Len(order) :
    i < j => LET p == LastPrereq(order[i])
                 q == LastPrereq(order[j])
             IN p < q \/ (p = q /\ Index[order[i]] < Index[order[j]])

\* Kahn's algorithm implements the abstract topological sort.
Sort == INSTANCE TopologicalSort
          WITH emitted <- order,
               verdict <- IF pc \in {"resolved", "rejected"} THEN pc ELSE "pending"

ImplementsSort == Sort!Spec
=============================================================================
