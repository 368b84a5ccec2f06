--------------------------- MODULE TopologicalSort ---------------------------
(***************************************************************************)
(* What resolving the execution order promises, whatever the algorithm:     *)
(* modules are emitted one at a time, never twice and never before a module *)
(* they depend on, and the plan is rejected only when modules remain and    *)
(* none of them can be emitted.                                             *)
(***************************************************************************)
EXTENDS ModuleGraph, Sequences

CONSTANT Plans      \* the plans a pipeline may be built from

VARIABLES plan,     \* the plan being resolved
          emitted,  \* the modules emitted so far, in order
          verdict   \* "pending", "resolved" or "rejected"

vars == <<plan, emitted, verdict>>

Emitted == {emitted[i] : i \in 1 .. Len(emitted)}

CanEmit(m) == m \in Built(plan) \ Emitted /\ Prereqs(plan, m) \subseteq Emitted

Init ==
  /\ plan \in Plans
  /\ emitted = << >>
  /\ verdict = "pending"

Emit(m) ==
  /\ verdict = "pending"
  /\ CanEmit(m)
  /\ emitted' = Append(emitted, m)
  /\ UNCHANGED <<plan, verdict>>

Resolve ==
  /\ verdict = "pending"
  /\ Emitted = Built(plan)
  /\ verdict' = "resolved"
  /\ UNCHANGED <<plan, emitted>>

Reject ==
  /\ verdict = "pending"
  /\ Emitted # Built(plan)
  /\ \A m \in Built(plan) : ~CanEmit(m)
  /\ verdict' = "rejected"
  /\ UNCHANGED <<plan, emitted>>

Next == (\E m \in Built(plan) : Emit(m)) \/ Resolve \/ Reject

Spec == Init /\ [][Next]_vars
==============================================================================
