-------------------------------- MODULE Scope --------------------------------
(***************************************************************************)
(* The engagement scope and the three places that read it: Scope.is_allowed  *)
(* (every stage), the AI agent's own stricter predicate, and the decisions of*)
(* the command line and of the stages on what may be enumerated.             *)
(***************************************************************************)
EXTENDS Naturals, Sequences

\* A host name is the sequence of its labels, the top-level one first.  A pattern is an
\* exact name or all names below one; a scope is three sets of patterns.
Exact(name) == [wild |-> FALSE, base |-> name]
Subdomains(name) == [wild |-> TRUE, base |-> name]
Patterns(Name) == [wild : BOOLEAN, base : Name]
Scopes(Name) ==
  [targets : SUBSET Patterns(Name), in_scope : SUBSET Patterns(Name), out_of_scope : SUBSET Patterns(Name)]

Below(name, base) == Len(name) > Len(base) /\ SubSeq(name, 1, Len(base)) = base

Matches(name, p) == IF p.wild THEN Below(name, p.base) ELSE name = p.base
MatchesAny(name, ps) == \E p \in ps : Matches(name, p)

\* Exclusions win, then targets; no in_scope at all excludes nothing more.
IsAllowed(scope, name) ==
  /\ ~MatchesAny(name, scope.out_of_scope)
  /\ \/ MatchesAny(name, scope.targets)
     \/ scope.in_scope = {}
     \/ MatchesAny(name, scope.in_scope)

\* The agent's predicate: the name must be asked for.
HostAllowed(scope, name) ==
  /\ ~MatchesAny(name, scope.out_of_scope)
  /\ MatchesAny(name, scope.targets \cup scope.in_scope)

\* AgentHttp._refuse: the first guard that a request fails, or "none".
Refusal(scope, left, allowed, req) ==
  CASE left <= 0                           -> "budget"
    [] req.method \notin allowed           -> "method"
    [] req.scheme \notin {"http", "https"} -> "scheme"
    [] req.host = << >>                    -> "no host"
    [] ~HostAllowed(scope, req.host)       -> "scope"
    [] req.destructive                     -> "destructive"
    [] OTHER                               -> "none"

\* Stages that brute-force names do so for a wildcard scope only ...
HasWildcard(scope) == \E p \in scope.in_scope \cup scope.targets : p.wild

\* ... and the command line keeps the enumeration stages as --enumerate says.
ShouldEnumerate(mode, in_scope) ==
  \/ mode = "always"
  \/ mode = "auto" /\ (in_scope = {} \/ \E p \in in_scope : p.wild)

\* The targets of a run that names none: the parents of wildcards, exact entries as they are.
TargetsFromScope(in_scope) == {Exact(p.base) : p \in in_scope}

-----------------------------------------------------------------------------
\* "STRICTER than Scope.is_allowed: for live traffic an empty in_scope must NOT mean
\* allow everything" (agent_http.py): where the agent may send, every stage may; the
\* two differ only in names that no target and no in_scope entry asks for.
AgentIsStricter(scope, name) ==
  /\ HostAllowed(scope, name) => IsAllowed(scope, name)
  /\ IsAllowed(scope, name) /\ ~HostAllowed(scope, name) =>
       scope.in_scope = {} /\ ~MatchesAny(name, scope.targets)

\* A request the agent sends is within its budget, its methods and the engagement.
RequestsAreSafe(scope, left, allowed, req) ==
  Refusal(scope, left, allowed, req) = "none" =>
    left > 0 /\ req.method \in allowed /\ ~req.destructive /\ IsAllowed(scope, req.host)
==============================================================================
