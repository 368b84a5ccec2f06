---------------------------- MODULE KnowledgeGraph ----------------------------
(***************************************************************************)
(* The queries of the graph over stored relations: k-hop neighbourhoods by a *)
(* recursive table expression, simple paths and chains by backtracking.      *)
(***************************************************************************)
EXTENDS Naturals, Sequences, FiniteSets

\* An edge is [src, dst, rel]; an edge followed backwards still ends at its other end.
Steps(edges, directed, node) ==
  {<<e, e.dst>> : e \in {f \in edges : f.src = node}}
    \cup {<<e, e.src>> : e \in {f \in edges : ~directed /\ f.dst = node}}

\* The rows that a step of the table expression adds: the other ends of edges at a row.
Nearby(edges, rows) ==
  rows \cup UNION {{IF e.src = n THEN e.dst ELSE e.src : e \in {f \in edges : n \in {f.src, f.dst}}} :
                     n \in rows}
Reachable(edges, start, hops) ==
  LET within[k \in 0 .. hops] == IF k = 0 THEN {start} ELSE Nearby(edges, within[k - 1])
  IN within[hops]

\* The nodes around some seeds and the edges among them.
Subgraph(edges, seeds, hops) ==
  LET ids == UNION {Reachable(edges, s, hops) : s \in seeds}
  IN [nodes |-> ids, edges |-> {e \in edges : {e.src, e.dst} \subseteq ids}]

\* A call of the search for paths is [node, trail, visited].
Entered(call, step) ==
  [node |-> step[2], trail |-> Append(call.trail, step[1]), visited |-> call.visited \cup {step[2]}]

\* Mutant of Deeper: nodes on the trail are entered again.
DeeperRevisiting(edges, directed, dst, calls) ==
  UNION {{Entered(c, s) : s \in Steps(edges, directed, c.node)} :
           c \in {d \in calls : d.node # dst \/ d.trail = << >>}}

\* The calls that some calls make: a path that has arrived goes no further.
Deeper(edges, directed, dst, calls) ==
  UNION {{Entered(c, s) : s \in {t \in Steps(edges, directed, c.node) : t[2] \notin c.visited}} :
           c \in {d \in calls : d.node # dst \/ d.trail = << >>}}

\* The trails of the calls, no deeper than depth, that have arrived.
Arrived(calls, dst) == {c.trail : c \in {d \in calls : d.node = dst /\ d.trail # << >>}}
Paths(edges, src, dst, depth, directed) ==
  LET calls[k \in 0 .. depth] ==
        IF k = 0 THEN {[node |-> src, trail |-> << >>, visited |-> {src}]}
        ELSE Deeper(edges, directed, dst, calls[k - 1])
  IN Arrived(UNION {calls[k] : k \in 0 .. depth}, dst)

\* A call of the search for chains is [node, trail]: each edge has the relation of its place.
Extended(edges, rel, calls) ==
  UNION {{[node |-> e.dst, trail |-> Append(c.trail, e)] : e \in {f \in edges : f.src = c.node /\ f.rel = rel}} :
           c \in calls}
Chains(edges, nodes, rels) ==
  LET calls[k \in 0 .. Len(rels)] ==
        IF k = 0 THEN {[node |-> n, trail |-> << >>] : n \in nodes}
        ELSE Extended(edges, rels[k], calls[k - 1])
  IN IF rels = << >> THEN {} ELSE {c.trail : c \in calls[Len(rels)]}

-----------------------------------------------------------------------------
\* References: sequences of edges that connect, and the nodes they pass.
EdgeSequences(edges, depth) == UNION {[1 .. k -> edges] : k \in 0 .. depth}
IsWalk(walk, nodes, directed) ==
  /\ Len(nodes) = Len(walk) + 1
  /\ \A i \in 1 .. Len(walk) :
       \/ walk[i].src = nodes[i] /\ walk[i].dst = nodes[i + 1]
       \/ ~directed /\ walk[i].dst = nodes[i] /\ walk[i].src = nodes[i + 1]

\* The nodes that an undirected walk of so many edges at most leads to.
NodesWithin(edges, all, start, hops) ==
  {n \in all : \E walk \in EdgeSequences(edges, hops) : \E nodes \in [1 .. Len(walk) + 1 -> all] :
                 IsWalk(walk, nodes, FALSE) /\ nodes[1] = start /\ nodes[Len(nodes)] = n}

\* "All simple paths between two nodes up to max_depth edges" (graph/base.py).
SimplePaths(edges, all, src, dst, depth, directed) ==
  {walk \in EdgeSequences(edges, depth) :
     \E nodes \in [1 .. Len(walk) + 1 -> all] :
       /\ IsWalk(walk, nodes, directed) /\ walk # << >>
       /\ nodes[1] = src /\ nodes[Len(nodes)] = dst
       /\ Cardinality({nodes[i] : i \in DOMAIN nodes}) = Len(nodes)}

\* The directed walks along a sequence of relations.
WalksAlong(edges, nodes, rels) ==
  {walk \in [1 .. Len(rels) -> edges] :
     /\ walk[1].src \in nodes
     /\ \A i \in 1 .. Len(rels) : walk[i].rel = rels[i]
     /\ \A i \in 1 .. Len(rels) - 1 : walk[i + 1].src = walk[i].dst}
==============================================================================
