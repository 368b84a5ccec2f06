----------------------------- MODULE GraphQueries -----------------------------
(***************************************************************************)
(* The queries on the graph, over relations added one at a time; beside the  *)
(* ranking and the context of Analysis, with either of the two growing.      *)
(***************************************************************************)
EXTENDS Analysis, KnowledgeGraph

CONSTANTS Edges, Ids,      \* relations, and the nodes they relate
          MaxEdges, Depth  \* bounds

VARIABLE relations

\* A relation relates stored assets.
ASSUME QueriesAssumption ==
  /\ Depth \in Nat
  /\ \A e \in Edges : e.src \in Ids /\ e.dst \in Ids

queryVars == <<urls, findings, secrets, relations>>

QueriesInit == Init /\ relations = {}

AddRelation ==
  /\ urls = << >> /\ Cardinality(relations) < MaxEdges
  /\ \E e \in Edges \ relations : relations' = relations \cup {e}
  /\ UNCHANGED storeVars

QueriesNext ==
  \/ relations = {} /\ Next /\ UNCHANGED relations
  \/ AddRelation

QueriesSpec == QueriesInit /\ [][QueriesNext]_queryVars

-----------------------------------------------------------------------------
\* The recursive queries find what their interface says: all simple paths and no others, all
\* directed walks along a sequence of relations, all nodes within so many hops.
QueriesAreExact ==
  /\ \A a, b \in Ids, directed \in BOOLEAN :
       Paths(relations, a, b, Depth, directed) = SimplePaths(relations, Ids, a, b, Depth, directed)
  /\ \A a \in Ids, hops \in 0 .. Depth :
       Subgraph(relations, {a}, hops).nodes = NodesWithin(relations, Ids, a, hops)
  /\ \A nodes \in SUBSET Ids, n \in 1 .. Depth : \A rels \in [1 .. n -> {e.rel : e \in Edges}] :
       Chains(relations, nodes, rels) = WalksAlong(relations, nodes, rels)
==============================================================================
