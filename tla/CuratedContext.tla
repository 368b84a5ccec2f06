---------------------------- MODULE CuratedContext ----------------------------
(***************************************************************************)
(* The part of the graph that the AI stages are given: the leads and the top *)
(* of the triage ranking, then what surrounds them, cut at a number of nodes.*)
(***************************************************************************)
EXTENDS TriageScore

CONSTANTS
  ContextScope,  \* ai.context_scope: "global" or "per_host"
  HostRoots,     \* ai.context_include_host_roots
  PerHost, ContextTopN, MaxNodes

\* A node is [type, key].  Nodes and edges <<node, node>> are sequences, in the order of
\* their rows.
Keys(items) == [i \in 1 .. Len(items) |-> items[i].key]

\* The urls of a ranking by host, hosts as they come; a round takes one url of each.
UrlItems(top) == Filtered(top, {t \in Elements(top) : t.kind = "url"})
HostsOf(top) == Unique([i \in 1 .. Len(UrlItems(top)) |-> UrlItems(top)[i].host])
UrlsOfHost(top, h) == Keys(Filtered(top, {t \in Elements(top) : t.kind = "url" /\ t.host = h}))
Round(top, i) ==
  LET with == Filtered(HostsOf(top), {h \in Elements(HostsOf(top)) : i <= Len(UrlsOfHost(top, h))})
  IN [j \in 1 .. Len(with) |-> UrlsOfHost(top, with[j])[i]]

\* Mutant of Selected: hosts and ranking come before the leads.
SelectedByRank(triage, hosts) == Unique(hosts \o Keys(triage.top) \o Keys(triage.must_include))

\* Mutant of Selected: the urls of one host after those of another.
SelectedHostByHost(triage, hosts) ==
  Unique(Keys(triage.must_include) \o hosts
           \o Joined([i \in 1 .. Len(HostsOf(triage.top)) |-> UrlsOfHost(triage.top, HostsOf(triage.top)[i])]))

\* The keys wanted, first ones first: leads, then the hosts and their urls in rounds, or
\* the top of the ranking.
Selected(triage, hosts) ==
  Unique(Keys(triage.must_include)
           \o IF ContextScope = "per_host"
              THEN (IF HostRoots THEN hosts ELSE << >>)
                     \o Joined([i \in 1 .. PerHost |-> Round(triage.top, i)])
              ELSE Cut(Keys(triage.top), ContextTopN))

\* What an edge shows of a node: its other end.
Neighbours(edges, n) ==
  Joined([i \in 1 .. Len(edges) |->
    (IF edges[i][1] = n THEN <<edges[i][2]>> ELSE << >>)
      \o IF edges[i][2] = n THEN <<edges[i][1]>> ELSE << >>])

\* Hosts, technologies and names around the seeds are context, urls are not.
Context(edges, seeds) ==
  LET around == Joined([i \in 1 .. Len(seeds) |-> Neighbours(edges, seeds[i])])
  IN Filtered(around, {n \in Elements(around) : n.type \in {"host", "technology", "subdomain"}})

\* The nodes of wanted keys that are stored, the first with the key, then their context, cut.
Seeds(nodes, wanted) ==
  LET keys == Keys(nodes)
      stored == Filtered(wanted, Elements(keys))
      first(k) == CHOOSE i \in 1 .. Len(keys) : keys[i] = k /\ \A j \in 1 .. i - 1 : keys[j] # k
  IN [i \in 1 .. Len(stored) |-> nodes[first(stored[i])]]
Chosen(nodes, edges, wanted) ==
  LET seeds == Seeds(nodes, wanted)
  IN Cut(Unique(seeds \o Context(edges, seeds)), MaxNodes)

\* The payload: the chosen nodes, and the edges among them; everything if there is no
\* ranking.
Payload(nodes, edges, ranked, triage) ==
  LET hosts == Keys(Filtered(nodes, {n \in Elements(nodes) : n.type = "host"}))
      chosen == IF ranked THEN Chosen(nodes, edges, Selected(triage, hosts)) ELSE nodes
  IN [nodes |-> chosen,
      edges |-> Filtered(edges, {e \in Elements(edges) : {e[1], e[2]} \subseteq Elements(chosen)})]
==============================================================================
