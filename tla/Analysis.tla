------------------------------- MODULE Analysis -------------------------------
(***************************************************************************)
(* What a finished scan hands to the analysis: the triage ranking and the    *)
(* part of the graph chosen by it, as functions of a store to which one url  *)
(* or finding at a time is added.                                            *)
(***************************************************************************)
EXTENDS CuratedContext

CONSTANTS
  Hosts,       \* the stored hosts, [key, tech], a sequence as all of the store
  Shapes,      \* what a url can be like: a url record but for its key
  Around,      \* nodes other than hosts and urls
  HostEdges,   \* edges among hosts and those
  FirstKey,    \* the keys of urls are those from here on
  MaxStored, MaxFindings  \* bounds

VARIABLES urls, findings, secrets

storeVars == <<urls, findings, secrets>>

Init == urls = << >> /\ findings = {} /\ secrets = {}

AddUrl ==
  /\ Len(urls) < MaxStored
  /\ \E u \in Shapes :
       urls' = Append(urls, [key |-> FirstKey + Len(urls), host |-> u.host, scheme |-> u.scheme, netloc |-> u.netloc,
                             path |-> u.path, params |-> u.params,
                             static |-> u.static, keyword |-> u.keyword, methods |-> u.methods])
  /\ UNCHANGED <<findings, secrets>>

AddFinding ==
  /\ Cardinality(findings) + Cardinality(secrets) < MaxFindings
  /\ \E i \in DOMAIN urls :
       \/ findings' = findings \cup {[id |-> Cardinality(findings), severity |-> "nuclei_info",
                                      host |-> urls[i].host, at |-> urls[i].key]}
            /\ UNCHANGED secrets
       \/ secrets' = secrets \cup {urls[i].key} /\ UNCHANGED findings
  /\ UNCHANGED urls

Next == AddUrl \/ AddFinding

Spec == Init /\ [][Next]_storeVars

\* The ranking, and the graph as the store has it: urls belong to stored hosts.
HostNode(k) == [type |-> "host", key |-> k]
UrlNode(k) == [type |-> "url", key |-> k]
Fixed == [i \in 1 .. Len(Hosts) |-> HostNode(Hosts[i].key)] \o Around
Nodes == Fixed \o [i \in 1 .. Len(urls) |-> UrlNode(urls[i].key)]
Held == Filtered(urls, {u \in Elements(urls) : u.host \in Elements(Keys(Hosts))})
NodeEdges == HostEdges \o [i \in 1 .. Len(Held) |-> <<UrlNode(Held[i].key), HostNode(Held[i].host)>>]
Stored == Triage(Hosts, urls, findings, secrets)
Given(triage) == Payload(Nodes, NodeEdges, TRUE, triage)

\* Limits that are configured as 0 have their defaults in the code.  Hosts have distinct
\* keys, and the keys of urls are others; what else is stored may have any key.
ASSUME AnalysisAssumption ==
  /\ {TopN, ContextTopN, PerHost, MaxNodes} \subseteq Nat \ {0}
  /\ FirstKey \in Nat
  /\ Hosts \in Seq([key : 0 .. FirstKey - 1, tech : BOOLEAN])
  /\ \A i, j \in 1 .. Len(Hosts) : Hosts[i].key = Hosts[j].key => i = j
  /\ Around \in Seq([type : {"subdomain", "technology", "ip", "endpoint", "artifact"}, key : Nat])
  /\ HostEdges \in Seq(Elements(Fixed) \X Elements(Fixed))

-----------------------------------------------------------------------------
\* "Noise demotion (display only) - NEVER applied to an asset carrying real signal
\* (a finding, a non-GET method, a vuln-class param, or a keyword)" (analysis/triage.py):
\* whatever else is stored, in whatever order, a url with one of those has the score it has
\* alone; and of the urls of a template without any, one is not demoted as a duplicate.
\* Urls with nothing but a 401 or 403, or a parameter of no class, are demoted with the rest.
SignalIsNeverDemoted ==
  \A i \in DOMAIN urls :
    IF Protected(urls[i], findings, secrets)
    THEN UrlScore(urls, findings, secrets, i) = UrlScore(<<urls[i]>>, findings, secrets, 1)
    ELSE \E j \in DOMAIN urls : /\ Template(urls[j]) = Template(urls[i])
                                /\ "duplicate" \notin Noise(urls, findings, secrets, j)

\* "1. guaranteed leads ... earliest survives the max_nodes cap" (analysis/web.py): as long
\* as a stored lead is left out, nothing but leads is in; and context never takes the place
\* of what was selected.
LeadsComeFirst ==
  LET triage == Stored
      nodes == Given(triage).nodes
      leads == Elements(Keys(triage.must_include))
      wanted == Elements(Selected(triage, Keys(Hosts)))
      stored == Elements(Keys(Nodes))
      chosen == Elements(Keys(nodes))
  IN /\ Cardinality(Elements(nodes)) = Len(nodes) /\ Len(nodes) <= MaxNodes
     /\ (leads \cap stored) \subseteq chosen \/ chosen \subseteq leads
     /\ (wanted \cap stored) \subseteq chosen \/ chosen \subseteq wanted

\* Per host "round-robined for fair coverage": no host has a second url in the context,
\* beyond leads, while another of the hosts in the ranking has none.
HostsShareContext ==
  LET triage == Stored
      leads == Elements(Keys(triage.must_include))
      chosen == Elements(Keys(Given(triage).nodes))
      mine(h) == UrlsOfHost(triage.top, h)
  IN ContextScope = "per_host" =>
       \A g, h \in Elements(HostsOf(triage.top)) :
         (\E i \in 2 .. Len(mine(g)) : mine(g)[i] \in chosen \ leads) => mine(h)[1] \in chosen
==============================================================================
